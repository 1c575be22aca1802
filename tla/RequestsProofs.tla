--------------------------- MODULE RequestsProofs ---------------------------
(***************************************************************************)
(* What callers are told, what the collector counts, whose memories an     *)
(* agent finds and what a quota check answers, for any callers, tools,     *)
(* ids, latencies and thresholds that satisfy the assumptions.             *)
(***************************************************************************)
EXTENDS Requests, FiniteSetTheorems, SequenceTheorems, WellFoundedInduction, TLAPS

(***************************************************************************)
(* The inductive invariant, in parts                                       *)
(***************************************************************************)
\* The types of the variables that the arguments below need.
Types ==
    /\ call \in [Callers -> ToolCalls]
    /\ rows \in [Callers -> SUBSET Ids]
    /\ live \in SUBSET Ids
    /\ writer \in [Ids -> Callers \union {Nobody}]
    /\ tag \in [Ids -> Text]
    /\ calls \in 0 .. MaxCalls
    /\ cached \in BOOLEAN
    /\ returned \in [Ops -> Nat]
    /\ failed \in [Ops -> Nat]
    /\ buckets \in [Ops -> [count : Nat, errors : Nat, latencies : Seq(Nat)]]

\* The memories at the service and in the callers' listings were added, and
\* are tagged with the key of who added them.
Tagged ==
    /\ \A m \in live : writer[m] # Nobody
    /\ \A c \in Callers : \A m \in rows[c] : writer[m] # Nobody
    /\ \A m \in Ids : writer[m] # Nobody => tag[m] = KeyString(KeyOf[writer[m]])

\* A try that the service answered well was carried out, and what a carried out delete
\* named is an id that is never given again.
ObeyedBy(k, ids, who) ==
    /\ (k.pc = "answered" /\ k.answer = "done") => k.applied
    /\ (k.pc = "returned" /\ k.answer = "ok") => k.applied
    /\ (k.op = "delete" /\ k.applied) => k.id \in Ids \ ids /\ who[k.id] # Nobody

Obeyed == \A c \in Callers : ObeyedBy(call[c], live, writer)

\* The calls of op that have returned and are not yet recorded.
Late(op) == {c \in Callers : call[c].pc = "returned" /\ call[c].op = op}
LateErrors(op) == {c \in Late(op) : call[c].answer = "err"}

Counted ==
    \A op \in Ops :
        /\ buckets[op].count + Cardinality(Late(op)) = returned[op]
        /\ buckets[op].errors + Cardinality(LateErrors(op)) = failed[op]

\* A Check knows the fewest and the most memories since it began, and has
\* counted some number in between, a page at most.
AskedCheck == [pc : {"asked"}, low : Nat, peak : Nat]
ListedCheck == [pc : {"listed"}, low : Nat, peak : Nat, count : Nat]

QuotaInv ==
    /\ quota.pc \in {"idle", "asked", "listed"}
    /\ quota.pc = "asked" => quota \in AskedCheck
    /\ quota.pc = "listed" => /\ quota \in ListedCheck
                              /\ AtMost(quota.low, Page) <= quota.count
                              /\ quota.count <= quota.peak
    /\ quota.pc # "idle" => quota.low <= Cardinality(live) /\ Cardinality(live) <= quota.peak

RequestsInv == Types /\ Tagged /\ Obeyed /\ Counted /\ QuotaInv

(***************************************************************************)
(* What the steps do to a call's record                                    *)
(***************************************************************************)
\* A record that is updated field by field stays a call.
LEMMA CallFields ==
    ASSUME NEW k \in ToolCalls
    PROVE  /\ \A pc \in {"idle", "asking", "answered", "backoff", "returned"} :
                  [k EXCEPT !.pc = pc] \in ToolCalls
           /\ \A op \in Ops \union {"doctor"} : [k EXCEPT !.op = op] \in ToolCalls
           /\ \A id \in Ids \union {NoId} : [k EXCEPT !.id = id] \in ToolCalls
           /\ \A infer \in BOOLEAN : [k EXCEPT !.infer = infer] \in ToolCalls
           /\ [k EXCEPT !.tries = 1] \in ToolCalls
           /\ \A answer \in {"none", "done", "opaque", "lost", "status", "ok", "raw", "err"} :
                  [k EXCEPT !.answer = answer] \in ToolCalls
           /\ \A applied \in BOOLEAN : [k EXCEPT !.applied = applied] \in ToolCalls
<1>1. \A pc \in {"idle", "asking", "answered", "backoff", "returned"} :
          [k EXCEPT !.pc = pc] \in ToolCalls
  BY SMT DEF ToolCalls
<1>2. \A op \in Ops \union {"doctor"} : [k EXCEPT !.op = op] \in ToolCalls
  BY SMT DEF ToolCalls
<1>3. \A id \in Ids \union {NoId} : [k EXCEPT !.id = id] \in ToolCalls
  BY SMT DEF ToolCalls
<1>4. \A infer \in BOOLEAN : [k EXCEPT !.infer = infer] \in ToolCalls
  BY SMT DEF ToolCalls
<1>5. [k EXCEPT !.tries = 1] \in ToolCalls
  BY SMT DEF ToolCalls
<1>6. \A answer \in {"none", "done", "opaque", "lost", "status", "ok", "raw", "err"} :
          [k EXCEPT !.answer = answer] \in ToolCalls
  BY SMT DEF ToolCalls
<1>7. \A applied \in BOOLEAN : [k EXCEPT !.applied = applied] \in ToolCalls
  BY SMT DEF ToolCalls
<1> QED
  BY <1>1, <1>2, <1>3, <1>4, <1>5, <1>6, <1>7

LEMMA IdleIsACall == Idle \in ToolCalls /\ Idle.pc = "idle" /\ Idle.applied = FALSE
<1>1. Idle \in ToolCalls
  BY SMT DEF Idle, ToolCalls
<1>2. Idle.pc = "idle" /\ Idle.applied = FALSE
  BY SMT DEF Idle
<1> QED
  BY <1>1, <1>2

\* The call that begins.
Begun(op, id, infer) ==
    [Idle EXCEPT !.pc = "asking", !.op = op, !.id = id, !.infer = infer]

\* It has the fields of Idle, but for those that are set.
LEMMA Beginning ==
    ASSUME NEW op \in Ops \union {"doctor"}, NEW id \in Ids \union {NoId}, NEW infer \in BOOLEAN
    PROVE  /\ Begun(op, id, infer) \in ToolCalls
           /\ Begun(op, id, infer).pc = "asking"
           /\ Begun(op, id, infer).applied = FALSE
<1> DEFINE k == [Idle EXCEPT !.pc = "asking", !.op = op, !.id = id, !.infer = infer]
<1>1. k = [[[[Idle EXCEPT !.pc = "asking"] EXCEPT !.op = op] EXCEPT !.id = id] EXCEPT !.infer = infer]
  BY Zenon
<1>2. k \in ToolCalls
  <2>1. [Idle EXCEPT !.pc = "asking"] \in ToolCalls
    BY IdleIsACall, CallFields, Zenon
  <2>2. [[Idle EXCEPT !.pc = "asking"] EXCEPT !.op = op] \in ToolCalls
    BY <2>1, CallFields, Zenon
  <2>3. [[[Idle EXCEPT !.pc = "asking"] EXCEPT !.op = op] EXCEPT !.id = id] \in ToolCalls
    BY <2>2, CallFields, Zenon
  <2> QED
    BY <1>1, <2>3, CallFields, Zenon
<1>3. k.pc = "asking" /\ k.applied = FALSE
  BY SMT DEF Idle
<1> QED
  BY <1>2, <1>3 DEF Begun

\* An answer, and whether the request was carried out.
LEMMA Answering ==
    ASSUME NEW k \in ToolCalls, NEW answer \in {"done", "opaque", "lost", "status"}
    PROVE  /\ [k EXCEPT !.pc = "answered", !.answer = answer, !.applied = TRUE] \in ToolCalls
           /\ [k EXCEPT !.pc = "answered", !.answer = answer] \in ToolCalls
<1>1. [k EXCEPT !.pc = "answered"] \in ToolCalls
  BY CallFields, Zenon
<1>2. [[k EXCEPT !.pc = "answered"] EXCEPT !.answer = answer] \in ToolCalls
  BY <1>1, CallFields, Zenon
<1>3. [[[k EXCEPT !.pc = "answered"] EXCEPT !.answer = answer] EXCEPT !.applied = TRUE] \in ToolCalls
  BY <1>2, CallFields, Zenon
<1> QED
  BY <1>2, <1>3, Zenon
(***************************************************************************)
(* What each step does to the call of its caller                           *)
(***************************************************************************)
\* The call of c becomes k, and no other changes.
Becomes(c, k) == k \in ToolCalls /\ call' = [call EXCEPT ![c] = k]

LEMMA BecomesPointwise ==
    ASSUME Types, NEW c \in Callers, NEW k, Becomes(c, k)
    PROVE  /\ call'[c] = k
           /\ \A d \in Callers : d # c => call'[d] = call[d]
           /\ call' \in [Callers -> ToolCalls]
BY SMT DEF Types, Becomes

\* A call begins, or a hit of the cache ends it.
LEMMA BeginStep ==
    ASSUME Types, NEW c \in Callers, Call(c) \/ ListEntities(c) \/ SearchHit(c)
    PROVE  /\ \E k : Becomes(c, k) /\ k.pc \in {"idle", "asking"} /\ k.applied = FALSE
           /\ call[c].pc \in {"idle", "asking"}
           /\ UNCHANGED <<rows, cached, serviceVars, history, metricsVars, quota>>
           /\ calls' \in 0 .. MaxCalls
<1>1. CASE Call(c)
  <2>1. PICK t \in Used, id \in Ids \union {NoId}, infer \in BOOLEAN :
            call' = [call EXCEPT ![c] = [Idle EXCEPT
                !.pc = "asking", !.op = Tools[t].op, !.id = id, !.infer = infer]]
    BY <1>1, Zenon DEF Call
  <2>2. Tools[t].op \in Ops \union {"doctor"}
    BY OpsAssumption, Zenon
  <2>3. \E k : Becomes(c, k) /\ k.pc = "asking" /\ k.applied = FALSE
    <3>1. call' = [call EXCEPT ![c] = Begun(Tools[t].op, id, infer)]
      BY <2>1, Zenon DEF Begun
    <3>2. \A op \in Ops \union {"doctor"} :
             /\ Begun(op, id, infer) \in ToolCalls
             /\ Begun(op, id, infer).pc = "asking"
             /\ Begun(op, id, infer).applied = FALSE
      BY Beginning
    <3> QED
      BY <3>1, <3>2, <2>2, Zenon DEF Becomes
  <2>4. calls' \in 0 .. MaxCalls
    <3>1. calls < MaxCalls /\ calls' = calls + 1
      BY <1>1, Zenon DEF Call
    <3> QED
      BY <3>1, CallersAssumption, SMT DEF Types
  <2>5. /\ call[c].pc = "idle"
        /\ UNCHANGED <<rows, cached, serviceVars, history, metricsVars, quota>>
    BY <1>1, Zenon DEF Call
  <2> QED
    BY <2>3, <2>4, <2>5, Zenon
<1>2. CASE ListEntities(c)
  <2> DEFINE k == [Idle EXCEPT !.pc = "asking", !.op = "list_entities"]
  <2>1. k \in ToolCalls
    <3>1. [Idle EXCEPT !.pc = "asking"] \in ToolCalls
      BY IdleIsACall, CallFields, Zenon
    <3>2. [[Idle EXCEPT !.pc = "asking"] EXCEPT !.op = "list_entities"] \in ToolCalls
      BY <3>1, CallFields, OpsAssumption, Zenon
    <3> QED
      BY <3>2, Zenon
  <2>2. k.pc = "asking" /\ k.applied = FALSE
    BY SMT DEF Idle
  <2>3. Becomes(c, k)
    BY <1>2, <2>1, Zenon DEF ListEntities, Becomes
  <2>4. calls' \in 0 .. MaxCalls
    BY <1>2, CallersAssumption, SMT DEF ListEntities, Types
  <2>5. /\ call[c].pc = "idle"
        /\ UNCHANGED <<rows, cached, serviceVars, history, metricsVars, quota>>
    BY <1>2, Zenon DEF ListEntities
  <2> HIDE DEF k
  <2> QED
    BY <2>2, <2>3, <2>4, <2>5, Zenon
<1>3. CASE SearchHit(c)
  <2>1. Becomes(c, Idle)
    BY <1>3, IdleIsACall, Zenon DEF SearchHit, Becomes
  <2>2. calls' \in 0 .. MaxCalls
    BY <1>3, Zenon DEF SearchHit, Types
  <2>3. /\ call[c].pc = "asking"
        /\ UNCHANGED <<rows, cached, serviceVars, history, metricsVars, quota>>
    BY <1>3, Zenon DEF SearchHit
  <2> QED
    BY <2>1, <2>2, <2>3, IdleIsACall, Zenon
<1> QED
  BY <1>1, <1>2, <1>3

\* The request of c is carried out.
LEMMA ServeStep ==
    ASSUME Types, NEW c \in Callers, Serve(c)
    PROVE  /\ \E k : /\ Becomes(c, k) /\ k.pc = "answered" /\ k.applied = TRUE
                     /\ k.op = call[c].op /\ k.id = call[c].id
           /\ call[c].pc = "asking"
           /\ Possible(call[c]) /\ Applied(c)
           /\ rows' = rows \/ rows' = [rows EXCEPT ![c] = live]
           /\ UNCHANGED <<calls, cached, returned, failed, metricsVars>>
<1>1. PICK answer \in {"done", "opaque", "lost"} :
          /\ call' = [call EXCEPT ![c] = [@ EXCEPT
                 !.pc = "answered", !.answer = answer, !.applied = TRUE]]
          /\ rows' = IF call[c].op = "get_all" /\ answer = "done"
                        THEN [rows EXCEPT ![c] = live] ELSE rows
  BY Zenon DEF Serve
<1> DEFINE k == [call[c] EXCEPT !.pc = "answered", !.answer = answer, !.applied = TRUE]
<1>2. call[c] \in ToolCalls /\ call' = [call EXCEPT ![c] = k]
  BY <1>1, SMT DEF Types
<1>3. k \in ToolCalls
  BY <1>2, Answering, Zenon
<1>4. k.pc = "answered" /\ k.applied = TRUE /\ k.op = call[c].op /\ k.id = call[c].id
  BY <1>2, SMT DEF ToolCalls
<1> HIDE DEF k
<1>5. Becomes(c, k)
  BY <1>2, <1>3, Zenon DEF Becomes
<1>6. rows' = rows \/ rows' = [rows EXCEPT ![c] = live]
  BY <1>1, Zenon
<1>7. /\ call[c].pc = "asking" /\ Possible(call[c]) /\ Applied(c)
      /\ UNCHANGED <<calls, cached, returned, failed, metricsVars>>
  BY Zenon DEF Serve
<1> QED
  BY <1>4, <1>5, <1>6, <1>7, Zenon

\* Its request is not carried out.
LEMMA RefuseStep ==
    ASSUME Types, NEW c \in Callers, Refuse(c)
    PROVE  /\ \E k : /\ Becomes(c, k) /\ k.pc = "answered" /\ k.answer \in {"lost", "status", "opaque"}
                     /\ k.applied = call[c].applied
                     /\ k.op = call[c].op /\ k.id = call[c].id
           /\ call[c].pc = "asking"
           /\ UNCHANGED <<rows, calls, cached, serviceVars, history, metricsVars, quota>>
<1>1. PICK answer \in {"lost", "status", "opaque"} :
          call' = [call EXCEPT ![c] = [@ EXCEPT !.pc = "answered", !.answer = answer]]
  BY Zenon DEF Refuse
<1> DEFINE k == [call[c] EXCEPT !.pc = "answered", !.answer = answer]
<1>2. call[c] \in ToolCalls /\ call' = [call EXCEPT ![c] = k]
  BY <1>1, SMT DEF Types
<1>3. k \in ToolCalls
  BY <1>2, Answering, Zenon
<1>4. /\ k.pc = "answered" /\ k.answer \in {"lost", "status", "opaque"}
      /\ k.applied = call[c].applied /\ k.op = call[c].op /\ k.id = call[c].id
  BY <1>1, <1>2, SMT DEF ToolCalls
<1> HIDE DEF k
<1>5. Becomes(c, k)
  BY <1>2, <1>3, Zenon DEF Becomes
<1>6. /\ call[c].pc = "asking"
      /\ UNCHANGED <<rows, calls, cached, serviceVars, history, metricsVars, quota>>
  BY Zenon DEF Refuse
<1> QED
  BY <1>4, <1>5, <1>6, Zenon

\* Another try follows, or the wait for it.
LEMMA RetryStep ==
    ASSUME Types, NEW c \in Callers, TryAgain(c) \/ BackoffEnds(c)
    PROVE  /\ \E k : /\ Becomes(c, k) /\ k.pc \in {"asking", "backoff"}
                     /\ k.applied = call[c].applied
                     /\ k.op = call[c].op /\ k.id = call[c].id
           /\ call[c].pc \in {"answered", "backoff"}
           /\ UNCHANGED <<rows, calls, cached, serviceVars, history, metricsVars, quota>>
<1>1. call[c] \in ToolCalls
  BY Zenon DEF Types
<1>2. CASE TryAgain(c)
  <2>1. PICK pc \in {"asking", "backoff"} :
            call' = [call EXCEPT ![c] = [call[c] EXCEPT !.pc = pc, !.tries = 1]]
    <3> DEFINE next == IF call[c].op = "add" THEN "backoff" ELSE "asking"
    <3>1. call' = [call EXCEPT ![c] = [call[c] EXCEPT !.pc = next, !.tries = 1]]
      BY <1>2, SMT DEF TryAgain, Types
    <3>2. next \in {"asking", "backoff"}
      OBVIOUS
    <3> HIDE DEF next
    <3> QED
      BY <3>1, <3>2, Zenon
  <2> DEFINE k == [call[c] EXCEPT !.pc = pc, !.tries = 1]
  <2>2. k \in ToolCalls
    <3>1. [call[c] EXCEPT !.pc = pc] \in ToolCalls
      BY <1>1, <2>1, CallFields, Zenon
    <3>2. [[call[c] EXCEPT !.pc = pc] EXCEPT !.tries = 1] \in ToolCalls
      BY <3>1, CallFields, Zenon
    <3> QED
      BY <3>2, Zenon
  <2>3. /\ k.pc \in {"asking", "backoff"} /\ k.applied = call[c].applied
        /\ k.op = call[c].op /\ k.id = call[c].id
    BY <1>1, <2>1, SMT DEF ToolCalls
  <2>4. call' = [call EXCEPT ![c] = k]
    BY <2>1, Zenon
  <2> HIDE DEF k
  <2>5. Becomes(c, k)
    BY <2>2, <2>4, Zenon DEF Becomes
  <2>6. /\ call[c].pc \in {"answered", "backoff"}
        /\ UNCHANGED <<rows, calls, cached, serviceVars, history, metricsVars, quota>>
    BY <1>2, Zenon DEF TryAgain
  <2> QED
    BY <2>3, <2>5, <2>6, Zenon
<1>3. CASE BackoffEnds(c)
  <2> DEFINE k == [call[c] EXCEPT !.pc = "asking"]
  <2>1. k \in ToolCalls
    BY <1>1, CallFields, Zenon
  <2>2. k.pc = "asking" /\ k.applied = call[c].applied /\ k.op = call[c].op /\ k.id = call[c].id
    BY <1>1, SMT DEF ToolCalls
  <2>3. call' = [call EXCEPT ![c] = k]
    BY <1>3, SMT DEF BackoffEnds, Types
  <2> HIDE DEF k
  <2>4. Becomes(c, k)
    BY <2>1, <2>3, Zenon DEF Becomes
  <2>5. /\ call[c].pc \in {"answered", "backoff"}
        /\ UNCHANGED <<rows, calls, cached, serviceVars, history, metricsVars, quota>>
    BY <1>3, Zenon DEF BackoffEnds
  <2> QED
    BY <2>2, <2>4, <2>5, Zenon
<1> QED
  BY <1>2, <1>3

\* The histories note what the caller is told.
Noted(c, answer) ==
    /\ returned' = [op \in Ops |-> returned[op] + IF op = call[c].op THEN 1 ELSE 0]
    /\ failed' = [op \in Ops |->
           failed[op] + IF op = call[c].op /\ answer = "err" THEN 1 ELSE 0]

\* The call returns to the handler, with an answer.
LEMMA ReturnsStep ==
    ASSUME Types, NEW c \in Callers, Return(c) \/ BackoffCancelled(c)
    PROVE  \E k, answer :
               /\ Becomes(c, k) /\ k.pc = "returned" /\ k.answer = answer
               /\ k.applied = call[c].applied /\ k.op = call[c].op /\ k.id = call[c].id
               /\ answer = "ok" => call[c].pc = "answered" /\ call[c].answer = "done"
               /\ call[c].pc \in {"answered", "backoff"}
               /\ Noted(c, answer)
               /\ UNCHANGED <<rows, calls, cached, serviceVars, writer, metricsVars, quota>>
<1>1. PICK answer \in {"ok", "raw", "err"} :
          /\ Returns(c, answer)
          /\ answer = "ok" => call[c].pc = "answered" /\ call[c].answer = "done"
          /\ call[c].pc \in {"answered", "backoff"}
  <2>1. CASE Return(c)
    <3>1. CASE Succeeded(call[c].answer)
      <4>1. Returns(c, Told(call[c].answer))
        BY <2>1, <3>1, Zenon DEF Return
      <4>2. /\ Told(call[c].answer) \in {"ok", "raw", "err"}
            /\ Told(call[c].answer) = "ok" => call[c].answer = "done"
        BY <3>1, SMT DEF Succeeded, Told
      <4> QED
        BY <2>1, <4>1, <4>2, Zenon DEF Return
    <3>2. CASE ~Succeeded(call[c].answer)
      <4>1. Returns(c, "err") /\ call[c].pc = "answered"
        BY <2>1, <3>2, Zenon DEF Return
      <4> QED
        BY <4>1, SMT
    <3> QED
      BY <3>1, <3>2
  <2>2. CASE BackoffCancelled(c)
    BY <2>2, Zenon DEF BackoffCancelled
  <2> QED
    BY <2>1, <2>2
<1>2. call[c] \in ToolCalls
  BY Zenon DEF Types
<1> DEFINE k == [call[c] EXCEPT !.pc = "returned", !.answer = answer]
<1>3. k \in ToolCalls
  <2>1. [call[c] EXCEPT !.pc = "returned"] \in ToolCalls
    BY <1>2, CallFields, Zenon
  <2>2. [[call[c] EXCEPT !.pc = "returned"] EXCEPT !.answer = answer] \in ToolCalls
    BY <1>1, <2>1, CallFields, Zenon
  <2> QED
    BY <2>2, Zenon
<1>4. /\ k.pc = "returned" /\ k.answer = answer
      /\ k.applied = call[c].applied /\ k.op = call[c].op /\ k.id = call[c].id
  BY <1>2, SMT DEF ToolCalls
<1>5. call' = [call EXCEPT ![c] = k]
  BY <1>1, SMT DEF Returns, Types
<1> HIDE DEF k
<1>6. Becomes(c, k)
  BY <1>3, <1>5, Zenon DEF Becomes
<1>7. /\ Noted(c, answer)
      /\ UNCHANGED <<rows, calls, cached, serviceVars, writer, metricsVars, quota>>
  BY <1>1, Zenon DEF Returns, Noted
<1> QED
  BY <1>1, <1>4, <1>6, <1>7, Zenon

\* The handler answers its caller, and the collector has counted the call.
LEMMA ReplyStep ==
    ASSUME Types, NEW c \in Callers, Reply(c)
    PROVE  /\ Becomes(c, Idle) /\ Idle.pc = "idle" /\ Idle.applied = FALSE
           /\ call[c].pc = "returned"
           /\ cached' \in BOOLEAN
           /\ buckets' \in [Ops -> [count : Nat, errors : Nat, latencies : Seq(Nat)]]
           /\ \A op \in Ops :
                  /\ buckets'[op].count = buckets[op].count + IF op = call[c].op THEN 1 ELSE 0
                  /\ buckets'[op].errors = buckets[op].errors +
                         IF op = call[c].op /\ call[c].answer = "err" THEN 1 ELSE 0
           /\ UNCHANGED <<rows, calls, serviceVars, history, quota>>
<1>1. Becomes(c, Idle)
  BY IdleIsACall, Zenon DEF Reply, Becomes
<1>2. cached' \in BOOLEAN
  BY Zenon DEF Reply
<1>3. /\ buckets' \in [Ops -> [count : Nat, errors : Nat, latencies : Seq(Nat)]]
      /\ \A op \in Ops :
             /\ buckets'[op].count = buckets[op].count + IF op = call[c].op THEN 1 ELSE 0
             /\ buckets'[op].errors = buckets[op].errors +
                    IF op = call[c].op /\ call[c].answer = "err" THEN 1 ELSE 0
  <2>1. CASE call[c].op = "doctor" /\ UNCHANGED metricsVars
    BY <2>1, OpsAssumption, SMT DEF metricsVars, Types
  <2>2. CASE call[c].op # "doctor" /\
              \E latency \in Latencies : Record(call[c].op, latency, Failure(call[c]))
    <3>1. PICK latency \in Nat :
              buckets' = [buckets EXCEPT ![call[c].op] =
                  [count     |-> @.count + 1,
                   errors    |-> IF call[c].answer = "err" THEN @.errors + 1 ELSE @.errors,
                   latencies |-> Append(@.latencies, latency)]]
      BY <2>2, LatenciesAssumption, Zenon DEF Record, Failure
    <3> DEFINE new(b) == [count     |-> b.count + 1,
                          errors    |-> IF call[c].answer = "err" THEN b.errors + 1 ELSE b.errors,
                          latencies |-> Append(b.latencies, latency)]
    <3>2. \A b \in [count : Nat, errors : Nat, latencies : Seq(Nat)] :
             new(b) \in [count : Nat, errors : Nat, latencies : Seq(Nat)]
      BY <3>1, SMT
    <3>3. \A op \in Ops : buckets[op] \in [count : Nat, errors : Nat, latencies : Seq(Nat)]
      BY Zenon DEF Types
    <3>4. \A op \in Ops :
             buckets'[op] = IF op = call[c].op THEN new(buckets[op]) ELSE buckets[op]
      BY <3>1, Zenon DEF Types
    <3>5. buckets' \in [Ops -> [count : Nat, errors : Nat, latencies : Seq(Nat)]]
      <4>1. DOMAIN buckets' = Ops /\ buckets' = [op \in DOMAIN buckets' |-> buckets'[op]]
        <5>1. buckets' = [buckets EXCEPT ![call[c].op] = new(@)]
          BY <3>1, Zenon
        <5> HIDE DEF new
        <5>2. buckets \in [Ops -> [count : Nat, errors : Nat, latencies : Seq(Nat)]]
          BY Zenon DEF Types
        <5> QED
          BY <5>1, <5>2, Zenon
      <4>2. \A op \in Ops : buckets'[op] \in [count : Nat, errors : Nat, latencies : Seq(Nat)]
        <5> HIDE DEF new
        <5> QED
          BY <3>2, <3>3, <3>4, Zenon
      <4> QED
        BY <4>1, <4>2, Zenon
    <3>6. \A b : new(b).count = b.count + 1 /\
               new(b).errors = IF call[c].answer = "err" THEN b.errors + 1 ELSE b.errors
      BY SMT
    <3>7. \A op \in Ops : buckets[op].count \in Nat /\ buckets[op].errors \in Nat
      BY <3>3, SMT
    <3> HIDE DEF new
    <3>8. ASSUME NEW op \in Ops
          PROVE  /\ buckets'[op].count = buckets[op].count + IF op = call[c].op THEN 1 ELSE 0
                 /\ buckets'[op].errors = buckets[op].errors +
                        IF op = call[c].op /\ call[c].answer = "err" THEN 1 ELSE 0
      <4>1. CASE op = call[c].op
        BY <4>1, <3>4, <3>6, <3>7, SMT
      <4>2. CASE op # call[c].op
        BY <4>2, <3>4, <3>7, SMT
      <4> QED
        BY <4>1, <4>2
    <3> QED
      BY <3>5, <3>8, Zenon
  <2> QED
    BY <2>1, <2>2, Zenon DEF Reply
<1>4. call[c].pc = "returned" /\ UNCHANGED <<rows, calls, serviceVars, history, quota>>
  BY Zenon DEF Reply
<1> QED
  BY <1>1, <1>2, <1>3, <1>4, IdleIsACall, Zenon

(***************************************************************************)
(* What the service may do to its memories                                 *)
(***************************************************************************)
LEMMA KeyStringIsText ==
    ASSUME NEW c \in Callers
    PROVE  KeyString(KeyOf[c]) \in Text
<1> DEFINE k == KeyOf[c]
<1>1. k.AppID \in Text /\ k.UserID \in Text /\ k.Namespace \in Text /\ k.RunID \in Text
  BY CallersAssumption, SMT
<1> HIDE DEF k
<1>2. <<Slash>> \in Text
  BY CallersAssumption, SMT DEF Text
<1>3. \A s, t \in Text : s \o t \in Text
  BY SMT DEF Text
<1>4. KeyString(k) \in Text
  BY <1>1, <1>2, <1>3, Zenon DEF KeyString
<1> QED
  BY <1>4 DEF k

\* An id is given once, and to one memory, which bears its writer's key.
LEMMA ServiceFrame ==
    ASSUME Types, Tagged, NEW c \in Callers, Applied(c), Possible(call[c])
    PROVE  /\ live' \in SUBSET Ids
           /\ writer' \in [Ids -> Callers \union {Nobody}]
           /\ tag' \in [Ids -> Text]
           /\ \A m \in Ids : writer[m] # Nobody =>
                  writer'[m] = writer[m] /\ tag'[m] = tag[m] /\ (m \in live' => m \in live)
           /\ \A m \in live' : writer'[m] # Nobody
           /\ \A m \in Ids : writer'[m] # Nobody => tag'[m] = KeyString(KeyOf[writer'[m]])
           /\ call[c].op = "delete" => call[c].id \in live /\ live' = live \ {call[c].id}
<1>1. CASE call[c].op = "add"
  <2>1. PICK m \in Ids :
            /\ writer[m] = Nobody
            /\ live' = live \union {m}
            /\ tag' = [tag EXCEPT ![m] = KeyString(KeyOf[c])]
            /\ writer' = [writer EXCEPT ![m] = c]
    BY <1>1, Zenon DEF Applied
  <2>2. \A i \in Ids : writer'[i] = IF i = m THEN c ELSE writer[i]
    BY <2>1, Zenon DEF Types
  <2>3. \A i \in Ids : tag'[i] = IF i = m THEN KeyString(KeyOf[c]) ELSE tag[i]
    BY <2>1, Zenon DEF Types
  <2>4. writer' \in [Ids -> Callers \union {Nobody}]
    BY <2>1, Zenon DEF Types
  <2>5. tag' \in [Ids -> Text]
    BY <2>1, KeyStringIsText, Zenon DEF Types
  <2>6. c # Nobody
    BY CallersAssumption, Zenon
  <2>7. /\ live' \in SUBSET Ids
        /\ \A i \in live' : writer'[i] # Nobody
    BY <2>1, <2>2, <2>6, SMT DEF Types, Tagged
  <2>8. \A i \in Ids : writer[i] # Nobody =>
            writer'[i] = writer[i] /\ tag'[i] = tag[i] /\ (i \in live' => i \in live)
    BY <2>1, <2>2, <2>3, Zenon
  <2>9. \A i \in Ids : writer'[i] # Nobody => tag'[i] = KeyString(KeyOf[writer'[i]])
    BY <2>2, <2>3, Zenon DEF Tagged
  <2> QED
    BY <1>1, <2>4, <2>5, <2>7, <2>8, <2>9, Zenon
<1>2. CASE call[c].op # "add"
  <2>1. /\ live' = IF call[c].op = "delete" THEN live \ {call[c].id} ELSE live
        /\ tag' = tag /\ writer' = writer
    BY <1>2, Zenon DEF Applied
  <2>2. live' \subseteq live
    BY <2>1, Zenon
  <2>3. call[c].op = "delete" => call[c].id \in live /\ live' = live \ {call[c].id}
    BY <2>1, SMT DEF Possible
  <2> QED
    BY <2>1, <2>2, <2>3, SMT DEF Types, Tagged
<1> QED
  BY <1>1, <1>2

(***************************************************************************)
(* The types                                                               *)
(***************************************************************************)
LEMMA TypesInit == Init => Types
<1> SUFFICES ASSUME Init PROVE Types
  OBVIOUS
<1>1. call \in [Callers -> ToolCalls]
  BY IdleIsACall, Zenon DEF Init
<1>2. /\ rows \in [Callers -> SUBSET Ids] /\ live \in SUBSET Ids
      /\ writer \in [Ids -> Callers \union {Nobody}]
      /\ cached \in BOOLEAN
  BY Zenon DEF Init
<1>3. tag \in [Ids -> Text] /\ calls \in 0 .. MaxCalls
      /\ returned \in [Ops -> Nat] /\ failed \in [Ops -> Nat]
  BY CallersAssumption, SMT DEF Init, Text
<1>4. buckets \in [Ops -> [count : Nat, errors : Nat, latencies : Seq(Nat)]]
  <2>1. NoCalls \in [count : Nat, errors : Nat, latencies : Seq(Nat)]
    BY SMT DEF NoCalls
  <2> QED
    BY <2>1, Zenon DEF Init, MetricsInit
<1> QED
  BY <1>1, <1>2, <1>3, <1>4 DEF Types

LEMMA TypesStep == Types /\ Tagged /\ [Next]_vars => Types'
<1> SUFFICES ASSUME Types, Tagged, [Next]_vars PROVE Types'
  OBVIOUS
<1>1. ASSUME NEW c \in Callers, NEW k, Becomes(c, k),
             UNCHANGED <<rows, cached, serviceVars, history, metricsVars>>,
             calls' \in 0 .. MaxCalls
      PROVE  Types'
  <2>1. call' \in [Callers -> ToolCalls]
    BY <1>1, BecomesPointwise, Zenon
  <2> QED
    BY <1>1, <2>1, Zenon DEF Types, serviceVars, history, metricsVars
<1>2. ASSUME NEW c \in Callers, Call(c) \/ ListEntities(c) \/ SearchHit(c)
      PROVE  Types'
  BY <1>1, <1>2, BeginStep, Zenon
<1>3. ASSUME NEW c \in Callers, Serve(c)
      PROVE  Types'
  <2>1. call' \in [Callers -> ToolCalls]
    BY <1>3, ServeStep, BecomesPointwise, Zenon
  <2>2. rows' \in [Callers -> SUBSET Ids]
    <3>1. rows' = rows \/ rows' = [rows EXCEPT ![c] = live]
      BY <1>3, ServeStep, Zenon
    <3> QED
      BY <3>1, Zenon DEF Types
  <2>3. live' \in SUBSET Ids /\ writer' \in [Ids -> Callers \union {Nobody}]
        /\ tag' \in [Ids -> Text]
    BY <1>3, ServeStep, ServiceFrame, Zenon
  <2>4. UNCHANGED <<calls, cached, returned, failed, buckets>>
    BY <1>3, ServeStep, Zenon DEF metricsVars
  <2> QED
    BY <2>1, <2>2, <2>3, <2>4, Zenon DEF Types
<1>4. ASSUME NEW c \in Callers, Refuse(c) \/ TryAgain(c) \/ BackoffEnds(c)
      PROVE  Types'
  <2>1. calls \in 0 .. MaxCalls
    BY Zenon DEF Types
  <2> QED
    BY <1>1, <1>4, <2>1, RefuseStep, RetryStep, Zenon
<1>5. ASSUME NEW c \in Callers, Return(c) \/ BackoffCancelled(c)
      PROVE  Types'
  <2>1. PICK k, answer :
            /\ Becomes(c, k)
            /\ Noted(c, answer)
            /\ UNCHANGED <<rows, calls, cached, serviceVars, writer, metricsVars, quota>>
    BY <1>5, ReturnsStep, Zenon
  <2>2. call' \in [Callers -> ToolCalls]
    BY <2>1, BecomesPointwise, Zenon
  <2>3. returned' \in [Ops -> Nat] /\ failed' \in [Ops -> Nat]
    BY <2>1, SMT DEF Types, Noted
  <2> QED
    BY <2>1, <2>2, <2>3, Zenon DEF Types, serviceVars, metricsVars
<1>6. ASSUME NEW c \in Callers, Reply(c)
      PROVE  Types'
  <2>1. call' \in [Callers -> ToolCalls]
    BY <1>6, ReplyStep, BecomesPointwise, Zenon
  <2>2. /\ cached' \in BOOLEAN
        /\ buckets' \in [Ops -> [count : Nat, errors : Nat, latencies : Seq(Nat)]]
        /\ UNCHANGED <<rows, calls, live, tag, writer, returned, failed>>
    BY <1>6, ReplyStep, Zenon DEF serviceVars, history
  <2> QED
    BY <2>1, <2>2, Zenon DEF Types
<1>7. ASSUME Report \/ CheckQuota \/ UNCHANGED vars
      PROVE  Types'
  BY <1>7, SMT DEF Report, CheckQuota, MetricsStep, WriteTo, WriteLine, WriteEnd, vars,
     callVars, serviceVars, history, metricsVars, Types
<1> QED
  BY <1>2, <1>3, <1>4, <1>5, <1>6, <1>7, Zenon DEF Next, ClientStep

(***************************************************************************)
(* The memories and their tags                                             *)
(***************************************************************************)
\* Only a request that is carried out changes the memories or a listing.
LEMMA OthersKeepMemories ==
    ASSUME Types, [Next]_vars, ~\E c \in Callers : Serve(c)
    PROVE  UNCHANGED <<rows, live, tag, writer>>
<1>1. ASSUME NEW c \in Callers, Call(c) \/ ListEntities(c) \/ SearchHit(c)
      PROVE  UNCHANGED <<rows, live, tag, writer>>
  BY <1>1, Zenon DEF Call, ListEntities, SearchHit, serviceVars, history
<1>2. ASSUME NEW c \in Callers, Refuse(c) \/ ClientStep(c)
      PROVE  UNCHANGED <<rows, live, tag, writer>>
  BY <1>2, Zenon DEF Refuse, ClientStep, TryAgain, BackoffEnds, BackoffCancelled, Return,
     Returns, Reply, serviceVars, history
<1>3. ASSUME Report \/ CheckQuota \/ UNCHANGED vars
      PROVE  UNCHANGED <<rows, live, tag, writer>>
  BY <1>3, Zenon DEF Report, CheckQuota, vars, callVars, serviceVars, history
<1> QED
  BY <1>1, <1>2, <1>3, Zenon DEF Next

LEMMA TaggedStep == Types /\ Tagged /\ [Next]_vars => Tagged'
<1> SUFFICES ASSUME Types, Tagged, [Next]_vars PROVE Tagged'
  OBVIOUS
<1>1. CASE ~\E c \in Callers : Serve(c)
  <2>1. UNCHANGED <<rows, live, tag, writer>>
    BY <1>1, OthersKeepMemories, Zenon
  <2> QED
    BY <2>1, Zenon DEF Tagged
<1>2. ASSUME NEW c \in Callers, Serve(c)
      PROVE  Tagged'
  <2>1. /\ \A m \in live' : writer'[m] # Nobody
        /\ \A m \in Ids : writer'[m] # Nobody => tag'[m] = KeyString(KeyOf[writer'[m]])
        /\ \A m \in Ids : writer[m] # Nobody => writer'[m] = writer[m]
    BY <1>2, ServeStep, ServiceFrame, Zenon
  <2>2. rows' = rows \/ rows' = [rows EXCEPT ![c] = live]
    BY <1>2, ServeStep, Zenon
  <2>3. ASSUME NEW d \in Callers, NEW m \in rows'[d]
        PROVE  writer'[m] # Nobody
    <3>1. m \in rows[d] \/ m \in live
      BY <2>2, <2>3, Zenon DEF Types
    <3>2. m \in Ids /\ writer[m] # Nobody
      BY <3>1, Zenon DEF Types, Tagged
    <3> QED
      BY <2>1, <3>2, Zenon
  <2> QED
    BY <2>1, <2>3, Zenon DEF Tagged
<1> QED
  BY <1>1, <1>2

(***************************************************************************)
(* What was obeyed                                                         *)
(***************************************************************************)
LEMMA ObeyedStep == Types /\ Tagged /\ Obeyed /\ [Next]_vars => Obeyed'
<1> SUFFICES ASSUME Types, Tagged, Obeyed, [Next]_vars PROVE Obeyed'
  OBVIOUS
\* A memory that is gone stays away.
<1>1. \A m \in Ids : writer[m] # Nobody =>
          writer'[m] = writer[m] /\ (m \in live' => m \in live)
  <2>1. CASE ~\E c \in Callers : Serve(c)
    BY <2>1, OthersKeepMemories, Zenon
  <2>2. ASSUME NEW c \in Callers, Serve(c)
        PROVE  \A m \in Ids : writer[m] # Nobody =>
                   writer'[m] = writer[m] /\ (m \in live' => m \in live)
    BY <2>2, ServeStep, ServiceFrame, Zenon
  <2> QED
    BY <2>1, <2>2
<1>2. \A d \in Callers : ObeyedBy(call[d], live', writer')
  BY <1>1, SMT DEF Obeyed, ObeyedBy
<1>3. ASSUME NEW c \in Callers, NEW k, Becomes(c, k), ObeyedBy(k, live', writer')
      PROVE  Obeyed'
  <2>1. call'[c] = k /\ \A d \in Callers : d # c => call'[d] = call[d]
    BY <1>3, BecomesPointwise, Zenon
  <2> QED
    BY <1>2, <1>3, <2>1, Zenon DEF Obeyed
<1>4. ASSUME NEW c \in Callers, Call(c) \/ ListEntities(c) \/ SearchHit(c)
      PROVE  Obeyed'
  <2>1. PICK k : Becomes(c, k) /\ k.pc \in {"idle", "asking"} /\ k.applied = FALSE
    BY <1>4, BeginStep, Zenon
  <2>2. ObeyedBy(k, live', writer')
    BY <2>1, SMT DEF ObeyedBy
  <2> QED
    BY <1>3, <2>1, <2>2, Zenon
<1>5. ASSUME NEW c \in Callers, Serve(c)
      PROVE  Obeyed'
  <2>1. PICK k : /\ Becomes(c, k) /\ k.pc = "answered" /\ k.applied = TRUE
                 /\ k.op = call[c].op /\ k.id = call[c].id
    BY <1>5, ServeStep, Zenon
  <2>2. call[c].op = "delete" => call[c].id \in live /\ live' = live \ {call[c].id}
    BY <1>5, ServeStep, ServiceFrame, Zenon
  <2>3. call[c].op = "delete" =>
            call[c].id \in Ids \ live' /\ writer'[call[c].id] # Nobody
    BY <1>1, <2>2, SMT DEF Types, Tagged
  <2>4. ObeyedBy(k, live', writer')
    BY <2>1, <2>3, SMT DEF ObeyedBy
  <2> QED
    BY <1>3, <2>1, <2>4, Zenon
<1>6. ASSUME NEW c \in Callers, Refuse(c) \/ TryAgain(c) \/ BackoffEnds(c)
      PROVE  Obeyed'
  <2>1. CASE Refuse(c)
    <3>1. PICK k : /\ Becomes(c, k) /\ k.pc = "answered" /\ k.answer \in {"lost", "status", "opaque"}
                   /\ k.applied = call[c].applied
                   /\ k.op = call[c].op /\ k.id = call[c].id
      BY <2>1, RefuseStep, Zenon
    <3>2. ObeyedBy(k, live', writer')
      BY <1>2, <3>1, SMT DEF ObeyedBy, Succeeded
    <3> QED
      BY <1>3, <3>1, <3>2, Zenon
  <2>2. CASE TryAgain(c) \/ BackoffEnds(c)
    <3>1. PICK k : /\ Becomes(c, k) /\ k.pc \in {"asking", "backoff"}
                   /\ k.applied = call[c].applied
                   /\ k.op = call[c].op /\ k.id = call[c].id
      BY <2>2, RetryStep, Zenon
    <3>2. ObeyedBy(k, live', writer')
      BY <1>2, <3>1, SMT DEF ObeyedBy
    <3> QED
      BY <1>3, <3>1, <3>2, Zenon
  <2> QED
    BY <1>6, <2>1, <2>2
<1>7. ASSUME NEW c \in Callers, Return(c) \/ BackoffCancelled(c)
      PROVE  Obeyed'
  <2>1. PICK k, answer :
            /\ Becomes(c, k) /\ k.pc = "returned" /\ k.answer = answer
            /\ k.applied = call[c].applied /\ k.op = call[c].op /\ k.id = call[c].id
            /\ answer = "ok" => call[c].pc = "answered" /\ call[c].answer = "done"
    BY <1>7, ReturnsStep, Zenon
  <2>2. ObeyedBy(k, live', writer')
    BY <1>2, <2>1, SMT DEF ObeyedBy
  <2> QED
    BY <1>3, <2>1, <2>2, Zenon
<1>8. ASSUME NEW c \in Callers, Reply(c)
      PROVE  Obeyed'
  <2>1. Becomes(c, Idle) /\ Idle.pc = "idle" /\ Idle.applied = FALSE
    BY <1>8, ReplyStep, Zenon
  <2>2. ObeyedBy(Idle, live', writer')
    BY <2>1, SMT DEF ObeyedBy
  <2> QED
    BY <1>3, <2>1, <2>2, Zenon
<1>9. ASSUME Report \/ CheckQuota \/ UNCHANGED vars
      PROVE  Obeyed'
  <2>1. call' = call
    BY <1>9, Zenon DEF Report, CheckQuota, vars, callVars
  <2> QED
    BY <1>2, <2>1, Zenon DEF Obeyed
<1> QED
  BY <1>4, <1>5, <1>6, <1>7, <1>8, <1>9, Zenon DEF Next, ClientStep

(***************************************************************************)
(* What the collector counts                                               *)
(***************************************************************************)
LEMMA LateFinite ==
    ASSUME NEW op
    PROVE  /\ IsFiniteSet(Late(op)) /\ IsFiniteSet(LateErrors(op))
           /\ Cardinality(Late(op)) \in Nat /\ Cardinality(LateErrors(op)) \in Nat
<1>1. Late(op) \subseteq Callers /\ LateErrors(op) \subseteq Callers
  BY Zenon DEF Late, LateErrors
<1> QED
  BY <1>1, CallersAssumption, FS_Subset, FS_CardinalityType, Zenon

\* A step of a call that neither returns nor is recorded.
LEMMA CountedFrame ==
    ASSUME Types, Counted, NEW c \in Callers, NEW k, Becomes(c, k),
           call[c].pc # "returned", k.pc # "returned",
           UNCHANGED <<buckets, returned, failed>>
    PROVE  Counted'
<1>1. call'[c] = k /\ \A d \in Callers : d # c => call'[d] = call[d]
  BY BecomesPointwise, Zenon
<1>2. ASSUME NEW op PROVE Late(op)' = Late(op) /\ LateErrors(op)' = LateErrors(op)
  <2>1. Late(op)' = Late(op)
    BY <1>1, Zenon DEF Late
  <2>2. \A d \in Late(op) : call'[d] = call[d]
    BY <1>1, Zenon DEF Late
  <2> QED
    BY <2>1, <2>2, Zenon DEF LateErrors
<1> QED
  BY <1>2, Zenon DEF Counted

\* A call returns: it is late, and so is its error.
LEMMA CountedReturns ==
    ASSUME Types, Counted, NEW c \in Callers, NEW k, NEW answer, Becomes(c, k),
           call[c].pc # "returned", k.pc = "returned",
           k.answer = answer, k.op = call[c].op, Noted(c, answer), UNCHANGED buckets
    PROVE  Counted'
<1>1. call'[c] = k /\ \A d \in Callers : d # c => call'[d] = call[d]
  BY BecomesPointwise, Zenon
<1>2. ASSUME NEW op \in Ops
      PROVE  /\ (buckets[op].count + Cardinality(Late(op)) = returned[op])'
             /\ (buckets[op].errors + Cardinality(LateErrors(op)) = failed[op])'
  <2>1. /\ returned'[op] = returned[op] + IF op = call[c].op THEN 1 ELSE 0
        /\ failed'[op] = failed[op] + IF op = call[c].op /\ answer = "err" THEN 1 ELSE 0
    BY <1>2, SMT DEF Noted
  <2>2. c \notin Late(op) /\ c \notin LateErrors(op)
    BY Zenon DEF Late, LateErrors
  <2>3. Late(op)' = IF op = call[c].op THEN Late(op) \union {c} ELSE Late(op)
    BY <1>1, SMT DEF Late
  <2>4. LateErrors(op)' = IF op = call[c].op /\ answer = "err"
                             THEN LateErrors(op) \union {c} ELSE LateErrors(op)
    BY <1>1, SMT DEF Late, LateErrors
  <2>5. /\ Cardinality(Late(op) \union {c}) = Cardinality(Late(op)) + 1
        /\ Cardinality(LateErrors(op) \union {c}) = Cardinality(LateErrors(op)) + 1
    BY <2>2, LateFinite, FS_AddElement, Zenon
  <2>6. /\ Cardinality(Late(op))' = Cardinality(Late(op)')
        /\ Cardinality(LateErrors(op))' = Cardinality(LateErrors(op)')
    OBVIOUS
  <2>7. /\ buckets[op].count + Cardinality(Late(op)) = returned[op]
        /\ buckets[op].errors + Cardinality(LateErrors(op)) = failed[op]
    BY Zenon DEF Counted
  <2>8. buckets[op].count \in Nat /\ buckets[op].errors \in Nat
    BY SMT DEF Types
  <2>9. CASE op = call[c].op /\ answer = "err"
    BY <2>1, <2>3, <2>4, <2>5, <2>7, <2>8, <2>9, LateFinite, SMT
  <2>10. CASE op = call[c].op /\ answer # "err"
    BY <2>1, <2>3, <2>4, <2>5, <2>7, <2>8, <2>10, LateFinite, SMT
  <2>11. CASE op # call[c].op
    BY <2>1, <2>3, <2>4, <2>7, <2>8, <2>11, LateFinite, SMT
  <2> QED
    BY <2>9, <2>10, <2>11
<1> QED
  BY <1>2, Zenon DEF Counted

\* A call is recorded: it is late no more.
LEMMA CountedReply ==
    ASSUME Types, Counted, NEW c \in Callers, Reply(c)
    PROVE  Counted'
<1>1. /\ Becomes(c, Idle) /\ Idle.pc = "idle" /\ call[c].pc = "returned"
      /\ UNCHANGED <<returned, failed>>
      /\ \A op \in Ops :
             /\ buckets'[op].count = buckets[op].count + IF op = call[c].op THEN 1 ELSE 0
             /\ buckets'[op].errors = buckets[op].errors +
                    IF op = call[c].op /\ call[c].answer = "err" THEN 1 ELSE 0
  BY ReplyStep, Zenon DEF history
<1>2. call'[c] = Idle /\ \A d \in Callers : d # c => call'[d] = call[d]
  BY <1>1, BecomesPointwise, Zenon
<1>3. ASSUME NEW op \in Ops
      PROVE  /\ (buckets[op].count + Cardinality(Late(op)) = returned[op])'
             /\ (buckets[op].errors + Cardinality(LateErrors(op)) = failed[op])'
  <2>1. Late(op)' = Late(op) \ {c} /\ LateErrors(op)' = LateErrors(op) \ {c}
    BY <1>1, <1>2, SMT DEF Late, LateErrors
  <2>2. /\ op = call[c].op <=> c \in Late(op)
        /\ (op = call[c].op /\ call[c].answer = "err") <=> c \in LateErrors(op)
    BY <1>1, SMT DEF Late, LateErrors
  <2>3. /\ c \in Late(op) => Cardinality(Late(op) \ {c}) = Cardinality(Late(op)) - 1
        /\ c \in LateErrors(op) =>
               Cardinality(LateErrors(op) \ {c}) = Cardinality(LateErrors(op)) - 1
    BY LateFinite, FS_RemoveElement, Zenon
  <2>4. /\ c \notin Late(op) => Late(op) \ {c} = Late(op)
        /\ c \notin LateErrors(op) => LateErrors(op) \ {c} = LateErrors(op)
    BY Zenon
  <2>5. /\ buckets[op].count + Cardinality(Late(op)) = returned[op]
        /\ buckets[op].errors + Cardinality(LateErrors(op)) = failed[op]
    BY Zenon DEF Counted
  <2>6. buckets[op].count \in Nat /\ buckets[op].errors \in Nat
    BY SMT DEF Types
  <2>7. /\ buckets'[op].count = buckets[op].count + IF op = call[c].op THEN 1 ELSE 0
        /\ buckets'[op].errors = buckets[op].errors +
               IF op = call[c].op /\ call[c].answer = "err" THEN 1 ELSE 0
        /\ returned'[op] = returned[op] /\ failed'[op] = failed[op]
    BY <1>1, <1>3, Zenon
  <2>8. /\ Cardinality(Late(op)') = IF op = call[c].op THEN Cardinality(Late(op)) - 1
                                    ELSE Cardinality(Late(op))
        /\ Cardinality(LateErrors(op)') =
               IF op = call[c].op /\ call[c].answer = "err" THEN Cardinality(LateErrors(op)) - 1
               ELSE Cardinality(LateErrors(op))
    BY <2>1, <2>2, <2>3, <2>4, Zenon
  <2>9. /\ buckets'[op].count + Cardinality(Late(op)') = returned'[op]
        /\ buckets'[op].errors + Cardinality(LateErrors(op)') = failed'[op]
    <3> DEFINE n == Cardinality(Late(op))
               e == Cardinality(LateErrors(op))
    <3>1. n \in Nat /\ e \in Nat
      BY LateFinite, Zenon
    <3> HIDE DEF n, e
    <3>2. /\ Cardinality(Late(op)') = IF op = call[c].op THEN n - 1 ELSE n
          /\ Cardinality(LateErrors(op)') =
                 IF op = call[c].op /\ call[c].answer = "err" THEN e - 1 ELSE e
          /\ buckets[op].count + n = returned[op]
          /\ buckets[op].errors + e = failed[op]
      BY <2>5, <2>8, Zenon DEF n, e
    <3>3. CASE op # call[c].op
      BY <2>6, <2>7, <3>1, <3>2, <3>3, SMT
    <3>4. CASE op = call[c].op /\ call[c].answer = "err"
      BY <2>6, <2>7, <3>1, <3>2, <3>4, SMT
    <3>5. CASE op = call[c].op /\ call[c].answer # "err"
      BY <2>6, <2>7, <3>1, <3>2, <3>5, SMT
    <3> QED
      BY <3>3, <3>4, <3>5
  <2> QED
    BY <2>9
<1> QED
  BY <1>3, Zenon DEF Counted

LEMMA CountedStep == Types /\ Counted /\ [Next]_vars => Counted'
<1> SUFFICES ASSUME Types, Counted, [Next]_vars PROVE Counted'
  OBVIOUS
<1>1. ASSUME NEW c \in Callers, Call(c) \/ ListEntities(c) \/ SearchHit(c)
      PROVE  Counted'
  <2>1. PICK k : Becomes(c, k) /\ k.pc \in {"idle", "asking"}
    BY <1>1, BeginStep, Zenon
  <2>2. call[c].pc # "returned" /\ k.pc # "returned"
    BY <1>1, <2>1, BeginStep, Zenon
  <2>3. UNCHANGED <<buckets, returned, failed>>
    BY <1>1, BeginStep, Zenon DEF history, metricsVars
  <2> QED
    BY <2>1, <2>2, <2>3, CountedFrame, Zenon
<1>2. ASSUME NEW c \in Callers, Serve(c)
      PROVE  Counted'
  <2>1. PICK k : Becomes(c, k) /\ k.pc = "answered"
    BY <1>2, ServeStep, Zenon
  <2>2. call[c].pc # "returned" /\ k.pc # "returned"
    BY <1>2, <2>1, ServeStep, Zenon
  <2>3. UNCHANGED <<buckets, returned, failed>>
    BY <1>2, ServeStep, Zenon DEF metricsVars
  <2> QED
    BY <2>1, <2>2, <2>3, CountedFrame, Zenon
<1>3. ASSUME NEW c \in Callers, Refuse(c)
      PROVE  Counted'
  <2>1. PICK k : Becomes(c, k) /\ k.pc = "answered"
    BY <1>3, RefuseStep, Zenon
  <2>2. call[c].pc # "returned" /\ k.pc # "returned"
    BY <1>3, <2>1, RefuseStep, Zenon
  <2>3. UNCHANGED <<buckets, returned, failed>>
    BY <1>3, RefuseStep, Zenon DEF history, metricsVars
  <2> QED
    BY <2>1, <2>2, <2>3, CountedFrame, Zenon
<1>4. ASSUME NEW c \in Callers, TryAgain(c) \/ BackoffEnds(c)
      PROVE  Counted'
  <2>1. PICK k : Becomes(c, k) /\ k.pc \in {"asking", "backoff"}
    BY <1>4, RetryStep, Zenon
  <2>2. call[c].pc # "returned" /\ k.pc # "returned"
    BY <1>4, <2>1, RetryStep, Zenon
  <2>3. UNCHANGED <<buckets, returned, failed>>
    BY <1>4, RetryStep, Zenon DEF history, metricsVars
  <2> QED
    BY <2>1, <2>2, <2>3, CountedFrame, Zenon
<1>5. ASSUME NEW c \in Callers, Return(c) \/ BackoffCancelled(c)
      PROVE  Counted'
  <2>1. PICK k, answer :
            /\ Becomes(c, k) /\ k.pc = "returned" /\ k.answer = answer /\ k.op = call[c].op
            /\ call[c].pc \in {"answered", "backoff"}
            /\ Noted(c, answer)
            /\ UNCHANGED metricsVars
    BY <1>5, ReturnsStep, Zenon
  <2>2. call[c].pc # "returned" /\ UNCHANGED buckets
    BY <2>1, Zenon DEF metricsVars
  <2> QED
    BY <2>1, <2>2, CountedReturns, Zenon
<1>6. ASSUME NEW c \in Callers, Reply(c)
      PROVE  Counted'
  BY <1>6, CountedReply, Zenon
<1>7. ASSUME Report \/ CheckQuota \/ UNCHANGED vars
      PROVE  Counted'
  <2>1. UNCHANGED <<call, returned, failed, buckets>>
    BY <1>7, Zenon DEF Report, CheckQuota, MetricsStep, WriteTo, WriteLine, WriteEnd, vars,
       callVars, history, metricsVars
  <2>2. \A op : Late(op)' = Late(op) /\ LateErrors(op)' = LateErrors(op)
    BY <2>1, Zenon DEF Late, LateErrors
  <2> QED
    BY <2>1, <2>2, Zenon DEF Counted
<1> QED
  BY <1>1, <1>2, <1>3, <1>4, <1>5, <1>6, <1>7, Zenon DEF Next, ClientStep

(***************************************************************************)
(* The quota check beside them                                             *)
(***************************************************************************)
LEMMA LiveIsFinite ==
    ASSUME Types
    PROVE  Cardinality(live) \in Nat
<1>1. live \subseteq Ids
  BY Zenon DEF Types
<1> QED
  BY <1>1, CallersAssumption, FS_Subset, FS_CardinalityType, Zenon

\* What others do while a check runs widens what it knows.
LEMMA NoticeStep ==
    ASSUME NEW n \in Nat, quota \in AskedCheck \/ quota \in ListedCheck, Notice(n)
    PROVE  /\ quota \in AskedCheck => quota' \in AskedCheck
           /\ quota \in ListedCheck => quota' \in ListedCheck /\ quota'.count = quota.count
           /\ quota'.low = AtMost(quota.low, n)
           /\ quota'.peak = IF n > quota.peak THEN n ELSE quota.peak
<1> DEFINE lo == AtMost(quota.low, n)
           hi == IF n > quota.peak THEN n ELSE quota.peak
<1>1. quota.low \in Nat /\ quota.peak \in Nat
  BY SMT DEF AskedCheck, ListedCheck
<1>2. lo \in Nat /\ hi \in Nat
  BY <1>1, SMT DEF AtMost
<1>3. quota' = [quota EXCEPT !.low = lo, !.peak = hi]
  BY Zenon DEF Notice
<1> HIDE DEF lo, hi
<1>4. quota' = [[quota EXCEPT !.low = lo] EXCEPT !.peak = hi]
  BY <1>3, Zenon
<1>5. ASSUME quota \in AskedCheck
      PROVE  quota' \in AskedCheck /\ quota'.low = lo /\ quota'.peak = hi
  <2>1. [quota EXCEPT !.low = lo] \in AskedCheck
    BY <1>2, <1>5, SMT DEF AskedCheck
  <2>2. quota' \in AskedCheck
    <3>1. \A q \in AskedCheck : [q EXCEPT !.peak = hi] \in AskedCheck
      BY <1>2, SMT DEF AskedCheck
    <3> QED
      BY <1>4, <2>1, <3>1, Zenon
  <2>3. quota'.low = lo /\ quota'.peak = hi
    BY <1>3, <1>5, SMT DEF AskedCheck
  <2> QED
    BY <2>2, <2>3
<1>6. ASSUME quota \in ListedCheck
      PROVE  /\ quota' \in ListedCheck /\ quota'.low = lo /\ quota'.peak = hi
             /\ quota'.count = quota.count
  <2>1. [quota EXCEPT !.low = lo] \in ListedCheck
    BY <1>2, <1>6, SMT DEF ListedCheck
  <2>2. quota' \in ListedCheck
    <3>1. \A q \in ListedCheck : [q EXCEPT !.peak = hi] \in ListedCheck
      BY <1>2, SMT DEF ListedCheck
    <3> QED
      BY <1>4, <2>1, <3>1, Zenon
  <2>3. quota'.low = lo /\ quota'.peak = hi /\ quota'.count = quota.count
    BY <1>3, <1>6, SMT DEF ListedCheck
  <2> QED
    BY <2>2, <2>3
<1> QED
  BY <1>5, <1>6 DEF lo, hi

LEMMA QuotaInvStep == Types /\ Types' /\ QuotaInv /\ [Next]_vars => QuotaInv'
<1> SUFFICES ASSUME Types, Types', QuotaInv, [Next]_vars PROVE QuotaInv'
  OBVIOUS
<1> DEFINE n == Cardinality(live)
<1>1. n \in Nat
  BY LiveIsFinite
<1>2. n' \in Nat
  <2>1. live' \subseteq Ids
    BY Zenon DEF Types
  <2> QED
    BY <2>1, CallersAssumption, FS_Subset, FS_CardinalityType, Zenon
<1>3. ASSUME UNCHANGED <<live, quota>>
      PROVE  QuotaInv'
  BY <1>3 DEF QuotaInv
<1>4. ASSUME NEW c \in Callers, Serve(c)
      PROVE  QuotaInv'
  <2>1. IF quota.pc = "idle" THEN UNCHANGED quota ELSE Notice(n')
    BY <1>4, Zenon DEF Serve
  <2> HIDE DEF n
  <2>2. CASE quota.pc = "idle"
    BY <2>1, <2>2, SMT DEF QuotaInv
  <2>3. CASE quota.pc # "idle"
    <3>1. Notice(n') /\ (quota \in AskedCheck \/ quota \in ListedCheck)
      BY <2>1, <2>3, Zenon DEF QuotaInv
    <3>2. /\ quota \in AskedCheck => quota' \in AskedCheck
          /\ quota \in ListedCheck => quota' \in ListedCheck /\ quota'.count = quota.count
          /\ quota'.low = AtMost(quota.low, n')
          /\ quota'.peak = IF n' > quota.peak THEN n' ELSE quota.peak
      BY <1>2, <3>1, NoticeStep, Zenon
    <3>3. quota.low \in Nat /\ quota.peak \in Nat
      BY <3>1, SMT DEF AskedCheck, ListedCheck
    <3>4. quota'.low <= n' /\ n' <= quota'.peak
      BY <1>2, <3>2, <3>3, SMT DEF AtMost
    <3>5. CASE quota.pc = "asked"
      <4>1. quota' \in AskedCheck
        BY <3>2, <3>5, Zenon DEF QuotaInv
      <4>2. quota'.pc = "asked"
        BY <4>1, SMT DEF AskedCheck
      <4> QED
        BY <3>4, <4>1, <4>2, SMT DEF QuotaInv, n
    <3>6. CASE quota.pc = "listed"
      <4>1. /\ quota' \in ListedCheck /\ quota'.count = quota.count
            /\ AtMost(quota.low, Page) <= quota.count
            /\ quota.count <= quota.peak
        BY <3>2, <3>6, Zenon DEF QuotaInv
      <4>2. quota'.pc = "listed" /\ quota'.count \in Nat
        BY <4>1, SMT DEF ListedCheck
      <4>3. AtMost(quota'.low, Page) <= quota'.count /\ quota'.count <= quota'.peak
        BY <1>2, <3>2, <3>3, <4>1, <4>2, QuotaAssumption, SMT DEF AtMost
      <4> QED
        BY <3>4, <4>1, <4>2, <4>3, SMT DEF QuotaInv, n
    <3> QED
      BY <2>3, <3>5, <3>6, Zenon DEF QuotaInv
  <2> QED
    BY <2>2, <2>3
<1>5. ASSUME CheckQuota
      PROVE  QuotaInv'
  <2>1. n' = n
    BY <1>5, SMT DEF CheckQuota, serviceVars
  <2>2. Ask(n) \/ List(n) \/ Judge \/ JudgeOther \/ CheckFails
    BY <1>5, Zenon DEF CheckQuota
  <2> HIDE DEF n
  <2>3. CASE Ask(n)
    BY <1>1, <2>1, <2>3, SMT DEF Ask, QuotaInv, AskedCheck, n
  <2>4. CASE List(n)
    <3>1. /\ quota.pc = "asked"
          /\ quota' = [pc |-> "listed", low |-> quota.low, peak |-> quota.peak,
                       count |-> AtMost(n, Page)]
      BY <2>4, Zenon DEF List
    <3>2. quota.low \in Nat /\ quota.peak \in Nat /\ quota.low <= n /\ n <= quota.peak
      BY <3>1, SMT DEF QuotaInv, AskedCheck, n
    <3>3. AtMost(n, Page) \in Nat
      BY <1>1, QuotaAssumption, Zenon DEF AtMost
    <3>4. /\ quota' \in ListedCheck /\ quota'.pc = "listed" /\ quota'.low = quota.low
          /\ quota'.peak = quota.peak /\ quota'.count = AtMost(n, Page)
      BY <3>1, <3>2, <3>3, SMT DEF ListedCheck
    <3>5. AtMost(quota'.low, Page) <= quota'.count /\ quota'.count <= quota'.peak
      BY <1>1, <3>2, <3>4, QuotaAssumption, SMT DEF AtMost
    <3> QED
      BY <2>1, <3>2, <3>4, <3>5, SMT DEF QuotaInv, n
  <2>5. CASE Judge \/ JudgeOther \/ CheckFails
    BY <2>5, SMT DEF Judge, JudgeOther, CheckFails, Done, QuotaInv
  <2> QED
    BY <2>2, <2>3, <2>4, <2>5
<1>6. ASSUME NEW c \in Callers,
             Call(c) \/ ListEntities(c) \/ SearchHit(c) \/ Refuse(c) \/ ClientStep(c)
      PROVE  UNCHANGED <<live, quota>>
  BY <1>6, Zenon DEF Call, ListEntities, SearchHit, Refuse, ClientStep, TryAgain, BackoffEnds,
     BackoffCancelled, Return, Returns, Reply, serviceVars
<1>7. ASSUME Report \/ UNCHANGED vars
      PROVE  UNCHANGED <<live, quota>>
  BY <1>7, Zenon DEF Report, vars, serviceVars
<1> QED
  BY <1>3, <1>4, <1>5, <1>6, <1>7, Zenon DEF Next

(***************************************************************************)
(* The invariant                                                           *)
(***************************************************************************)
LEMMA InvInit == Init => RequestsInv
<1> SUFFICES ASSUME Init PROVE RequestsInv
  OBVIOUS
<1>1. Types
  BY TypesInit
<1>2. \A c \in Callers : call[c] = Idle
  BY Zenon DEF Init
<1>3. Tagged
  BY SMT DEF Init, Tagged
<1>4. Obeyed
  BY <1>2, IdleIsACall, SMT DEF Obeyed, ObeyedBy
<1>5. Counted
  <2>1. \A op : Late(op) = {} /\ LateErrors(op) = {}
    BY <1>2, IdleIsACall, SMT DEF Late, LateErrors
  <2>2. \A op : Cardinality(Late(op)) = 0 /\ Cardinality(LateErrors(op)) = 0
    BY <2>1, FS_EmptySet, Zenon
  <2>3. \A op \in Ops : /\ buckets[op].count = 0 /\ buckets[op].errors = 0
                        /\ returned[op] = 0 /\ failed[op] = 0
    BY SMT DEF Init, MetricsInit, NoCalls
  <2> QED
    BY <2>2, <2>3, SMT DEF Counted
<1>6. QuotaInv
  BY SMT DEF Init, QuotaInit, QuotaInv
<1> QED
  BY <1>1, <1>3, <1>4, <1>5, <1>6 DEF RequestsInv

\* The invariant holds of every reachable state.
THEOREM RequestsInvariant == Spec => []RequestsInv
<1>1. RequestsInv /\ [Next]_vars => RequestsInv'
  BY TypesStep, TaggedStep, ObeyedStep, CountedStep, QuotaInvStep, Zenon DEF RequestsInv
<1> QED
  BY <1>1, InvInit, PTL DEF Spec

(***************************************************************************)
(* The collector's counts lag what callers were told by the calls that     *)
(* are returning, however many callers there are (timed, Record).          *)
(***************************************************************************)
THEOREM CollectorTruth == Spec => []CollectorTellsTheTruth
<1>1. RequestsInv => CollectorTellsTheTruth
  BY Zenon DEF RequestsInv, Counted, Late, LateErrors, CollectorTellsTheTruth
<1> QED
  BY <1>1, RequestsInvariant, PTL

(***************************************************************************)
(* A caller that is told that all went well was obeyed (doJSON, Add,       *)
(* Delete): a try that succeeded was carried out, and an id that was       *)
(* deleted is not given again.                                             *)
(***************************************************************************)
THEOREM OkTruth == Spec => []OkIsTrue
<1>1. RequestsInv => OkIsTrue
  BY SMT DEF RequestsInv, Obeyed, ObeyedBy, OkIsTrue
<1> QED
  BY <1>1, RequestsInvariant, PTL

(***************************************************************************)
(* The level of a quota check is that of some moment while it ran, for     *)
(* any thresholds and page, in either order (Check).                       *)
(***************************************************************************)
THEOREM QuotaHonesty == Spec => QuotaIsHonest
<1> DEFINE Honest ==
        (quota.pc = "listed" /\ quota'.pc = "idle" /\ quota'.level # "error") =>
            LET level == quota'.level
                least == AtMost(quota.low, Page)
            IN  /\ level = "critical" => quota.peak >= CritThreshold
                /\ level = "warn" => quota.peak >= WarnThreshold
                /\ Judge => /\ level # "critical" => least < CritThreshold
                            /\ level = "ok" => least < WarnThreshold
<1>1. RequestsInv /\ [Next]_vars => [Honest]_quota
  <2> SUFFICES ASSUME RequestsInv, [Next]_vars, quota.pc = "listed", quota'.pc = "idle",
                      quota'.level # "error"
               PROVE  Honest
    BY Zenon
  <2>1. Judge \/ JudgeOther
    <3>1. ASSUME NEW c \in Callers, Serve(c)
          PROVE  FALSE
      <4>1. Notice(Cardinality(live')) /\ quota \in ListedCheck
        BY <3>1, Zenon DEF Serve, RequestsInv, QuotaInv
      <4>2. Cardinality(live') \in Nat
        <5>1. live' \subseteq Ids
          BY <3>1, ServeStep, ServiceFrame, Zenon DEF RequestsInv
        <5> QED
          BY <5>1, CallersAssumption, FS_Subset, FS_CardinalityType, Zenon
      <4>3. quota' \in ListedCheck
        BY <4>1, <4>2, NoticeStep, Zenon
      <4> QED
        BY <4>3, SMT DEF ListedCheck
    <3>2. CheckQuota \/ UNCHANGED quota
      BY <3>1, Zenon DEF Next, Call, ListEntities, SearchHit, Refuse, ClientStep, TryAgain,
         BackoffEnds, BackoffCancelled, Return, Returns, Reply, Report, vars
    <3>3. Judge \/ JudgeOther \/ CheckFails
      BY <3>2, Zenon DEF CheckQuota, Ask, List
    <3>4. ~CheckFails
      BY SMT DEF CheckFails, Done
    <3> QED
      BY <3>3, <3>4
  <2>2. /\ quota.peak \in Nat /\ quota.low \in Nat /\ quota.count \in Nat
        /\ AtMost(quota.low, Page) <= quota.count /\ quota.count <= quota.peak
    BY SMT DEF RequestsInv, QuotaInv, ListedCheck
  <2>3. WarnThreshold \in Nat /\ CritThreshold \in Nat /\ Page \in Nat
    BY QuotaAssumption, Zenon
  <2>4. AtMost(quota.low, Page) \in Nat
    BY <2>2, <2>3, Zenon DEF AtMost
  <2>5. Judge => quota'.level = LevelOf(quota.count)
    BY SMT DEF Judge, Done
  <2>6. quota'.level = LevelOf(quota.count) \/ quota'.level = LevelOf(0)
    BY <2>1, SMT DEF Judge, JudgeOther, Done
  <2>7. quota'.level = "critical" => quota.peak >= CritThreshold
    BY <2>2, <2>3, <2>6, SMT DEF LevelOf
  <2>8. quota'.level = "warn" => quota.peak >= WarnThreshold
    BY <2>2, <2>3, <2>6, SMT DEF LevelOf
  <2>9. Judge => /\ quota'.level # "critical" => AtMost(quota.low, Page) < CritThreshold
                 /\ quota'.level = "ok" => AtMost(quota.low, Page) < WarnThreshold
    <3> DEFINE least == AtMost(quota.low, Page)
    <3>1. least \in Nat /\ least <= quota.count
      BY <2>2, <2>4
    <3> HIDE DEF least
    <3>2. Judge => /\ quota'.level # "critical" => least < CritThreshold
                   /\ quota'.level = "ok" => least < WarnThreshold
      BY <2>2, <2>3, <2>5, <3>1, SMT DEF LevelOf
    <3> QED
      BY <3>2 DEF least
  <2> QED
    BY <2>7, <2>8, <2>9, Zenon
<1> HIDE DEF Honest
<1>2. Spec => [][Honest]_quota
  BY <1>1, RequestsInvariant, PTL DEF Spec
<1> QED
  BY <1>2 DEF Honest, QuotaIsHonest

(***************************************************************************)
(* Keys and their texts                                                    *)
(***************************************************************************)
Keys == [AppID : Text, UserID : Text, Namespace : Text, RunID : Text]

\* A set of natural numbers that is not empty has a least one.
LEMMA LeastNumber ==
    ASSUME NEW set, set \subseteq Nat, set # {}
    PROVE  \E n \in set : \A k \in set : n <= k
<1>1. IsWellFoundedOn(OpToRel(<, Nat), Nat)
  BY NatLessThanWellFounded
<1>2. PICK n \in set : \A k \in set : <<k, n>> \notin OpToRel(<, Nat)
  <2> HIDE DEF OpToRel
  <2> QED
    BY <1>1, WFMin, Zenon
<1>3. \A k \in set : ~(k < n)
  BY <1>2 DEF OpToRel
<1> QED
  BY <1>3, SMT

\* What a part of a text is.
LEMMA Slices ==
    ASSUME NEW s
    PROVE  \A m, n \in Int :
               (\A i \in m .. n : s[i] \in Chars) =>
                   /\ SubSeq(s, m, n) \in Seq(Chars)
                   /\ Len(SubSeq(s, m, n)) = IF m <= n THEN n - m + 1 ELSE 0
                   /\ \A i \in 1 .. n - m + 1 : SubSeq(s, m, n)[i] = s[m + i - 1]
  BY SubSeqProperties

\* A text is cut at its first slash.
LEMMA SplitAtSlash ==
    ASSUME NEW a \in Text, NEW b \in Text, ~HasSlash(a)
    PROVE  LET s == a \o (<<Slash>> \o b) IN
           s \in Text /\ HasSlash(s) /\ Before(s) = a /\ After(s) = b
<1> DEFINE t == <<Slash>> \o b
           s == a \o t
<1>1. /\ t \in Seq(Chars) /\ Len(t) = Len(b) + 1 /\ t[1] = Slash
      /\ \A i \in 1 .. Len(b) : t[i + 1] = b[i]
  <2>1. <<Slash>> \in Seq(Chars) /\ Len(<<Slash>>) = 1 /\ <<Slash>>[1] = Slash
    BY CallersAssumption, SMT
  <2> QED
    BY <2>1, ConcatProperties, SMT DEF Text
<1> HIDE DEF t
<1>2. /\ s \in Seq(Chars) /\ Len(s) = Len(a) + Len(b) + 1
      /\ \A i \in 1 .. Len(a) : s[i] = a[i]
      /\ s[Len(a) + 1] = Slash
      /\ \A i \in 1 .. Len(b) : s[Len(a) + 1 + i] = b[i]
  <2>1. /\ s \in Seq(Chars) /\ Len(s) = Len(a) + Len(t)
        /\ \A i \in 1 .. Len(a) + Len(t) : s[i] = IF i <= Len(a) THEN a[i] ELSE t[i - Len(a)]
    <3>1. a \in Seq(Chars)
      BY Zenon DEF Text
    <3> QED
      BY <1>1, <3>1, ConcatProperties, Zenon DEF s
  <2> HIDE DEF s
  <2>2. Len(a) \in Nat /\ Len(b) \in Nat
    BY SMT DEF Text
  <2>3. \A i \in 1 .. Len(b) : s[Len(a) + 1 + i] = b[i]
    <3> SUFFICES ASSUME NEW i \in 1 .. Len(b) PROVE s[Len(a) + 1 + i] = b[i]
      OBVIOUS
    <3>1. s[Len(a) + 1 + i] = t[Len(a) + 1 + i - Len(a)]
      BY <1>1, <2>1, <2>2, SMT
    <3>2. Len(a) + 1 + i - Len(a) = i + 1
      BY <2>2, SMT
    <3> QED
      BY <1>1, <3>1, <3>2, Zenon
  <2>4. s[Len(a) + 1] = Slash
    <3>1. s[Len(a) + 1] = t[Len(a) + 1 - Len(a)]
      BY <1>1, <2>1, <2>2, SMT
    <3>2. Len(a) + 1 - Len(a) = 1
      BY <2>2, SMT
    <3> QED
      BY <1>1, <3>1, <3>2, Zenon
  <2> QED
    BY <1>1, <2>1, <2>2, <2>3, <2>4, SMT
<1> HIDE DEF s
<1>3. Len(a) \in Nat /\ Len(b) \in Nat
  BY SMT DEF Text
<1>4. \A i \in 1 .. Len(a) : a[i] # Slash
  BY Zenon DEF HasSlash
<1>5. HasSlash(s)
  BY <1>2, <1>3, SMT DEF HasSlash
<1>6. FirstSlash(s) = Len(a) + 1
  <2> DEFINE First(i) == i \in 1 .. Len(s) /\ s[i] = Slash /\ \A j \in 1 .. (i - 1) : s[j] # Slash
  <2>1. First(Len(a) + 1)
    BY <1>2, <1>3, <1>4, SMT
  <2>2. \A i : First(i) => i = Len(a) + 1
    BY <1>2, <1>3, <1>4, SMT
  <2>3. FirstSlash(s) = CHOOSE i : First(i)
    BY Zenon DEF FirstSlash
  <2> HIDE DEF First
  <2>4. First(CHOOSE i : First(i))
    BY <2>1, Zenon
  <2> QED
    BY <2>2, <2>3, <2>4, Zenon
<1>7. Before(s) = a
  <2>1. Before(s) = SubSeq(s, 1, Len(a))
    BY <1>3, <1>6, SMT DEF Before
  <2>2. /\ SubSeq(s, 1, Len(a)) \in Seq(Chars)
        /\ Len(SubSeq(s, 1, Len(a))) = Len(a)
        /\ \A i \in 1 .. Len(a) : SubSeq(s, 1, Len(a))[i] = a[i]
    BY <1>2, <1>3, SMT
  <2>3. SubSeq(s, 1, Len(a)) = a
    BY <2>2, SeqEqual, Zenon DEF Text
  <2> QED
    BY <2>1, <2>3
<1>8. After(s) = b
  <2> DEFINE r == SubSeq(s, Len(a) + 2, Len(s))
  <2>1. After(s) = r
    BY <1>3, <1>6, SMT DEF After
  <2>2. /\ r \in Seq(Chars) /\ Len(r) = Len(b)
        /\ \A i \in 1 .. Len(b) : r[i] = b[i]
    <3>1. \A i \in Len(a) + 2 .. Len(s) : s[i] \in Chars
      BY <1>2, <1>3, SMT
    <3>2. /\ r \in Seq(Chars)
          /\ Len(r) = IF Len(a) + 2 <= Len(s) THEN Len(s) - (Len(a) + 2) + 1 ELSE 0
          /\ \A i \in 1 .. Len(s) - (Len(a) + 2) + 1 : r[i] = s[Len(a) + 2 + i - 1]
      <4>1. Len(a) + 2 \in Int /\ Len(s) \in Int
        BY <1>2, <1>3, SMT
      <4> QED
        BY <3>1, <4>1, Slices, Zenon
    <3> HIDE DEF r
    <3>3. Len(r) = Len(b)
      BY <1>2, <1>3, <3>2, SMT
    <3>4. ASSUME NEW i \in 1 .. Len(b) PROVE r[i] = b[i]
      <4>1. r[i] = s[Len(a) + 2 + i - 1]
        BY <1>2, <1>3, <3>2, SMT
      <4>2. Len(a) + 2 + i - 1 = Len(a) + 1 + i
        BY <1>3, SMT
      <4> QED
        BY <1>2, <4>1, <4>2, Zenon
    <3> QED
      BY <3>2, <3>3, <3>4
  <2> HIDE DEF r
  <2>3. r = b
    BY <2>2, SeqEqual, Zenon DEF Text
  <2> QED
    BY <2>1, <2>3
<1> QED
  BY <1>2, <1>5, <1>7, <1>8, Zenon DEF s, t, Text

\* A text with a slash is what precedes its first one, the slash, and the
\* rest.
LEMMA JoinAtSlash ==
    ASSUME NEW s \in Text, HasSlash(s)
    PROVE  /\ Before(s) \in Text /\ After(s) \in Text /\ ~HasSlash(Before(s))
           /\ s = Before(s) \o (<<Slash>> \o After(s))
<1> DEFINE slashes == {i \in 1 .. Len(s) : s[i] = Slash}
           First(i) == i \in 1 .. Len(s) /\ s[i] = Slash /\ \A j \in 1 .. (i - 1) : s[j] # Slash
           f == FirstSlash(s)
<1>1. /\ s \in Seq(Chars) /\ Len(s) \in Nat
      /\ \A i \in 1 .. Len(s) : s[i] \in Chars
  BY SMT DEF Text
<1>2. First(f)
  <2>1. slashes \subseteq Nat /\ slashes # {}
    BY <1>1, SMT DEF HasSlash
  <2>2. PICK n \in slashes : \A k \in slashes : n <= k
    BY <2>1, LeastNumber, Zenon
  <2>3. First(n)
    BY <1>1, <2>1, <2>2, SMT
  <2>4. f = CHOOSE i : First(i)
    BY Zenon DEF FirstSlash
  <2> HIDE DEF First, f
  <2> QED
    BY <2>3, <2>4, Zenon
<1>3. f \in 1 .. Len(s) /\ s[f] = Slash /\ \A j \in 1 .. (f - 1) : s[j] # Slash
  BY <1>2
<1>4. Before(s) = SubSeq(s, 1, f - 1) /\ After(s) = SubSeq(s, f + 1, Len(s))
  BY Zenon DEF Before, After
<1> HIDE DEF f
<1> DEFINE b == Before(s)
           r == After(s)
<1>5. /\ b \in Seq(Chars) /\ Len(b) = f - 1
      /\ \A i \in 1 .. f - 1 : b[i] = s[i]
  <2>1. \A i \in 1 .. f - 1 : s[i] \in Chars
    BY <1>1, <1>3, SMT
  <2>2. /\ SubSeq(s, 1, f - 1) \in Seq(Chars)
        /\ Len(SubSeq(s, 1, f - 1)) = IF 1 <= f - 1 THEN f - 1 - 1 + 1 ELSE 0
        /\ \A i \in 1 .. f - 1 - 1 + 1 : SubSeq(s, 1, f - 1)[i] = s[1 + i - 1]
    <3>1. 1 \in Int /\ f - 1 \in Int
      BY <1>1, <1>3, SMT
    <3> QED
      BY <2>1, <3>1, Slices, Zenon
  <2> HIDE DEF b
  <2>3. b = SubSeq(s, 1, f - 1)
    BY <1>4 DEF b
  <2> QED
    BY <1>1, <1>3, <2>2, <2>3, SMT
<1>6. /\ r \in Seq(Chars) /\ Len(r) = Len(s) - f
      /\ \A i \in 1 .. Len(s) - f : r[i] = s[f + i]
  <2>1. \A i \in f + 1 .. Len(s) : s[i] \in Chars
    BY <1>1, <1>3, SMT
  <2>2. /\ SubSeq(s, f + 1, Len(s)) \in Seq(Chars)
        /\ Len(SubSeq(s, f + 1, Len(s))) = IF f + 1 <= Len(s) THEN Len(s) - (f + 1) + 1 ELSE 0
        /\ \A i \in 1 .. Len(s) - (f + 1) + 1 :
               SubSeq(s, f + 1, Len(s))[i] = s[f + 1 + i - 1]
    <3>1. f + 1 \in Int /\ Len(s) \in Int
      BY <1>1, <1>3, SMT
    <3> QED
      BY <2>1, <3>1, Slices, Zenon
  <2> HIDE DEF r
  <2>3. r = SubSeq(s, f + 1, Len(s))
    BY <1>4 DEF r
  <2>4. Len(r) = Len(s) - f
    BY <1>1, <1>3, <2>2, <2>3, SMT
  <2>5. ASSUME NEW i \in 1 .. Len(s) - f PROVE r[i] = s[f + i]
    <3>1. i \in 1 .. Len(s) - (f + 1) + 1 /\ f + 1 + i - 1 = f + i
      BY <1>1, <1>3, SMT
    <3> QED
      BY <2>2, <2>3, <3>1, Zenon
  <2> QED
    BY <2>2, <2>3, <2>4, <2>5
<1> HIDE DEF b, r
<1>7. ~HasSlash(b)
  BY <1>1, <1>3, <1>5, SMT DEF HasSlash
<1> DEFINE g == <<Slash>>
           t == g \o r
           z == b \o t
<1>8. g \in Seq(Chars) /\ Len(g) = 1 /\ g[1] = Slash
  BY CallersAssumption, SMT
<1> HIDE DEF g
<1>9. /\ t \in Seq(Chars) /\ Len(t) = Len(g) + Len(r)
      /\ \A i \in 1 .. Len(g) + Len(r) : t[i] = IF i <= Len(g) THEN g[i] ELSE r[i - Len(g)]
  BY <1>6, <1>8, ConcatProperties, Zenon
<1> HIDE DEF t
<1>10. /\ z \in Seq(Chars) /\ Len(z) = Len(b) + Len(t)
       /\ \A i \in 1 .. Len(b) + Len(t) : z[i] = IF i <= Len(b) THEN b[i] ELSE t[i - Len(b)]
  <2>1. b \in Seq(Chars) /\ t \in Seq(Chars)
    BY <1>5, <1>9
  <2> QED
    BY <2>1, ConcatProperties, Zenon
<1> HIDE DEF z
<1>11. Len(z) = Len(s)
  BY <1>1, <1>3, <1>5, <1>6, <1>8, <1>9, <1>10, SMT
<1>12. ASSUME NEW i \in 1 .. Len(s) PROVE z[i] = s[i]
  <2>1. i \in 1 .. Len(b) + Len(t)
    BY <1>10, <1>11
  <2>2. CASE i <= f - 1
    <3>1. i <= Len(b) /\ i \in 1 .. f - 1
      BY <1>5, <2>2, SMT
    <3> QED
      BY <1>5, <1>10, <2>1, <3>1, Zenon
  <2>3. CASE i = f
    <3>1. ~(i <= Len(b)) /\ i - Len(b) = 1
      BY <1>3, <1>5, <2>3, SMT
    <3>2. 1 \in 1 .. Len(g) + Len(r) /\ 1 <= Len(g)
      BY <1>1, <1>3, <1>6, <1>8, SMT
    <3>3. z[i] = t[1]
      BY <1>10, <2>1, <3>1, Zenon
    <3>4. t[1] = g[1]
      BY <1>9, <3>2, Zenon
    <3> QED
      BY <1>3, <1>8, <2>3, <3>3, <3>4
  <2>4. CASE i > f
    <3>1. ~(i <= Len(b)) /\ i - Len(b) = i - f + 1
      BY <1>3, <1>5, <2>4, SMT
    <3>2. /\ i - f + 1 \in 1 .. Len(g) + Len(r) /\ ~(i - f + 1 <= Len(g))
          /\ (i - f + 1) - Len(g) = i - f
      BY <1>1, <1>3, <1>6, <1>8, <2>4, SMT
    <3>3. i - f \in 1 .. Len(s) - f /\ f + (i - f) = i
      BY <1>1, <1>3, <2>4, SMT
    <3>4. z[i] = t[i - f + 1]
      BY <1>10, <2>1, <3>1, Zenon
    <3>5. t[i - f + 1] = r[i - f]
      BY <1>9, <3>2, Zenon
    <3>6. r[i - f] = s[i]
      BY <1>6, <3>3, Zenon
    <3> QED
      BY <3>4, <3>5, <3>6
  <2> QED
    BY <1>1, <1>3, <2>2, <2>3, <2>4, SMT
<1>13. z = s
  BY <1>1, <1>10, <1>11, <1>12, SeqEqual, Zenon
<1> QED
  BY <1>5, <1>6, <1>7, <1>13, Zenon DEF b, r, z, t, g, Text

\* The text of a key, put together from its end.
LEMMA KeyStringNested ==
    ASSUME NEW k \in Keys
    PROVE  KeyString(k) =
               k.AppID \o (<<Slash>> \o
                   (k.UserID \o (<<Slash>> \o
                       (k.Namespace \o (<<Slash>> \o k.RunID)))))
<1> DEFINE a == k.AppID
           u == k.UserID
           n == k.Namespace
           r == k.RunID
           g == <<Slash>>
           p1 == a \o g
           p2 == p1 \o u
           p3 == p2 \o g
           p4 == p3 \o n
           q1 == g \o r
           r1 == n \o q1
           q2 == g \o r1
           r2 == u \o q2
           q3 == g \o r2
<1>1. <<Slash>> \in Seq(Chars)
  BY CallersAssumption, SMT
<1>2. \A s, t, v \in Seq(Chars) : (s \o t) \o v = s \o (t \o v)
  BY ConcatAssociative
<1>3. \A s, t \in Seq(Chars) : s \o t \in Seq(Chars)
  BY ConcatProperties
<1>4. a \in Seq(Chars) /\ u \in Seq(Chars) /\ n \in Seq(Chars) /\ r \in Seq(Chars)
  BY SMT DEF Text, Keys
<1>5. KeyString(k) = p4 \o g \o r
  BY Zenon DEF KeyString
<1> HIDE DEF a, u, n, r, g
<1>6. g \in Seq(Chars)
  BY <1>1 DEF g
<1>7. p1 \in Seq(Chars) /\ q1 \in Seq(Chars)
  BY <1>3, <1>4, <1>6
<1> HIDE DEF p1, q1
<1>8. p2 \in Seq(Chars) /\ r1 \in Seq(Chars)
  BY <1>3, <1>4, <1>7, Zenon
<1> HIDE DEF p2, r1
<1>9. p3 \in Seq(Chars) /\ q2 \in Seq(Chars)
  BY <1>3, <1>6, <1>8, Zenon
<1> HIDE DEF p3, q2
<1>10. p4 \in Seq(Chars) /\ r2 \in Seq(Chars)
  BY <1>3, <1>4, <1>9, Zenon
<1> HIDE DEF p4, r2
<1>11. p4 \o g \o r = p4 \o q1
  <2>1. p4 \in Seq(Chars) /\ g \in Seq(Chars) /\ r \in Seq(Chars)
    BY <1>4, <1>6, <1>10
  <2>2. (p4 \o g) \o r = p4 \o (g \o r)
    BY <1>2, <2>1, Zenon
  <2> QED
    BY <2>2 DEF q1
<1>12. p4 \o q1 = p3 \o r1
  <2>1. p3 \in Seq(Chars) /\ n \in Seq(Chars) /\ q1 \in Seq(Chars)
    BY <1>4, <1>7, <1>9
  <2>2. (p3 \o n) \o q1 = p3 \o (n \o q1)
    BY <1>2, <2>1, Zenon
  <2> QED
    BY <2>2 DEF p4, r1
<1>13. p3 \o r1 = p2 \o q2
  <2>1. p2 \in Seq(Chars) /\ g \in Seq(Chars) /\ r1 \in Seq(Chars)
    BY <1>6, <1>8
  <2>2. (p2 \o g) \o r1 = p2 \o (g \o r1)
    BY <1>2, <2>1, Zenon
  <2> QED
    BY <2>2 DEF p3, q2
<1>14. p2 \o q2 = p1 \o r2
  <2>1. p1 \in Seq(Chars) /\ u \in Seq(Chars) /\ q2 \in Seq(Chars)
    BY <1>4, <1>7, <1>9
  <2>2. (p1 \o u) \o q2 = p1 \o (u \o q2)
    BY <1>2, <2>1, Zenon
  <2> QED
    BY <2>2 DEF p2, r2
<1>15. p1 \o r2 = a \o q3
  <2>1. a \in Seq(Chars) /\ g \in Seq(Chars) /\ r2 \in Seq(Chars)
    BY <1>4, <1>6, <1>10
  <2>2. (a \o g) \o r2 = a \o (g \o r2)
    BY <1>2, <2>1, Zenon
  <2> QED
    BY <2>2 DEF p1
<1>16. KeyString(k) = a \o q3
  BY <1>5, <1>11, <1>12, <1>13, <1>14, <1>15
<1> QED
  BY <1>16 DEF a, q3, r2, q2, r1, q1, u, n, r, g

\* What Parse makes of a key's text is that key, if only its run id may hold
\* a slash.
LEMMA ParseOfString ==
    ASSUME NEW k \in Keys, Unslashed(k)
    PROVE  Parses(KeyString(k)) /\ Parsed(KeyString(k)) = k
<1> DEFINE a == k.AppID
           u == k.UserID
           n == k.Namespace
           r == k.RunID
           r1 == n \o (<<Slash>> \o r)
           r2 == u \o (<<Slash>> \o r1)
           r3 == a \o (<<Slash>> \o r2)
<1>1. a \in Text /\ u \in Text /\ n \in Text /\ r \in Text
  BY SMT DEF Keys
<1>2. ~HasSlash(a) /\ ~HasSlash(u) /\ ~HasSlash(n)
  BY Zenon DEF Unslashed
<1>3. k = [AppID |-> a, UserID |-> u, Namespace |-> n, RunID |-> r]
  BY SMT DEF Keys
<1>4. KeyString(k) = r3
  BY KeyStringNested, Zenon
<1> HIDE DEF a, u, n, r
<1>5. r1 \in Text /\ HasSlash(r1) /\ Before(r1) = n /\ After(r1) = r
  BY <1>1, <1>2, SplitAtSlash
<1> HIDE DEF r1
<1>6. r2 \in Text /\ HasSlash(r2) /\ Before(r2) = u /\ After(r2) = r1
  BY <1>1, <1>2, <1>5, SplitAtSlash
<1> HIDE DEF r2
<1>7. HasSlash(r3) /\ Before(r3) = a /\ After(r3) = r2
  BY <1>1, <1>2, <1>6, SplitAtSlash
<1> HIDE DEF r3
<1>8. Parses(KeyString(k))
  BY <1>4, <1>5, <1>6, <1>7, Zenon DEF Parses
<1>9. Parsed(KeyString(k)) = [AppID |-> a, UserID |-> u, Namespace |-> n, RunID |-> r]
  BY <1>4, <1>5, <1>6, <1>7, Zenon DEF Parsed
<1> QED
  BY <1>3, <1>8, <1>9

\* What String makes of a parsed text is that text.
LEMMA StringOfParse ==
    ASSUME NEW s \in Text, Parses(s)
    PROVE  /\ Parsed(s) \in Keys /\ Unslashed(Parsed(s))
           /\ KeyString(Parsed(s)) = s
<1> DEFINE s1 == After(s)
           s2 == After(s1)
           k == Parsed(s)
<1>1. HasSlash(s) /\ HasSlash(s1) /\ HasSlash(s2)
  BY Zenon DEF Parses
<1>2. k = [AppID |-> Before(s), UserID |-> Before(s1), Namespace |-> Before(s2), RunID |-> After(s2)]
  BY Zenon DEF Parsed
<1>3. /\ Before(s) \in Text /\ s1 \in Text /\ ~HasSlash(Before(s))
      /\ s = Before(s) \o (<<Slash>> \o s1)
  BY <1>1, JoinAtSlash
<1> HIDE DEF s1
<1>4. /\ Before(s1) \in Text /\ s2 \in Text /\ ~HasSlash(Before(s1))
      /\ s1 = Before(s1) \o (<<Slash>> \o s2)
  BY <1>1, <1>3, JoinAtSlash
<1> HIDE DEF s2
<1>5. /\ Before(s2) \in Text /\ After(s2) \in Text /\ ~HasSlash(Before(s2))
      /\ s2 = Before(s2) \o (<<Slash>> \o After(s2))
  BY <1>1, <1>4, JoinAtSlash
<1> HIDE DEF k
<1>6. /\ k \in Keys /\ k.AppID = Before(s) /\ k.UserID = Before(s1)
      /\ k.Namespace = Before(s2) /\ k.RunID = After(s2)
  BY <1>2, <1>3, <1>4, <1>5, Zenon DEF Keys
<1>7. Unslashed(k)
  BY <1>3, <1>4, <1>5, <1>6, Zenon DEF Unslashed
<1>8. KeyString(k) =
         k.AppID \o (<<Slash>> \o (k.UserID \o (<<Slash>> \o (k.Namespace \o (<<Slash>> \o k.RunID)))))
  BY <1>6, KeyStringNested, Zenon
<1>9. KeyString(k) = s
  BY <1>3, <1>4, <1>5, <1>6, <1>8, Zenon
<1> QED
  BY <1>6, <1>7, <1>9 DEF k

(***************************************************************************)
(* String and Parse are inverse to each other between the keys whose run   *)
(* id alone may hold slashes and the texts that parse: no two such keys    *)
(* share a text, and no text is lost (Key.String, Parse).                  *)
(***************************************************************************)
THEOREM KeysAndTexts ==
    /\ \A k \in Keys : Unslashed(k) => Parses(KeyString(k)) /\ Parsed(KeyString(k)) = k
    /\ \A s \in Text : Parses(s) =>
           Parsed(s) \in Keys /\ Unslashed(Parsed(s)) /\ KeyString(Parsed(s)) = s
  BY ParseOfString, StringOfParse, Zenon

\* Behind a first slash of its own, a text goes on as before.
LEMMA AfterFirst ==
    ASSUME NEW a \in Text, NEW b \in Text
    PROVE  LET s == a \o (<<Slash>> \o b) IN
           /\ s \in Text /\ HasSlash(s)
           /\ \/ After(s) = b
              \/ HasSlash(a) /\ After(a) \in Text /\ After(s) = After(a) \o (<<Slash>> \o b)
<1> DEFINE g == <<Slash>>
           t == g \o b
           s == a \o t
<1>1. CASE ~HasSlash(a)
  BY <1>1, SplitAtSlash
<1>2. CASE HasSlash(a)
  <2> DEFINE p == Before(a)
             q == After(a)
             r == q \o t
  <2>1. p \in Text /\ q \in Text /\ ~HasSlash(p) /\ a = p \o (g \o q)
    BY <1>2, JoinAtSlash
  <2>2. \A x, y, z \in Seq(Chars) : (x \o y) \o z = x \o (y \o z)
    BY ConcatAssociative
  <2>3. \A x, y \in Seq(Chars) : x \o y \in Seq(Chars)
    BY ConcatProperties
  <2>4. g \in Seq(Chars)
    BY CallersAssumption, SMT
  <2> HIDE DEF p, q, g
  <2>5. p \in Seq(Chars) /\ q \in Seq(Chars) /\ b \in Seq(Chars)
    BY <2>1, Zenon DEF Text
  <2>6. t \in Seq(Chars) /\ g \o q \in Seq(Chars)
    BY <2>3, <2>4, <2>5
  <2> HIDE DEF t
  <2>7. r \in Seq(Chars)
    BY <2>3, <2>5, <2>6
  <2>8. s = p \o ((g \o q) \o t)
    BY <2>1, <2>2, <2>5, <2>6
  <2>9. (g \o q) \o t = g \o r
    BY <2>2, <2>4, <2>5, <2>6
  <2> HIDE DEF r
  <2>10. p \o (g \o r) \in Text /\ HasSlash(p \o (g \o r)) /\ After(p \o (g \o r)) = r
    BY <2>1, <2>7, SplitAtSlash DEF Text, g
  <2>11. s \in Text /\ HasSlash(s) /\ After(s) = r
    BY <2>8, <2>9, <2>10
  <2> QED
    BY <1>2, <2>1, <2>11 DEF q, r, t, g
<1> QED
  BY <1>1, <1>2

(***************************************************************************)
(* The text of any key parses, whatever its parts are (String, Parse).     *)
(***************************************************************************)
THEOREM AnyKeyParses == \A k \in Keys : KeyString(k) \in Text /\ Parses(KeyString(k))
<1> SUFFICES ASSUME NEW k \in Keys PROVE KeyString(k) \in Text /\ Parses(KeyString(k))
  OBVIOUS
<1> DEFINE a == k.AppID
           u == k.UserID
           n == k.Namespace
           r == k.RunID
           s1 == n \o (<<Slash>> \o r)
           s2 == u \o (<<Slash>> \o s1)
           s3 == a \o (<<Slash>> \o s2)
<1>1. a \in Text /\ u \in Text /\ n \in Text /\ r \in Text
  BY SMT DEF Keys
<1>2. KeyString(k) = s3
  BY KeyStringNested, Zenon
<1> HIDE DEF a, u, n, r
<1>3. s1 \in Text /\ HasSlash(s1)
  BY <1>1, AfterFirst
<1> HIDE DEF s1
\* One slash more than s1 has.
<1>4. \A x \in Text : LET s == x \o (<<Slash>> \o s1) IN
          s \in Text /\ HasSlash(s) /\ HasSlash(After(s))
  <2> SUFFICES ASSUME NEW x \in Text
               PROVE  LET s == x \o (<<Slash>> \o s1) IN
                      s \in Text /\ HasSlash(s) /\ HasSlash(After(s))
    OBVIOUS
  <2> DEFINE s == x \o (<<Slash>> \o s1)
  <2>1. /\ s \in Text /\ HasSlash(s)
        /\ \/ After(s) = s1
           \/ After(x) \in Text /\ After(s) = After(x) \o (<<Slash>> \o s1)
    BY <1>3, AfterFirst
  <2>2. After(x) \in Text => HasSlash(After(x) \o (<<Slash>> \o s1))
    BY <1>3, AfterFirst
  <2> HIDE DEF s
  <2>3. HasSlash(After(s))
    BY <1>3, <2>1, <2>2, Zenon
  <2> QED
    BY <2>1, <2>3 DEF s
<1>5. s2 \in Text /\ HasSlash(s2) /\ HasSlash(After(s2))
  BY <1>1, <1>4
<1>6. \A x \in Text : LET s == x \o (<<Slash>> \o s2) IN HasSlash(s) /\ HasSlash(After(s))
  <2> SUFFICES ASSUME NEW x \in Text
               PROVE  LET s == x \o (<<Slash>> \o s2) IN HasSlash(s) /\ HasSlash(After(s))
    OBVIOUS
  <2> HIDE DEF s2
  <2> DEFINE s == x \o (<<Slash>> \o s2)
  <2>1. /\ HasSlash(s)
        /\ \/ After(s) = s2
           \/ After(x) \in Text /\ After(s) = After(x) \o (<<Slash>> \o s2)
    BY <1>5, AfterFirst
  <2>2. After(x) \in Text => HasSlash(After(x) \o (<<Slash>> \o s2))
    BY <1>5, AfterFirst
  <2> HIDE DEF s
  <2>3. HasSlash(After(s))
    BY <1>5, <2>1, <2>2, Zenon
  <2> QED
    BY <2>1, <2>3 DEF s
<1> HIDE DEF s2
<1>7. /\ s3 \in Text /\ HasSlash(s3)
      /\ \/ After(s3) = s2
         \/ After(a) \in Text /\ After(s3) = After(a) \o (<<Slash>> \o s2)
  BY <1>1, <1>5, AfterFirst
<1> HIDE DEF s3
<1>8. HasSlash(After(s3)) /\ HasSlash(After(After(s3)))
  BY <1>5, <1>6, <1>7
<1> QED
  BY <1>2, <1>7, <1>8, Zenon DEF Parses

(***************************************************************************)
(* The variables have their types, and each tag is the text of a key: it   *)
(* parses.                                                                 *)
(***************************************************************************)
THEOREM TypeCorrect == Spec => []TypeOK
<1>1. RequestsInv => TypeOK
  <2> SUFFICES ASSUME RequestsInv PROVE TypeOK
    OBVIOUS
  <2>1. ASSUME NEW m \in Ids, writer[m] # Nobody
        PROVE  Parses(tag[m])
    <3>1. writer[m] \in Callers /\ tag[m] = KeyString(KeyOf[writer[m]])
      BY <2>1, Zenon DEF RequestsInv, Types, Tagged
    <3>2. \A c \in Callers : KeyOf[c] \in Keys
      BY CallersAssumption, Zenon DEF Keys
    <3> QED
      BY <3>1, <3>2, AnyKeyParses, Zenon
  <2> QED
    BY <2>1, Zenon DEF RequestsInv, Types, TypeOK
<1> QED
  BY <1>1, RequestsInvariant, PTL

\* A full key matches, as a filter, only keys that are equal to it.
LEMMA FullMatches ==
    ASSUME NEW j \in Keys, NEW k \in Keys, Full(k), Matches(j, k)
    PROVE  j = k
<1>1. j.AppID = k.AppID /\ j.UserID = k.UserID /\ j.Namespace = k.Namespace /\ j.RunID = k.RunID
  BY SMT DEF Matches, Full, Keys
<1> QED
  BY <1>1, SMT DEF Keys

(***************************************************************************)
(* A listing that is filtered by a run's full key holds what the run wrote *)
(* and nothing else, except of runs with slashes before their run ids that *)
(* share the key's text; for any keys at all (String, Parse, Matches).     *)
(***************************************************************************)
THEOREM Isolation == Spec => []RunsAreIsolated
<1>1. RequestsInv => RunsAreIsolated
  <2> SUFFICES ASSUME RequestsInv, NEW c \in Callers, Full(KeyOf[c]), NEW m \in rows[c]
               PROVE  /\ Matches(Parsed(tag[m]), KeyOf[c]) =>
                            \/ KeyOf[writer[m]] = KeyOf[c]
                            \/ /\ ~Unslashed(KeyOf[writer[m]])
                               /\ KeyString(KeyOf[writer[m]]) = KeyString(KeyOf[c])
                      /\ KeyOf[writer[m]] = KeyOf[c] /\ Unslashed(KeyOf[writer[m]]) =>
                            Matches(Parsed(tag[m]), KeyOf[c])
    BY Zenon DEF RunsAreIsolated
  <2> DEFINE j == KeyOf[writer[m]]
             k == KeyOf[c]
  <2>1. /\ m \in Ids /\ writer[m] \in Callers
        /\ tag[m] = KeyString(j)
    BY Zenon DEF RequestsInv, Types, Tagged
  <2>2. j \in Keys /\ k \in Keys /\ Full(k)
    BY <2>1, CallersAssumption, Zenon DEF Keys
  <2> HIDE DEF j, k
  <2>3. tag[m] \in Text /\ Parses(tag[m])
    BY <2>1, <2>2, AnyKeyParses, Zenon
  <2>4. Parsed(tag[m]) \in Keys /\ KeyString(Parsed(tag[m])) = tag[m]
    BY <2>3, StringOfParse, Zenon
  <2>5. Unslashed(j) => Parsed(tag[m]) = j
    BY <2>1, <2>2, ParseOfString, Zenon
  <2>6. ASSUME Matches(Parsed(tag[m]), k)
        PROVE  j = k \/ (~Unslashed(j) /\ KeyString(j) = KeyString(k))
    <3>1. Parsed(tag[m]) = k
      BY <2>2, <2>4, <2>6, FullMatches, Zenon
    <3> QED
      BY <2>1, <2>4, <2>5, <3>1, Zenon
  <2>7. ASSUME j = k, Unslashed(j)
        PROVE  Matches(Parsed(tag[m]), k)
    BY <2>5, <2>7, Zenon DEF Matches
  <2> QED
    BY <2>6, <2>7, Zenon DEF j, k
<1> QED
  BY <1>1, RequestsInvariant, PTL

(***************************************************************************)
(* Latencies in order                                                      *)
(***************************************************************************)
\* An order of indices in which the numbers of s ascend.
Sorts(p, s, n) ==
    /\ p \in Injection(1 .. n, 1 .. n)
    /\ \A i, j \in 1 .. n : i < j => s[p[i]] <= s[p[j]]

\* The last number goes before the first that is not less.
LEMMA InsertLast ==
    ASSUME NEW m \in Nat, NEW s \in [1 .. m + 1 -> Nat], NEW p, Sorts(p, s, m)
    PROVE  \E q : Sorts(q, s, m + 1)
<1> DEFINE places == {i \in 1 .. m + 1 : i = m + 1 \/ s[m + 1] <= s[p[i]]}
<1>1. p \in [1 .. m -> 1 .. m] /\ \A i, j \in 1 .. m : p[i] = p[j] => i = j
  BY DEF Sorts, Injection, IsInjective
<1>2. \A i, j \in 1 .. m : i < j => s[p[i]] <= s[p[j]]
  BY DEF Sorts
<1>3. /\ \A i \in 1 .. m : p[i] \in 1 .. m /\ p[i] # m + 1 /\ s[p[i]] \in Nat
      /\ s[m + 1] \in Nat
  <2>1. /\ \A k \in 1 .. m : k \in 1 .. m + 1 /\ k # m + 1
        /\ m + 1 \in 1 .. m + 1
    BY SMT
  <2>2. \A i \in 1 .. m : p[i] \in 1 .. m
    BY <1>1, Zenon
  <2> QED
    BY <2>1, <2>2, Zenon
<1>4. PICK at \in places : \A i \in places : at <= i
  <2>1. places \subseteq Nat /\ m + 1 \in places
    BY SMT
  <2> QED
    BY <2>1, LeastNumber, Zenon
<1>5. /\ at \in 1 .. m + 1
      /\ \A i \in 1 .. m : i < at => s[p[i]] <= s[m + 1]
      /\ \A i \in 1 .. m : at <= i => s[m + 1] <= s[p[i]]
  <2>1. \A i \in 1 .. m : s[p[i]] \in Nat
    BY <1>1, <1>3, Zenon
  <2>2. s[m + 1] \in Nat /\ at \in 1 .. m + 1 /\ (at = m + 1 \/ s[m + 1] <= s[p[at]])
    BY <1>3, <1>4, SMT
  <2>3. ASSUME NEW i \in 1 .. m, i < at
        PROVE  s[p[i]] <= s[m + 1]
    <3>1. i \notin places
      BY <1>4, <2>2, <2>3, SMT
    <3>2. ~(s[m + 1] <= s[p[i]])
      BY <3>1, SMT
    <3> QED
      BY <2>1, <2>2, <3>2, SMT
  <2>4. ASSUME NEW i \in 1 .. m, at <= i
        PROVE  s[m + 1] <= s[p[i]]
    <3>1. s[m + 1] <= s[p[at]] /\ at \in 1 .. m
      BY <2>2, <2>4, SMT
    <3>2. s[p[at]] <= s[p[i]]
      BY <1>2, <2>1, <2>4, <3>1, SMT
    <3> QED
      BY <2>1, <2>2, <3>1, <3>2, SMT
  <2> QED
    BY <2>2, <2>3, <2>4
<1> HIDE DEF places
<1> DEFINE q == [i \in 1 .. m + 1 |->
                    IF i < at THEN p[i] ELSE IF i = at THEN m + 1 ELSE p[i - 1]]
<1>6. \A i \in 1 .. m + 1 : /\ i < at => i \in 1 .. m /\ q[i] = p[i]
                            /\ i = at => q[i] = m + 1
                            /\ at < i => i - 1 \in 1 .. m /\ at <= i - 1 /\ q[i] = p[i - 1]
  BY <1>5, SMT
<1>7. q \in [1 .. m + 1 -> 1 .. m + 1]
  BY <1>1, <1>5, SMT
<1> HIDE DEF q
<1>8. \A i, j \in 1 .. m + 1 : q[i] = q[j] => i = j
  <2>1. \A k, l \in 1 .. m : p[k] = p[l] => k = l
    BY <1>1, Zenon
  <2>2. \A i, j \in 1 .. m + 1 : i < j => q[i] # q[j]
    <3> TAKE i, j \in 1 .. m + 1
    <3> HAVE i < j
    <3>1. CASE j < at
      BY <1>3, <1>5, <1>6, <2>1, <3>1, SMT
    <3>2. CASE j = at
      BY <1>3, <1>5, <1>6, <3>2, SMT
    <3>3. CASE at < j /\ i = at
      BY <1>3, <1>6, <3>3, SMT
    <3>4. CASE at < j /\ i < at
      BY <1>3, <1>5, <1>6, <2>1, <3>4, SMT
    <3>5. CASE at < i
      BY <1>3, <1>5, <1>6, <2>1, <3>5, SMT
    <3> QED
      BY <1>5, <3>1, <3>2, <3>3, <3>4, <3>5, SMT
  <2> QED
    BY <2>2, SMT
<1>9. ASSUME NEW i \in 1 .. m + 1, NEW j \in 1 .. m + 1, i < j
      PROVE  s[q[i]] <= s[q[j]]
  <2>1. /\ i < at => i \in 1 .. m /\ q[i] = p[i]
        /\ i = at => q[i] = m + 1
        /\ at < i => i - 1 \in 1 .. m /\ at <= i - 1 /\ q[i] = p[i - 1]
        /\ j < at => j \in 1 .. m /\ q[j] = p[j]
        /\ j = at => q[j] = m + 1
        /\ at < j => j - 1 \in 1 .. m /\ at <= j - 1 /\ q[j] = p[j - 1]
    BY <1>6, Zenon
  <2>2. CASE j < at
    <3>1. i \in 1 .. m /\ j \in 1 .. m /\ i < at
      BY <1>5, <1>9, <2>1, <2>2, SMT
    <3> QED
      BY <1>2, <1>9, <2>1, <2>2, <3>1, Zenon
  <2>3. CASE j = at
    BY <1>5, <1>9, <2>1, <2>3, SMT
  <2>4. CASE at < j /\ i < at
    <3>1. i \in 1 .. m /\ j - 1 \in 1 .. m /\ i < j - 1
      BY <1>5, <2>1, <2>4, SMT
    <3>2. s[p[i]] <= s[p[j - 1]]
      BY <1>2, <3>1, Zenon
    <3> QED
      BY <2>1, <2>4, <3>2, Zenon
  <2>5. CASE at < j /\ i = at
    <3>1. j - 1 \in 1 .. m /\ at <= j - 1
      BY <2>1, <2>5, Zenon
    <3>2. s[m + 1] <= s[p[j - 1]]
      BY <1>5, <3>1, Zenon
    <3> QED
      BY <2>1, <2>5, <3>2, Zenon
  <2>6. CASE at < i
    <3>1. at < j /\ i - 1 \in 1 .. m /\ j - 1 \in 1 .. m /\ i - 1 < j - 1
      BY <1>5, <1>9, <2>1, <2>6, SMT
    <3>2. s[p[i - 1]] <= s[p[j - 1]]
      BY <1>2, <3>1, Zenon
    <3> QED
      BY <2>1, <2>6, <3>1, <3>2, Zenon
  <2> QED
    BY <1>5, <1>9, <2>2, <2>3, <2>4, <2>5, <2>6, SMT
<1> QED
  BY <1>7, <1>8, <1>9, Zenon DEF Sorts, Injection, IsInjective

\* Any numbers have such an order: the shortest list without one would have
\* one by InsertLast.
LEMMA OrderExists ==
    ASSUME NEW n \in Nat, NEW s \in [1 .. n -> Nat]
    PROVE  \E p : Sorts(p, s, n)
<1> DEFINE bad == {k \in Nat : \E t \in [1 .. k -> Nat] : \A p : ~Sorts(p, t, k)}
<1>1. SUFFICES bad = {}
  BY Zenon
<1>2. SUFFICES ASSUME bad # {} PROVE FALSE
  OBVIOUS
<1>3. PICK k \in bad : \A j \in bad : k <= j
  <2>1. bad \subseteq Nat
    OBVIOUS
  <2> QED
    BY <1>2, <2>1, LeastNumber, Zenon
<1>4. PICK t \in [1 .. k -> Nat] : \A p : ~Sorts(p, t, k)
  BY <1>3, Zenon
<1>5. k \in Nat
  BY <1>3
<1>6. k # 0
  <2>1. ASSUME k = 0 PROVE FALSE
    <3> DEFINE p == [i \in 1 .. 0 |-> i]
    <3>1. 1 .. 0 = {}
      BY SMT
    <3>2. p \in [1 .. 0 -> 1 .. 0] /\ IsInjective(p)
      BY <3>1, Zenon DEF IsInjective
    <3>3. Sorts(p, t, 0)
      BY <3>1, <3>2, Zenon DEF Sorts, Injection
    <3> QED
      BY <1>4, <2>1, <3>3, Zenon
  <2> QED
    BY <2>1
<1>7. k - 1 \in Nat /\ k - 1 + 1 = k /\ ~(k <= k - 1)
  BY <1>5, <1>6, SMT
<1> DEFINE m == k - 1
           u == [i \in 1 .. m |-> t[i]]
<1>8. m \notin bad
  BY <1>3, <1>7, Zenon
<1>9. u \in [1 .. m -> Nat]
  BY <1>5, <1>6, SMT
<1>10. PICK p : Sorts(p, u, m)
  BY <1>7, <1>8, <1>9, Zenon
<1>11. Sorts(p, t, m)
  <2>1. p \in Injection(1 .. m, 1 .. m)
    BY <1>10, Zenon DEF Sorts
  <2>2. \A i \in 1 .. m : p[i] \in 1 .. m
    BY <2>1, Zenon DEF Injection
  <2>3. \A i \in 1 .. m : u[p[i]] = t[p[i]]
    BY <2>2, Zenon
  <2>4. \A i, j \in 1 .. m : i < j => u[p[i]] <= u[p[j]]
    BY <1>10, Zenon DEF Sorts
  <2> QED
    BY <2>1, <2>3, <2>4, Zenon DEF Sorts
<1>12. m \in Nat /\ m + 1 = k
  BY <1>7
<1> HIDE DEF m, u, bad
<1>13. \E q : Sorts(q, t, m + 1)
  <2>1. t \in [1 .. m + 1 -> Nat]
    BY <1>12, Zenon
  <2> QED
    BY <1>11, <1>12, <2>1, InsertLast, Zenon
<1> QED
  BY <1>4, <1>12, <1>13, Zenon

(***************************************************************************)
(* Percentiles                                                             *)
(***************************************************************************)
Ascending(s) == \A i, j \in 1 .. Len(s) : i <= j => s[i] <= s[j]

\* The index is that of an element, and p percent of the length is at most
\* one more than it.
LEMMA IndexBounds ==
    ASSUME NEW n \in Nat \ {0}, NEW pct \in 0 .. 100
    PROVE  /\ PercentileIndex(n, pct) \in 0 .. n - 1
           /\ 100 * (PercentileIndex(n, pct) + 1) >= pct * n
<1> DEFINE x == pct * n
<1>1. x \in Nat /\ x <= 100 * n
  <2>1. pct * n \in Nat
    BY SMT
  <2>2. (100 - pct) * n >= 0
    BY SMT
  <2>3. (100 - pct) * n = 100 * n - pct * n
    BY SMT
  <2> QED
    BY <2>1, <2>2, <2>3, SMT
<1>2. PercentileIndex(n, pct) = IF x \div 100 >= n THEN n - 1 ELSE x \div 100
  BY DEF PercentileIndex
<1> HIDE DEF x
<1>3. x \div 100 \in Nat /\ 100 * ((x \div 100) + 1) >= x
  BY <1>1, SMT
<1>4. /\ PercentileIndex(n, pct) \in 0 .. n - 1
      /\ 100 * (PercentileIndex(n, pct) + 1) >= x
  BY <1>1, <1>2, <1>3, SMT
<1> QED
  BY <1>4 DEF x

(***************************************************************************)
(* A percentile of any latencies that are in order is one of them, and at  *)
(* least its share of them are no longer (percentile).                     *)
(***************************************************************************)
THEOREM PercentileCovers ==
    ASSUME NEW s \in Seq(Nat), s # <<>>, Ascending(s), NEW pct \in 0 .. 100
    PROVE  LET p == Percentile(s, pct)
               under == {i \in DOMAIN s : s[i] <= p}
           IN  /\ \E i \in DOMAIN s : s[i] = p
               /\ 100 * Cardinality(under) >= pct * Len(s)
<1> DEFINE idx == PercentileIndex(Len(s), pct)
           p == Percentile(s, pct)
           under == {i \in DOMAIN s : s[i] <= p}
<1>1. Len(s) \in Nat \ {0} /\ DOMAIN s = 1 .. Len(s)
  BY SMT
<1>2. idx \in 0 .. Len(s) - 1 /\ 100 * (idx + 1) >= pct * Len(s)
  BY <1>1, IndexBounds, Zenon
<1>3. p = s[idx + 1]
  BY Zenon DEF Percentile
<1> HIDE DEF idx, p
<1>4. 1 .. idx + 1 \subseteq under
  BY <1>1, <1>2, <1>3, SMT DEF Ascending
<1>5. Cardinality(under) \in Nat /\ idx + 1 <= Cardinality(under)
  <2>1. /\ IsFiniteSet(1 .. Len(s)) /\ IsFiniteSet(1 .. idx + 1)
        /\ Cardinality(1 .. idx + 1) = idx + 1
    <3>1. 1 \in Int /\ Len(s) \in Int /\ idx + 1 \in Int /\ ~(1 > idx + 1)
      BY <1>1, <1>2, SMT
    <3>2. \A a, b \in Int : /\ IsFiniteSet(a .. b)
                             /\ Cardinality(a .. b) = IF a > b THEN 0 ELSE b - a + 1
      BY FS_Interval
    <3> QED
      BY <1>2, <3>1, <3>2, SMT
  <2>2. under \subseteq 1 .. Len(s)
    BY <1>1
  <2> HIDE DEF under
  <2>3. IsFiniteSet(under)
    BY <2>1, <2>2, FS_Subset, Zenon
  <2>4. Cardinality(1 .. idx + 1) <= Cardinality(under)
    BY <1>4, <2>3, FS_Subset, Zenon
  <2> QED
    BY <2>1, <2>3, <2>4, FS_CardinalityType, Zenon
<1>6. \E i \in DOMAIN s : s[i] = p
  BY <1>1, <1>2, <1>3, SMT
<1>7. 100 * Cardinality(under) >= pct * Len(s)
  <2> DEFINE k == Cardinality(under)
             x == pct * Len(s)
  <2>1. x \in Nat /\ k \in Nat /\ idx + 1 <= k /\ 100 * (idx + 1) >= x
    BY <1>1, <1>2, <1>5, SMT
  <2> HIDE DEF k, x
  <2>2. 100 * k >= x
    BY <1>1, <1>2, <2>1, SMT
  <2> QED
    BY <2>2 DEF k, x
<1> QED
  BY <1>6, <1>7 DEF p

(***************************************************************************)
(* Reports                                                                 *)
(***************************************************************************)
Buckets == [count : Nat, errors : Nat, latencies : Seq(Nat)]

\* What Sorted chooses is an ascending rearrangement.
LEMMA SortedFacts ==
    ASSUME NEW s \in Seq(Nat)
    PROVE  /\ Sorted(s) \in Seq(Nat)
           /\ Len(Sorted(s)) = Len(s)
           /\ Ascending(Sorted(s))
           /\ \E p \in Injection(DOMAIN s, DOMAIN s) :
                 \A i \in DOMAIN s : Sorted(s)[i] = s[p[i]]
<1> DEFINE n == Len(s)
           orders == {p \in Bijection(DOMAIN s, DOMAIN s) :
                         \A i, j \in DOMAIN s : i < j => s[p[i]] <= s[p[j]]}
           p == CHOOSE q \in Bijection(DOMAIN s, DOMAIN s) :
                    \A i, j \in DOMAIN s : i < j => s[q[i]] <= s[q[j]]
<1>1. n \in Nat /\ DOMAIN s = 1 .. n /\ s \in [1 .. n -> Nat]
  BY SMT
<1>2. PICK q : Sorts(q, s, n)
  BY <1>1, OrderExists, Zenon
<1>3. q \in Bijection(DOMAIN s, DOMAIN s)
  <2>1. q \in Injection(1 .. n, 1 .. n)
    BY <1>2, Zenon DEF Sorts
  <2>2. IsFiniteSet(1 .. n)
    BY <1>1, FS_Interval, SMT
  <2>3. q \in Surjection(1 .. n, 1 .. n)
    BY <2>1, <2>2, FS_Injection, Zenon
  <2> QED
    BY <1>1, <2>1, <2>3, Zenon DEF Bijection
<1>4. /\ p \in Bijection(DOMAIN s, DOMAIN s)
      /\ \A i, j \in DOMAIN s : i < j => s[p[i]] <= s[p[j]]
  BY <1>1, <1>2, <1>3, Zenon DEF Sorts
<1>5. Sorted(s) = [i \in DOMAIN s |-> s[p[i]]]
  BY Zenon DEF Sorted
<1> HIDE DEF p, n
<1>6. p \in Injection(DOMAIN s, DOMAIN s) /\ \A i \in 1 .. n : p[i] \in 1 .. n
  BY <1>1, <1>4, Zenon DEF Bijection, Injection
<1>7. \A i \in 1 .. n : Sorted(s)[i] = s[p[i]] /\ s[p[i]] \in Nat
  BY <1>1, <1>5, <1>6, Zenon
<1>8. Sorted(s) \in [1 .. n -> Nat]
  BY <1>1, <1>5, <1>7, Zenon
<1>9. Sorted(s) \in Seq(Nat) /\ Len(Sorted(s)) = n
  BY <1>1, <1>8, SMT
<1>10. Ascending(Sorted(s))
  <2>1. ASSUME NEW i \in 1 .. n, NEW j \in 1 .. n, i <= j
        PROVE  s[p[i]] <= s[p[j]]
    <3>1. CASE i < j
      BY <1>1, <1>4, <3>1, Zenon
    <3>2. CASE i = j
      BY <1>7, <3>2, SMT
    <3> QED
      BY <1>1, <2>1, <3>1, <3>2, SMT
  <2> QED
    BY <1>7, <1>9, <2>1, Zenon DEF Ascending
<1> QED
  BY <1>1, <1>6, <1>7, <1>9, <1>10, Zenon DEF n

\* A larger share has an index that is not less.
LEMMA IndexOrder ==
    ASSUME NEW n \in Nat \ {0}, NEW low \in 0 .. 100, NEW high \in 0 .. 100, low <= high
    PROVE  PercentileIndex(n, low) <= PercentileIndex(n, high)
<1> DEFINE x == low * n
           y == high * n
<1>1. x \in Nat /\ y \in Nat /\ x <= y
  <2>1. (high - low) * n >= 0 /\ x \in Nat /\ y \in Nat
    BY SMT
  <2>2. (high - low) * n = high * n - low * n
    BY SMT
  <2> QED
    BY <2>1, <2>2, SMT
<1>2. /\ PercentileIndex(n, low) = IF x \div 100 >= n THEN n - 1 ELSE x \div 100
      /\ PercentileIndex(n, high) = IF y \div 100 >= n THEN n - 1 ELSE y \div 100
  BY DEF PercentileIndex
<1> HIDE DEF x, y
<1>3. x \div 100 \in Nat /\ y \div 100 \in Nat /\ x \div 100 <= y \div 100
  BY <1>1, SMT
<1> QED
  BY <1>2, <1>3, SMT

\* As many of the latencies as of the sorted ones are at most a value.
LEMMA UnderSorted ==
    ASSUME NEW s \in Seq(Nat), NEW value
    PROVE  LET sorted == {i \in DOMAIN Sorted(s) : Sorted(s)[i] <= value}
               under == {i \in DOMAIN s : s[i] <= value}
           IN  Cardinality(sorted) \in Nat /\ Cardinality(under) \in Nat
               /\ Cardinality(sorted) <= Cardinality(under)
<1> DEFINE sorted == {i \in DOMAIN Sorted(s) : Sorted(s)[i] <= value}
           under == {i \in DOMAIN s : s[i] <= value}
<1>1. /\ Len(s) \in Nat /\ DOMAIN s = 1 .. Len(s) /\ DOMAIN Sorted(s) = DOMAIN s
  BY SortedFacts, SMT
<1>2. PICK p \in Injection(DOMAIN s, DOMAIN s) :
          \A i \in DOMAIN s : Sorted(s)[i] = s[p[i]]
  BY SortedFacts, Zenon
<1>3. p \in [DOMAIN s -> DOMAIN s] /\ \A i, j \in DOMAIN s : p[i] = p[j] => i = j
  BY Zenon DEF Injection, IsInjective
<1> DEFINE f == [i \in sorted |-> p[i]]
<1>4. \A i \in sorted : i \in DOMAIN s /\ p[i] \in under
  BY <1>1, <1>2, <1>3, Zenon
<1>5. IsFiniteSet(under) /\ IsFiniteSet(sorted)
  <2>1. IsFiniteSet(DOMAIN s)
    BY <1>1, FS_Interval, SMT
  <2>2. under \subseteq DOMAIN s /\ sorted \subseteq DOMAIN s
    BY <1>1, Zenon
  <2> HIDE DEF under, sorted
  <2> QED
    BY <2>1, <2>2, FS_Subset, Zenon
<1> HIDE DEF under, sorted
<1>6. f \in Injection(sorted, under)
  BY <1>3, <1>4, Zenon DEF Injection, IsInjective
<1>7. Cardinality(sorted) <= Cardinality(under)
  <2> HIDE DEF f
  <2> QED
    BY <1>5, <1>6, FS_Injection, Zenon
<1> QED
  BY <1>5, <1>7, FS_CardinalityType, Zenon DEF sorted, under

\* A percentile of the sorted latencies, in terms of the latencies.
LEMMA PercentileOfCalls ==
    ASSUME NEW b \in Buckets, b.count = Len(b.latencies), b.count > 0, NEW pct \in 0 .. 100
    PROVE  LET value == Percentile(Sorted(b.latencies), pct) IN
           /\ value \in Range(b.latencies)
           /\ Covered(b, value, pct)
<1> DEFINE s == b.latencies
           t == Sorted(s)
           value == Percentile(t, pct)
           sorted == {i \in DOMAIN t : t[i] <= value}
           under == {i \in DOMAIN s : s[i] <= value}
<1>1. s \in Seq(Nat) /\ b.count \in Nat
  BY SMT DEF Buckets
<1>2. /\ t \in Seq(Nat) /\ Len(t) = Len(s) /\ Ascending(t)
      /\ \E p \in Injection(DOMAIN s, DOMAIN s) : \A i \in DOMAIN s : t[i] = s[p[i]]
  <2> HIDE DEF s
  <2> QED
    BY <1>1, SortedFacts, Zenon
<1> HIDE DEF t
<1>3. t # <<>> /\ DOMAIN t = DOMAIN s
  BY <1>1, <1>2, SMT
<1>4. (\E i \in DOMAIN t : t[i] = value) /\ 100 * Cardinality(sorted) >= pct * Len(t)
  BY <1>2, <1>3, PercentileCovers, Zenon
<1>5. Cardinality(sorted) \in Nat /\ Cardinality(under) \in Nat
      /\ Cardinality(sorted) <= Cardinality(under)
  <2> HIDE DEF s, value
  <2> QED
    BY <1>1, UnderSorted, Zenon DEF t
<1> HIDE DEF value
<1>6. value \in Range(s)
  <2>1. PICK p \in Injection(DOMAIN s, DOMAIN s) : \A i \in DOMAIN s : t[i] = s[p[i]]
    BY <1>2, Zenon
  <2>2. \A i \in DOMAIN s : p[i] \in DOMAIN s
    BY <2>1, Zenon DEF Injection
  <2> QED
    BY <1>3, <1>4, <2>1, <2>2, Zenon DEF Range
<1>7. 100 * Cardinality(under) >= pct * b.count
  <2> DEFINE k == Cardinality(sorted)
             l == Cardinality(under)
             x == pct * Len(t)
  <2>1. x \in Int /\ k \in Nat /\ l \in Nat /\ k <= l /\ 100 * k >= x
    <3>1. Len(t) \in Nat
      BY <1>2, SMT
    <3>2. x \in Int
      BY <3>1, SMT
    <3> QED
      BY <1>4, <1>5, <3>2, Zenon
  <2>2. x = pct * b.count
    BY <1>2, Zenon
  <2> HIDE DEF k, l, x
  <2>3. 100 * l >= x
    BY <2>1, SMT
  <2> QED
    BY <2>2, <2>3 DEF l
<1> QED
  BY <1>6, <1>7, Zenon DEF Covered, t, value

\* A share of sorted latencies is at most a larger share of them.
LEMMA PercentileOrder ==
    ASSUME NEW s \in Seq(Nat), s # <<>>, Ascending(s),
           NEW low \in 0 .. 100, NEW high \in 0 .. 100, low <= high
    PROVE  Percentile(s, low) <= Percentile(s, high)
<1>1. Len(s) \in Nat \ {0}
  BY SMT
<1>2. /\ PercentileIndex(Len(s), low) \in 0 .. Len(s) - 1
      /\ PercentileIndex(Len(s), high) \in 0 .. Len(s) - 1
      /\ PercentileIndex(Len(s), low) <= PercentileIndex(Len(s), high)
  BY <1>1, IndexBounds, IndexOrder, Zenon
<1>3. \A i, j \in 0 .. Len(s) - 1 : i <= j => s[i + 1] <= s[j + 1]
  BY <1>1, SMT DEF Ascending
<1> QED
  BY <1>2, <1>3, Zenon DEF Percentile

(***************************************************************************)
(* The stats of any calls describe them: their percentiles are latencies   *)
(* that were recorded, that at least their share of the calls took no      *)
(* longer than, and they are in order (Snapshot, percentile).              *)
(***************************************************************************)
THEOREM StatsDescribe ==
    ASSUME NEW b \in Buckets, b.count = Len(b.latencies), b.count > 0
    PROVE  Describes(Stats(b), b)
<1> DEFINE s == Sorted(b.latencies)
           line == Stats(b)
<1>1. line = [count |-> b.count, errors |-> b.errors, p50 |-> Percentile(s, 50),
              p95 |-> Percentile(s, 95), p99 |-> Percentile(s, 99)]
  BY Zenon DEF Stats
<1>2. /\ line.count = b.count /\ line.errors = b.errors
      /\ line.p50 = Percentile(s, 50) /\ line.p95 = Percentile(s, 95)
      /\ line.p99 = Percentile(s, 99)
  <2> HIDE DEF line, s
  <2> QED
    BY <1>1, Zenon
<1>3. /\ 50 \in 0 .. 100 /\ 95 \in 0 .. 100 /\ 99 \in 0 .. 100
      /\ 50 <= 95 /\ 95 <= 99
  BY SMT
<1>4. /\ Percentile(s, 50) \in Range(b.latencies) /\ Covered(b, Percentile(s, 50), 50)
      /\ Percentile(s, 95) \in Range(b.latencies) /\ Covered(b, Percentile(s, 95), 95)
      /\ Percentile(s, 99) \in Range(b.latencies) /\ Covered(b, Percentile(s, 99), 99)
  <2>1. \A pct \in 0 .. 100 : /\ Percentile(s, pct) \in Range(b.latencies)
                              /\ Covered(b, Percentile(s, pct), pct)
    BY PercentileOfCalls, Zenon
  <2> HIDE DEF s
  <2> QED
    BY <1>3, <2>1, Zenon
<1>5. Percentile(s, 50) <= Percentile(s, 95) /\ Percentile(s, 95) <= Percentile(s, 99)
  <2>1. b.latencies \in Seq(Nat)
    BY SMT DEF Buckets
  <2>2. s \in Seq(Nat) /\ Len(s) = Len(b.latencies) /\ Ascending(s)
    BY <2>1, SortedFacts, Zenon
  <2> HIDE DEF s
  <2>3. s # <<>>
    BY <2>1, <2>2, SMT
  <2> QED
    BY <1>3, <2>2, <2>3, PercentileOrder, Zenon
<1> HIDE DEF line, s
<1>6. {line.p50, line.p95, line.p99} \subseteq Range(b.latencies)
  <2>1. line.p50 \in Range(b.latencies) /\ line.p95 \in Range(b.latencies)
        /\ line.p99 \in Range(b.latencies)
    BY <1>2, <1>4, Zenon
  <2> QED
    BY <2>1
<1>7. Covered(b, line.p50, 50) /\ Covered(b, line.p95, 95) /\ Covered(b, line.p99, 99)
  BY <1>2, <1>4, Zenon
<1>8. line.p50 <= line.p95 /\ line.p95 <= line.p99
  BY <1>2, <1>5, Zenon
<1> QED
  BY <1>2, <1>6, <1>7, <1>8, Zenon DEF Describes, line

\* A bucket keeps a latency for each call, and has no more errors than calls.
Recorded(b) == b.count = Len(b.latencies) /\ b.errors <= b.count

\* A report that is being written has the lines that its moment's buckets give.
ReportInv ==
    /\ \A op \in Ops : Recorded(buckets[op])
    /\ dump = [pc |-> dump.pc, snap |-> dump.snap, lines |-> dump.lines, at |-> dump.at]
    /\ dump.pc = "writing" =>
          /\ dump.at \in [Ops -> Buckets]
          /\ \A op \in Ops : Recorded(dump.at[op])
          /\ dump.snap = [op \in {o \in Ops : dump.at[o] # NoCalls} |-> Stats(dump.at[op])]
          /\ DOMAIN dump.lines \subseteq DOMAIN dump.snap
          /\ \A op \in DOMAIN dump.lines : dump.lines[op] = dump.snap[op]

\* An operation has calls exactly when its bucket is not empty.
LEMMA CallsCounted ==
    ASSUME NEW b \in Buckets, Recorded(b)
    PROVE  b # NoCalls <=> b.count > 0
<1>1. /\ b = [count |-> b.count, errors |-> b.errors, latencies |-> b.latencies]
      /\ b.count \in Nat /\ b.errors \in Nat /\ b.latencies \in Seq(Nat)
  BY SMT DEF Buckets
<1>2. b.count = 0 => b.errors = 0 /\ b.latencies = <<>>
  <2>1. \A t \in Seq(Nat) : Len(t) = 0 => t = <<>>
    BY SMT
  <2>2. \A n, e \in Nat : e <= n /\ n = 0 => e = 0
    BY SMT
  <2> QED
    BY <1>1, <2>1, <2>2, Zenon DEF Recorded
<1>3. b.count = 0 => b = NoCalls
  BY <1>1, <1>2, Zenon DEF NoCalls
<1>4. NoCalls.count = 0
  BY Zenon DEF NoCalls
<1> QED
  BY <1>1, <1>3, <1>4, SMT

\* When all lines are written, they are those that the moment's buckets give.
LEMMA DescribedByReport == ReportInv => ReportIsTrue
<1> SUFFICES ASSUME ReportInv, AllWritten PROVE ReportIsTrue
  BY Zenon DEF ReportIsTrue
<1>1. /\ dump.at \in [Ops -> Buckets]
      /\ \A op \in Ops : Recorded(dump.at[op])
      /\ dump.snap = [op \in {o \in Ops : dump.at[o] # NoCalls} |-> Stats(dump.at[op])]
      /\ DOMAIN dump.lines = DOMAIN dump.snap
      /\ \A op \in DOMAIN dump.lines : dump.lines[op] = dump.snap[op]
  BY Zenon DEF AllWritten, ReportInv
<1>2. \A op \in Ops : dump.at[op] \in Buckets /\ Recorded(dump.at[op])
  BY <1>1, Zenon
<1>3. \A op \in Ops : dump.at[op] # NoCalls <=> dump.at[op].count > 0
  BY <1>2, CallsCounted, Zenon
<1>4. DOMAIN dump.lines = {op \in Ops : dump.at[op].count > 0}
  BY <1>1, <1>3, Zenon
<1>5. ASSUME NEW op \in DOMAIN dump.lines
      PROVE  Describes(dump.lines[op], dump.at[op])
  <2>1. op \in Ops /\ dump.at[op].count > 0
    BY <1>4, <1>5, Zenon
  <2>2. dump.lines[op] = Stats(dump.at[op])
    BY <1>1, <1>5, Zenon
  <2> QED
    BY <1>2, <2>1, <2>2, StatsDescribe, Zenon DEF Recorded
<1> QED
  BY <1>4, <1>5, Zenon DEF ReportIsTrue

\* Recording a call keeps its bucket in order.
LEMMA RecordedStep ==
    ASSUME NEW b, b \in Buckets, Recorded(b), NEW latency \in Nat, NEW wrong \in BOOLEAN
    PROVE  LET new == [count     |-> b.count + 1,
                       errors    |-> IF wrong THEN b.errors + 1 ELSE b.errors,
                       latencies |-> Append(b.latencies, latency)]
           IN  Recorded(new)
<1>1. b.count \in Nat /\ b.errors \in Nat /\ b.latencies \in Seq(Nat)
  BY SMT DEF Buckets
<1>2. b.count = Len(b.latencies) /\ b.errors <= b.count
  BY Zenon DEF Recorded
<1>3. Len(Append(b.latencies, latency)) = Len(b.latencies) + 1
  BY <1>1, SMT
<1>4. b.count + 1 = Len(Append(b.latencies, latency))
      /\ (IF wrong THEN b.errors + 1 ELSE b.errors) <= b.count + 1
  BY <1>1, <1>2, <1>3, SMT
<1> QED
  BY <1>4, Zenon DEF Recorded

LEMMA ReportInvInit == Init => ReportInv
<1> SUFFICES ASSUME Init PROVE ReportInv
  OBVIOUS
<1>1. Recorded(NoCalls)
  BY SMT DEF Recorded, NoCalls
<1>2. \A op \in Ops : buckets[op] = NoCalls
  BY Zenon DEF Init, MetricsInit
<1>3. dump = NoReport
  BY Zenon DEF Init, MetricsInit
<1>4. /\ dump = [pc |-> dump.pc, snap |-> dump.snap, lines |-> dump.lines, at |-> dump.at]
      /\ dump.pc # "writing"
  BY <1>3, SMT DEF NoReport
<1> QED
  BY <1>1, <1>2, <1>4, Zenon DEF ReportInv

LEMMA ReportInvStep == Types /\ ReportInv /\ [Next]_vars => ReportInv'
<1> SUFFICES ASSUME Types, ReportInv, [Next]_vars PROVE ReportInv'
  OBVIOUS
<1>1. ASSUME UNCHANGED metricsVars
      PROVE  ReportInv'
  BY <1>1, Zenon DEF metricsVars, ReportInv
<1>2. buckets \in [Ops -> Buckets]
  BY Zenon DEF Types, Buckets
<1>3. ASSUME NEW c \in Callers, Reply(c)
      PROVE  ReportInv'
  <2>1. CASE UNCHANGED metricsVars
    BY <1>1, <2>1
  <2>2. CASE \E latency \in Latencies : Record(call[c].op, latency, Failure(call[c]))
    <3>1. PICK latency \in Latencies : Record(call[c].op, latency, Failure(call[c]))
      BY <2>2
    <3> DEFINE wrong == Failure(call[c])
               new(b) == [count     |-> b.count + 1,
                          errors    |-> IF wrong THEN b.errors + 1 ELSE b.errors,
                          latencies |-> Append(b.latencies, latency)]
    <3>2. latency \in Nat /\ wrong \in BOOLEAN
      BY LatenciesAssumption, Zenon DEF Failure
    <3>3. buckets' = [buckets EXCEPT ![call[c].op] = new(@)] /\ UNCHANGED dump
      BY <3>1, Zenon DEF Record
    <3>4. \A b \in Buckets : Recorded(b) => Recorded(new(b))
      <4> HIDE DEF wrong
      <4> QED
        BY <3>2, RecordedStep, Zenon
    <3> HIDE DEF new
    <3>5. \A op \in Ops :
             buckets'[op] = IF op = call[c].op THEN new(buckets[op]) ELSE buckets[op]
      BY <1>2, <3>3, Zenon
    <3>6. \A op \in Ops : buckets[op] \in Buckets /\ Recorded(buckets[op])
      BY <1>2, Zenon DEF ReportInv
    <3>7. \A op \in Ops : Recorded(buckets'[op])
      BY <3>4, <3>5, <3>6, Zenon
    <3> QED
      BY <3>3, <3>7, Zenon DEF ReportInv
  <2> QED
    BY <1>3, <2>1, <2>2, Zenon DEF Reply
<1>4. CASE WriteTo
  <2>1. /\ dump' = [pc |-> "writing", snap |-> Snapshot, lines |-> <<>>, at |-> buckets]
        /\ UNCHANGED buckets
    BY <1>4, Zenon DEF WriteTo
  <2>2. /\ dump' = [pc |-> dump'.pc, snap |-> dump'.snap, lines |-> dump'.lines, at |-> dump'.at]
        /\ dump'.at = buckets /\ dump'.snap = Snapshot /\ dump'.lines = <<>>
    BY <2>1, SMT
  <2>3. DOMAIN dump'.lines = {}
    BY <2>2, SMT
  <2>4. dump'.snap = [op \in {o \in Ops : dump'.at[o] # NoCalls} |-> Stats(dump'.at[op])]
    BY <2>2, Zenon DEF Snapshot
  <2>5. \A op \in Ops : Recorded(buckets[op])
    BY Zenon DEF ReportInv
  <2>6. dump'.at \in [Ops -> Buckets] /\ \A op \in Ops : Recorded(dump'.at[op])
    BY <1>2, <2>2, <2>5, Zenon
  <2>7. \A op \in Ops : Recorded(buckets'[op])
    BY <2>1, <2>5, Zenon
  <2> QED
    BY <2>2, <2>3, <2>4, <2>6, <2>7, Zenon DEF ReportInv
<1>5. CASE WriteLine
  <2>1. PICK op \in DOMAIN dump.snap \ DOMAIN dump.lines :
            dump' = [dump EXCEPT !.lines = [o \in DOMAIN @ \union {op} |->
                        IF o = op THEN dump.snap[op] ELSE @[o]]]
    BY <1>5, Zenon DEF WriteLine
  <2> DEFINE lines == [o \in DOMAIN dump.lines \union {op} |->
                          IF o = op THEN dump.snap[op] ELSE dump.lines[o]]
  <2>2. dump' = [dump EXCEPT !.lines = lines]
    BY <2>1, Zenon
  <2>3. DOMAIN lines = DOMAIN dump.lines \union {op}
        /\ \A o \in DOMAIN lines : lines[o] = IF o = op THEN dump.snap[op] ELSE dump.lines[o]
    BY Zenon
  <2> HIDE DEF lines
  <2>4. dump = [pc |-> dump.pc, snap |-> dump.snap, lines |-> dump.lines, at |-> dump.at]
    BY Zenon DEF ReportInv
  <2>5. /\ dump' = [pc |-> dump'.pc, snap |-> dump'.snap, lines |-> dump'.lines, at |-> dump'.at]
        /\ dump'.pc = dump.pc /\ dump'.snap = dump.snap /\ dump'.at = dump.at
        /\ dump'.lines = lines
    BY <2>2, <2>4, SMT
  <2>6. dump.pc = "writing" /\ UNCHANGED buckets
    BY <1>5, Zenon DEF WriteLine
  <2>7. /\ DOMAIN dump.lines \subseteq DOMAIN dump.snap
        /\ \A o \in DOMAIN dump.lines : dump.lines[o] = dump.snap[o]
    BY <2>6, Zenon DEF ReportInv
  <2>8. /\ DOMAIN dump'.lines \subseteq DOMAIN dump'.snap
        /\ \A o \in DOMAIN dump'.lines : dump'.lines[o] = dump'.snap[o]
    BY <2>3, <2>5, <2>7, Zenon
  <2>9. /\ dump.at \in [Ops -> Buckets]
        /\ \A o \in Ops : Recorded(dump.at[o]) /\ Recorded(buckets[o])
        /\ dump.snap = [o \in {x \in Ops : dump.at[x] # NoCalls} |-> Stats(dump.at[o])]
    BY <2>6, Zenon DEF ReportInv
  <2>10. /\ dump'.at \in [Ops -> Buckets]
         /\ \A o \in Ops : Recorded(dump'.at[o]) /\ Recorded(buckets'[o])
         /\ dump'.snap = [o \in {x \in Ops : dump'.at[x] # NoCalls} |-> Stats(dump'.at[o])]
    BY <2>5, <2>6, <2>9, Zenon
  <2> QED
    BY <2>5, <2>8, <2>10, Zenon DEF ReportInv
<1>6. CASE WriteEnd
  <2>1. dump' = NoReport /\ UNCHANGED buckets
    BY <1>6, Zenon DEF WriteEnd
  <2>2. /\ dump' = [pc |-> dump'.pc, snap |-> dump'.snap, lines |-> dump'.lines, at |-> dump'.at]
        /\ dump'.pc # "writing"
    BY <2>1, SMT DEF NoReport
  <2> QED
    BY <2>1, <2>2, Zenon DEF ReportInv
<1>7. ASSUME NEW c \in Callers,
             \/ Call(c) \/ ListEntities(c) \/ SearchHit(c) \/ Serve(c) \/ Refuse(c)
             \/ TryAgain(c) \/ BackoffEnds(c) \/ BackoffCancelled(c) \/ Return(c)
      PROVE  UNCHANGED metricsVars
  BY <1>7, Zenon DEF Call, ListEntities, SearchHit, Serve, Refuse, TryAgain, BackoffEnds,
     BackoffCancelled, Return, Returns, metricsVars
<1>8. ASSUME CheckQuota \/ UNCHANGED vars
      PROVE  UNCHANGED metricsVars
  BY <1>8, Zenon DEF CheckQuota, vars, metricsVars
<1> QED
  BY <1>1, <1>3, <1>4, <1>5, <1>6, <1>7, <1>8, Zenon DEF Next, ClientStep, Report, MetricsStep

(***************************************************************************)
(* The lines of every report describe one moment, whatever is recorded     *)
(* while it is written, for any operations and latencies (WriteTo,         *)
(* Snapshot).                                                              *)
(***************************************************************************)
THEOREM ReportTruth == Spec => []ReportIsTrue
<1>1. RequestsInv => Types
  BY Zenon DEF RequestsInv
<1> QED
  BY <1>1, RequestsInvariant, ReportInvInit, ReportInvStep, DescribedByReport, PTL DEF Spec
=============================================================================

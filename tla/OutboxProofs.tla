---------------------------- MODULE OutboxProofs ----------------------------
(***************************************************************************)
(* Safety of the outbox for every set of entries, threshold and timeout,   *)
(* what PendingCount counts, that the outbox implements SubmitPromise, and *)
(* what an answer of the health checker over it is worth.                  *)
(***************************************************************************)
EXTENDS HealthCheck, CircuitBreakerProofs, SequenceTheorems, FiniteSetTheorems

(***************************************************************************)
(* What the sequence operations of the code do to the entries held.        *)
(***************************************************************************)
\* An empty sequence holds nothing.
LEMMA EmptyHolds == Range(<<>>) = {} /\ IsInjective(<<>>)
BY DEF Range, IsInjective

\* Appending adds one element, and keeps the elements distinct if it is new.
LEMMA AppendHolds ==
    ASSUME NEW S, NEW s \in Seq(S), NEW x \in S
    PROVE  /\ Append(s, x) \in Seq(S)
           /\ Append(s, x) # <<>>
           /\ Range(Append(s, x)) = Range(s) \union {x}
           /\ (IsInjective(s) /\ x \notin Range(s)) => IsInjective(Append(s, x))
<1>1. /\ Append(s, x) \in Seq(S)
      /\ Append(s, x) # <<>>
      /\ Len(Append(s, x)) = Len(s) + 1
      /\ \A i \in 1 .. Len(s) : Append(s, x)[i] = s[i]
      /\ Append(s, x)[Len(s) + 1] = x
  BY AppendProperties
<1>2. Len(s) \in Nat /\ DOMAIN s = 1 .. Len(s)
  BY LenProperties
<1>3. DOMAIN Append(s, x) = 1 .. Len(s) + 1
  BY <1>1, LenProperties
<1>4. Range(Append(s, x)) = Range(s) \union {x}
  BY <1>1, <1>2, <1>3, SMT DEF Range
<1>5. ASSUME IsInjective(s), x \notin Range(s)
      PROVE  IsInjective(Append(s, x))
  BY <1>1, <1>2, <1>3, <1>5, SMT DEF IsInjective, Range
<1> QED
  BY <1>1, <1>4, <1>5

\* Head and Tail part a sequence, disjointly if its elements are distinct.
LEMMA TailHolds ==
    ASSUME NEW S, NEW s \in Seq(S), s # <<>>
    PROVE  /\ Head(s) \in S
           /\ Tail(s) \in Seq(S)
           /\ Range(s) = {Head(s)} \union Range(Tail(s))
           /\ IsInjective(s) => IsInjective(Tail(s)) /\ Head(s) \notin Range(Tail(s))
<1>1. /\ Head(s) \in S
      /\ Tail(s) \in Seq(S)
      /\ Len(Tail(s)) = Len(s) - 1
      /\ \A i \in 1 .. Len(Tail(s)) : Tail(s)[i] = s[i + 1]
  BY HeadTailProperties
<1>2. Len(s) \in Nat \ {0} /\ DOMAIN s = 1 .. Len(s)
  BY LenProperties, EmptySeq
<1>3. DOMAIN Tail(s) = 1 .. Len(s) - 1
  BY <1>1, LenProperties
<1>4. Head(s) = s[1]
  BY DEF Head
<1>5. \A i \in 1 .. Len(s) - 1 : Tail(s)[i] = s[i + 1]
  BY <1>1
<1>6. Range(s) = {Head(s)} \union Range(Tail(s))
  <2>1. ASSUME NEW i \in 1 .. Len(s)
        PROVE  s[i] \in {Head(s)} \union Range(Tail(s))
    <3>1. CASE i = 1
      BY <3>1, <1>4
    <3>2. CASE i # 1
      <4>1. i - 1 \in 1 .. Len(s) - 1 /\ (i - 1) + 1 = i
        BY <3>2, <1>2, SMT
      <4>2. Tail(s)[i - 1] = s[i]
        BY <4>1, <1>5
      <4> QED
        BY <4>1, <4>2, <1>3 DEF Range
    <3> QED
      BY <3>1, <3>2
  <2>2. ASSUME NEW i \in 1 .. Len(s) - 1
        PROVE  Tail(s)[i] \in Range(s)
    <3>1. i + 1 \in 1 .. Len(s)
      BY <1>2, SMT
    <3> QED
      BY <3>1, <1>2, <1>5 DEF Range
  <2>3. Head(s) \in Range(s)
    BY <1>2, <1>4, SMT DEF Range
  <2> QED
    BY <2>1, <2>2, <2>3, <1>2, <1>3, Zenon DEF Range
<1>7. ASSUME IsInjective(s)
      PROVE  IsInjective(Tail(s)) /\ Head(s) \notin Range(Tail(s))
  BY <1>2, <1>3, <1>4, <1>5, <1>7, SMT DEF IsInjective, Range
<1> QED
  BY <1>1, <1>6, <1>7

\* A sequence of entries holds entries.
LEMMA HoldsEntries == ASSUME NEW S, NEW s \in Seq(S) PROVE Range(s) \subseteq S
BY RangeOfSeq

(***************************************************************************)
(* Types and the breaker                                                   *)
(***************************************************************************)
\* Every step of the outbox is one call of a method of its breaker, or none.
LEMMA NextCallsBreaker == [Next]_vars => CBStep
<1> SUFFICES ASSUME [Next]_vars PROVE CBStep
  OBVIOUS
<1>1. ASSUME NEW e \in Entries, Submit(e)
      PROVE  CBStep
  BY <1>1, Zenon DEF Submit, SubmitAllow, SubmitDivert, SubmitWriteOk,
     SubmitWriteErr, SubmitSucceed, SubmitFail, SubmitCheck, SubmitAppend,
     SubmitAppendFail, CBStep
<1>2. CASE TryDrain
  BY <1>2, Zenon DEF TryDrain, DrainRead, DrainTruncate, DrainSkip, DrainCall,
     DrainWriteOk, DrainWriteErr, DrainSucceed, DrainFail, DrainLoopEnd,
     DrainRequeue, CBStep
<1>3. CASE DrainTick \/ DrainExit \/ Close \/ CircuitState \/ Pass \/ Flip
  BY <1>3, Zenon DEF DrainTick, DrainExit, Close, CircuitState, Pass, Flip, CBStep
<1>4. CASE UNCHANGED vars
  BY <1>4, Zenon DEF vars, CBStep
<1> QED
  BY <1>1, <1>2, <1>3, <1>4 DEF Next

\* A lost answer is never forgotten, and was possible.
LEMMA SubmitLost ==
    ASSUME TypeOK, NEW e \in Entries, Submit(e)
    PROVE  lost \subseteq lost' /\ lost' \subseteq AckLoss
<1>1. UNCHANGED lost \/ (e \in AckLoss /\ lost' = lost \union {e})
  BY Zenon DEF Submit, SubmitAllow, SubmitDivert, SubmitWriteOk, SubmitWriteErr,
     SubmitSucceed, SubmitFail, SubmitCheck, SubmitAppend, SubmitAppendFail, AnswerLost
<1> QED
  BY <1>1 DEF TypeOK

LEMMA DrainLost ==
    ASSUME TypeOK, TryDrain
    PROVE  lost \subseteq lost' /\ lost' \subseteq AckLoss
<1>1. UNCHANGED lost \/ (Head(batch) \in AckLoss /\ lost' = lost \union {Head(batch)})
  BY Zenon DEF TryDrain, DrainRead, DrainTruncate, DrainSkip, DrainCall, DrainWriteOk,
     DrainWriteErr, DrainSucceed, DrainFail, DrainLoopEnd, DrainRequeue, AnswerLost, subVars
<1> QED
  BY <1>1 DEF TypeOK

\* Every action of Submit keeps the types of the variables it changes.
LEMMA SubmitTypes ==
    ASSUME TypeOK, NEW e \in Entries, Submit(e)
    PROVE  /\ pc' \in [Entries -> SubmitStates]
           /\ delivered' \in [Entries -> 0 .. 2]
           /\ file' \in Seq(Entries)
           /\ UNCHANGED <<drainVars, cancelled, up>>
<1>1. [pc EXCEPT ![e] = "accepted"] \in [Entries -> SubmitStates]
  BY SMT DEF TypeOK, SubmitStates
<1>2. \A s \in SubmitStates : [pc EXCEPT ![e] = s] \in [Entries -> SubmitStates]
  BY SMT DEF TypeOK
<1>3. Applied(e) \in [Entries -> 0 .. 2]
  BY SMT DEF TypeOK, Applied
<1>4. Append(file, e) \in Seq(Entries)
  BY AppendHolds DEF TypeOK
<1>5. CASE SubmitAllow(e) \/ SubmitDivert(e) \/ SubmitSucceed(e) \/ SubmitFail(e)
           \/ SubmitCheck(e) \/ SubmitAppendFail(e)
  <2>1. \E s \in SubmitStates : Goto(e, s)
    BY <1>5, SMT DEF SubmitAllow, SubmitDivert, SubmitSucceed, SubmitFail,
       SubmitCheck, SubmitAppendFail, SubmitStates
  <2> QED
    BY <1>5, <2>1, <1>2, SMT DEF SubmitAllow, SubmitDivert, SubmitSucceed,
       SubmitFail, SubmitCheck, SubmitAppendFail, TypeOK, Goto
<1>6. CASE SubmitWriteOk(e) \/ SubmitWriteErr(e)
  <2>1. /\ Goto(e, "ok") \/ Goto(e, "err")
        /\ delivered' = delivered \/ delivered' = Applied(e)
        /\ UNCHANGED <<file, drainVars, cancelled, up>>
    BY <1>6, Zenon DEF SubmitWriteOk, SubmitWriteErr, AnswerLost
  <2> QED
    BY <2>1, <1>2, <1>3, SMT DEF Goto, SubmitStates, TypeOK
<1>7. CASE SubmitAppend(e)
  BY <1>7, <1>1, <1>4, SMT DEF SubmitAppend, Goto, TypeOK
<1> QED
  BY <1>5, <1>6, <1>7 DEF Submit

\* Every action of tryDrain keeps the types of the variables it changes.
LEMMA DrainTypes ==
    ASSUME TypeOK, Phases, TryDrain
    PROVE  /\ dpc' \in DrainStates
           /\ delivered' \in [Entries -> 0 .. 2]
           /\ file' \in Seq(Entries)
           /\ batch' \in Seq(Entries)
           /\ failed' \in Seq(Entries)
           /\ UNCHANGED <<pc, cancelled, up>>
<1> USE DEF TypeOK
<1>1. <<>> \in Seq(Entries)
  BY EmptySeq
<1>2. batch # <<>> => /\ Head(batch) \in Entries
                      /\ Tail(batch) \in Seq(Entries)
                      /\ Append(failed, Head(batch)) \in Seq(Entries)
                      /\ Applied(Head(batch)) \in [Entries -> 0 .. 2]
  <2> SUFFICES ASSUME batch # <<>>
               PROVE  /\ Head(batch) \in Entries
                      /\ Tail(batch) \in Seq(Entries)
                      /\ Append(failed, Head(batch)) \in Seq(Entries)
                      /\ Applied(Head(batch)) \in [Entries -> 0 .. 2]
    OBVIOUS
  <2>1. Head(batch) \in Entries /\ Tail(batch) \in Seq(Entries)
    BY TailHolds
  <2>2. Append(failed, Head(batch)) \in Seq(Entries)
    BY <2>1, AppendHolds
  <2> QED
    BY <2>1, <2>2, SMT DEF Applied
<1>3. CASE DrainRead
  BY <1>3, SMT DEF DrainRead, subVars, DrainStates
<1>4. CASE DrainTruncate
  BY <1>4, <1>1, SMT DEF DrainTruncate, subVars, DrainStates
<1>5. CASE DrainSkip
  BY <1>5, <1>2, SMT DEF DrainSkip, subVars
<1>6. CASE DrainCall \/ DrainLoopEnd
  BY <1>6, SMT DEF DrainCall, DrainLoopEnd, subVars, DrainStates
<1>7. CASE DrainWriteOk \/ DrainWriteErr
  BY <1>7, <1>2, SMT DEF DrainWriteOk, DrainWriteErr, AnswerLost, DrainStates, Phases
<1>8. CASE DrainSucceed \/ DrainFail
  <2>1. batch # <<>>
    BY <1>8, SMT DEF DrainSucceed, DrainFail, Phases
  <2>2. /\ dpc' = "loop"
        /\ batch' = Tail(batch)
        /\ failed' = failed \/ failed' = Append(failed, Head(batch))
        /\ UNCHANGED <<pc, delivered, file, cancelled, up>>
    <3>1. CASE DrainSucceed
      BY <3>1, SMT DEF DrainSucceed, subVars
    <3>2. CASE DrainFail
      BY <3>2, SMT DEF DrainFail, subVars
    <3> QED
      BY <1>8, <3>1, <3>2
  <2> QED
    BY <2>1, <2>2, <1>2 DEF DrainStates
<1>9. CASE DrainRequeue
  <2>1. failed # <<>>
    BY <1>9 DEF DrainRequeue, Phases
  <2>2. Head(failed) \in Entries /\ Tail(failed) \in Seq(Entries)
    BY <2>1, TailHolds
  <2>3. Append(file, Head(failed)) \in Seq(Entries)
    BY <2>2, AppendHolds
  <2> QED
    BY <1>9, <2>2, <2>3, SMT DEF DrainRequeue, subVars, DrainStates
<1> QED
  BY <1>3, <1>4, <1>5, <1>6, <1>7, <1>8, <1>9 DEF TryDrain

(***************************************************************************)
(* The inductive invariant                                                 *)
(***************************************************************************)
\* Whatever is stored is an entry, and the head of the batch is stored.
LEMMA StoredEntries ==
    ASSUME TypeOK
    PROVE  /\ Stored \subseteq Entries
           /\ batch # <<>> => Head(batch) \in Stored
<1>1. /\ Range(file) \subseteq Entries
      /\ Range(batch) \subseteq Entries
      /\ Range(failed) \subseteq Entries
  BY HoldsEntries DEF TypeOK
<1>2. batch # <<>> => Head(batch) \in Range(batch)
  BY TailHolds DEF TypeOK
<1> QED
  BY <1>1, <1>2 DEF Stored

\* The initial state satisfies the invariant: nothing is stored.
LEMMA InitIndInv == Init => TypeOK /\ CBInv /\ IndInv
<1> SUFFICES ASSUME Init PROVE TypeOK /\ CBInv /\ IndInv
  OBVIOUS
<1>1. CBInv
  BY CBInitInv DEF Init
<1>2. <<>> \in Seq(Entries)
  BY EmptySeq
<1>3. TypeOK
  <2>1. file \in Seq(Entries) /\ batch \in Seq(Entries) /\ failed \in Seq(Entries)
    BY <1>2 DEF Init
  <2>2. /\ pc \in [Entries -> SubmitStates]
        /\ delivered \in [Entries -> 0 .. 2]
        /\ dpc \in DrainStates
    BY SMT DEF Init, SubmitStates, DrainStates
  <2>3. cancelled \in BOOLEAN /\ up \in BOOLEAN /\ lost \subseteq AckLoss
    BY Zenon DEF Init
  <2> QED
    BY <1>1, <2>1, <2>2, <2>3 DEF TypeOK, CBInv
<1>4. Stored = {}
  BY EmptyHolds DEF Init, Stored
<1>5. Phases
  BY SMT DEF Init, Phases
<1>6. OneCopy
  BY EmptyHolds, SMT DEF Init, OneCopy
<1>7. OnlyAcceptedStored /\ NoLoss /\ AppliedWhenOk /\ NotYetApplied
  BY <1>4, SMT DEF Init, OnlyAcceptedStored, NoLoss, AppliedWhenOk, NotYetApplied
<1> QED
  BY <1>1, <1>3, <1>5, <1>6, <1>7 DEF IndInv

\* A submitting goroutine touches its own entry only, which is not stored
\* before the goroutine is done with it.
LEMMA SubmitFrame ==
    ASSUME TypeOK, IndInv, NEW e \in Entries, Submit(e)
    PROVE  /\ pc[e] # "accepted"
           /\ e \notin Stored
           /\ \A d \in Entries : d # e => pc'[d] = pc[d] /\ delivered'[d] = delivered[d]
<1>1. pc[e] # "accepted"
  BY SMT DEF Submit, SubmitAllow, SubmitDivert, SubmitWriteOk, SubmitWriteErr,
     SubmitSucceed, SubmitFail, SubmitCheck, SubmitAppend, SubmitAppendFail
<1>2. e \notin Stored
  BY <1>1 DEF IndInv, OnlyAcceptedStored
<1>3. \E s \in SubmitStates : Goto(e, s)
  BY SMT DEF Submit, SubmitAllow, SubmitDivert, SubmitWriteOk, SubmitWriteErr,
     SubmitSucceed, SubmitFail, SubmitCheck, SubmitAppend, SubmitAppendFail, SubmitStates
<1>4. delivered' = delivered \/ delivered' = Applied(e)
  BY Zenon DEF Submit, SubmitAllow, SubmitDivert, SubmitWriteOk, SubmitWriteErr,
     SubmitSucceed, SubmitFail, SubmitCheck, SubmitAppend, SubmitAppendFail, AnswerLost
<1> QED
  BY <1>1, <1>2, <1>3, <1>4, SMT DEF Goto, Applied, TypeOK

\* What a step of Submit does to its own entry.
LEMMA SubmitEffect ==
    ASSUME TypeOK, IndInv, NEW e \in Entries, Submit(e)
    PROVE  /\ pc'[e] = "accepted" => delivered'[e] > 0 \/ e \in Stored'
           /\ pc'[e] = "ok" => delivered'[e] > 0
           /\ e \in Stored' => pc'[e] = "accepted"
           /\ Stored' \subseteq Stored \union {e} /\ Stored \subseteq Stored'
           /\ e \notin lost' => /\ delivered'[e] <= 1
                                /\ pc'[e] \notin {"ok", "accepted"} => delivered'[e] = 0
                                /\ e \in Stored' => delivered'[e] = 0
<1>1. pc[e] # "accepted" /\ e \notin Stored
  BY SubmitFrame
<1>2. /\ pc[e] = "ok" => delivered[e] > 0
      /\ e \notin lost' => /\ delivered[e] <= 1
                           /\ pc[e] # "ok" => delivered[e] = 0
  BY <1>1, SubmitLost, SMT DEF IndInv, AppliedWhenOk, NotYetApplied
<1>3. \A s \in SubmitStates : Goto(e, s) => pc'[e] = s
  BY SMT DEF Goto, TypeOK
<1>4. Applied(e)[e] = IF delivered[e] = 2 THEN 2 ELSE delivered[e] + 1
  BY SMT DEF Applied, TypeOK
<1>5. delivered[e] \in 0 .. 2
  BY DEF TypeOK
<1>6. CASE SubmitAppend(e)
  <2>1. Stored' = Stored \union {e}
    <3>1. Range(file') = Range(file) \union {e}
      BY <1>6, AppendHolds DEF SubmitAppend, TypeOK
    <3>2. batch' = batch /\ failed' = failed
      BY <1>6, SMT DEF SubmitAppend, drainVars
    <3> QED
      BY <3>1, <3>2 DEF Stored
  <2>2. pc[e] = "append" /\ pc'[e] = "accepted" /\ delivered' = delivered
    BY <1>6, <1>3, SMT DEF SubmitAppend, SubmitStates
  <2> QED
    BY <2>1, <2>2, <1>2, SMT
<1>7. CASE ~SubmitAppend(e)
  <2>1. UNCHANGED <<file, batch, failed>>
    BY <1>7, SMT DEF Submit, SubmitAllow, SubmitDivert, SubmitWriteOk, SubmitWriteErr,
       SubmitSucceed, SubmitFail, SubmitCheck, SubmitAppendFail, drainVars
  <2>2. Stored' = Stored
    BY <2>1, SMT DEF Stored
  <2>3. CASE SubmitWriteOk(e)
    <3>1. pc[e] = "write" /\ pc'[e] = "ok" /\ delivered'[e] = Applied(e)[e]
      BY <2>3, <1>3, SMT DEF SubmitWriteOk, SubmitStates
    <3> QED
      BY <3>1, <2>2, <1>1, <1>2, <1>4, <1>5, SMT
  <2>4. CASE SubmitWriteErr(e)
    <3>1. /\ pc[e] = "write" /\ pc'[e] = "err"
          /\ delivered' = delivered \/ e \in lost'
      BY <2>4, <1>3, SMT DEF SubmitWriteErr, AnswerLost, SubmitStates
    <3> QED
      BY <3>1, <2>2, <1>1, <1>2, <1>5, SMT
  <2>5. CASE SubmitSucceed(e)
    <3>1. pc[e] = "ok" /\ pc'[e] = "accepted" /\ delivered' = delivered
      BY <2>5, <1>3, SMT DEF SubmitSucceed, SubmitStates
    <3> QED
      BY <3>1, <2>2, <1>1, <1>2, SMT
  <2>6. CASE SubmitAllow(e) \/ SubmitDivert(e) \/ SubmitFail(e) \/ SubmitCheck(e)
             \/ SubmitAppendFail(e)
    <3>1. /\ pc[e] # "ok"
          /\ pc'[e] \in {"write", "append", "check", "rejected"}
          /\ delivered' = delivered
      BY <2>6, <1>3, SMT DEF SubmitAllow, SubmitDivert, SubmitFail, SubmitCheck,
         SubmitAppendFail, SubmitStates
    <3> QED
      BY <3>1, <2>2, <1>1, <1>2, SMT
  <2> QED
    BY <1>7, <2>3, <2>4, <2>5, <2>6 DEF Submit
<1> QED
  BY <1>6, <1>7

\* Submit preserves the invariant.
LEMMA SubmitIndInv ==
    ASSUME TypeOK, IndInv, NEW e \in Entries, Submit(e)
    PROVE  IndInv'
<1>1. /\ pc[e] # "accepted"
      /\ e \notin Stored
      /\ \A d \in Entries : d # e => pc'[d] = pc[d] /\ delivered'[d] = delivered[d]
  BY SubmitFrame
<1>2. /\ pc'[e] = "accepted" => delivered'[e] > 0 \/ e \in Stored'
      /\ pc'[e] = "ok" => delivered'[e] > 0
      /\ e \in Stored' => pc'[e] = "accepted"
      /\ Stored' \subseteq Stored \union {e} /\ Stored \subseteq Stored'
      /\ e \notin lost' => /\ delivered'[e] <= 1
                           /\ pc'[e] \notin {"ok", "accepted"} => delivered'[e] = 0
                           /\ e \in Stored' => delivered'[e] = 0
  BY SubmitEffect
<1>3. UNCHANGED <<dpc, batch, failed>>
  BY SubmitTypes DEF drainVars
<1>4. /\ Stored \subseteq Entries
      /\ batch # <<>> => Head(batch) \in Stored
  BY StoredEntries
<1>5. UNCHANGED file \/ (SubmitAppend(e) /\ dpc # "truncate")
  BY SMT DEF Submit, SubmitAllow, SubmitDivert, SubmitWriteOk, SubmitWriteErr,
     SubmitSucceed, SubmitFail, SubmitCheck, SubmitAppend, SubmitAppendFail, Locked
<1>6. Phases'
  BY <1>3, <1>5, SMT DEF IndInv, Phases
<1>7. OnlyAcceptedStored'
  BY <1>1, <1>2, <1>4, SMT DEF IndInv, OnlyAcceptedStored
<1>8. AppliedWhenOk'
  <2>1. dpc = "ok" => Head(batch) \in Entries /\ Head(batch) # e
    BY <1>1, <1>4, SMT DEF IndInv, Phases
  <2> QED
    BY <1>1, <1>2, <1>3, <2>1, SMT DEF IndInv, AppliedWhenOk
<1>9. NoLoss'
  BY <1>1, <1>2, SMT DEF IndInv, NoLoss
<1>10. OneCopy'
  <2>1. CASE UNCHANGED file
    BY <1>3, <2>1, SMT DEF IndInv, OneCopy
  <2>2. CASE SubmitAppend(e) /\ dpc # "truncate"
    <3>1. /\ Range(file') = Range(file) \union {e}
          /\ IsInjective(file) /\ e \notin Range(file) => IsInjective(file')
      BY <2>2, AppendHolds DEF SubmitAppend, TypeOK
    <3>2. e \notin Range(file) /\ e \notin Range(batch) /\ e \notin Range(failed)
      BY <1>1 DEF Stored
    <3> QED
      BY <1>3, <2>2, <3>1, <3>2, SMT DEF IndInv, OneCopy
  <2> QED
    BY <1>5, <2>1, <2>2
<1>11. NotYetApplied'
  <2> SUFFICES ASSUME NEW d \in Entries \ lost'
               PROVE  /\ delivered'[d] <= 1
                      /\ pc'[d] \notin {"ok", "accepted"} => delivered'[d] = 0
                      /\ d \in Stored' =>
                            delivered'[d] = 0 \/ (dpc' = "ok" /\ d = Head(batch'))
    BY DEF NotYetApplied
  <2>1. CASE d = e
    <3>1. e \notin lost'
      BY <2>1
    <3>2. delivered'[e] <= 1
      BY <1>2, <3>1, SMT
    <3>3. pc'[e] \notin {"ok", "accepted"} => delivered'[e] = 0
      BY <1>2, <3>1, SMT
    <3>4. e \in Stored' => delivered'[e] = 0
      BY <1>2, <3>1, Zenon
    <3> QED
      BY <2>1, <3>2, <3>3, <3>4
  <2>2. CASE d # e
    <3>1. pc'[d] = pc[d] /\ delivered'[d] = delivered[d] /\ (d \in Stored' => d \in Stored)
      BY <1>1, <1>2, <2>2
    <3>2. d \notin lost
      BY SubmitLost
    <3> QED
      BY <1>3, <3>1, <3>2 DEF IndInv, NotYetApplied
  <2> QED
    BY <2>1, <2>2
<1> QED
  BY <1>6, <1>7, <1>8, <1>9, <1>10, <1>11 DEF IndInv

\* What a step of tryDrain does to the entries stored: it may let go of one
\* that was applied, and may apply only the head of the batch.
LEMMA DrainEffect ==
    ASSUME TypeOK, IndInv, TryDrain
    PROVE  /\ DrainSucceed \/ Stored' = Stored
           /\ Stored' \subseteq Stored
           /\ \A d \in Stored \ Stored' : delivered'[d] > 0
           /\ \A d \in Entries : delivered[d] > 0 => delivered'[d] > 0
           /\ dpc' = "ok" => delivered'[Head(batch')] > 0
           /\ delivered' # delivered =>
                 /\ dpc = "call" /\ dpc' \in {"ok", "err"} /\ batch' = batch
                 /\ Head(batch) \in lost' \/ dpc' = "ok"
                 /\ delivered' = Applied(Head(batch))
<1> USE DEF TypeOK
<1>1. batch # <<>> => /\ Head(batch) \in Entries
                      /\ Range(batch) = {Head(batch)} \union Range(Tail(batch))
                      /\ Range(Append(failed, Head(batch))) = Range(failed) \union {Head(batch)}
  <2>1. batch # <<>> => /\ Head(batch) \in Entries
                        /\ Range(batch) = {Head(batch)} \union Range(Tail(batch))
    BY TailHolds
  <2> QED
    BY <2>1, AppendHolds
<1>2. \A d, x \in Entries : Applied(x)[d] > 0 <=> delivered[d] > 0 \/ d = x
  BY SMT DEF Applied
<1>3. CASE DrainRead
  <2>1. dpc = "read" /\ dpc' # "ok" /\ delivered' = delivered
    BY <1>3, SMT DEF DrainRead, subVars
  <2>2. Stored' = Stored
    BY <1>3, SMT DEF DrainRead, Stored, IndInv, Phases
  <2> QED
    BY <2>1, <2>2
<1>4. CASE DrainTruncate
  <2>1. dpc' = "loop" /\ delivered' = delivered
    BY <1>4, SMT DEF DrainTruncate, subVars
  <2>2. Stored' = Stored
    BY <1>4, EmptyHolds, SMT DEF DrainTruncate, Stored, IndInv, Phases
  <2> QED
    BY <2>1, <2>2
<1>5. CASE DrainSkip \/ DrainFail
  <2>1. /\ dpc' = "loop" /\ delivered' = delivered
        /\ batch # <<>> /\ batch' = Tail(batch) /\ file' = file
        /\ failed' = Append(failed, Head(batch))
    <3>1. CASE DrainSkip
      BY <3>1, SMT DEF DrainSkip, subVars
    <3>2. CASE DrainFail
      BY <3>2, SMT DEF DrainFail, subVars, IndInv, Phases
    <3> QED
      BY <1>5, <3>1, <3>2
  <2>2. Stored' = Stored
    BY <1>1, <2>1, SMT DEF Stored
  <2> QED
    BY <2>1, <2>2
<1>6. CASE DrainCall \/ DrainLoopEnd
  <2>1. dpc' # "ok" /\ delivered' = delivered /\ UNCHANGED <<file, batch, failed>>
    BY <1>6, SMT DEF DrainCall, DrainLoopEnd, subVars
  <2>2. Stored' = Stored
    BY <2>1, SMT DEF Stored
  <2> QED
    BY <2>1, <2>2
<1>7. CASE DrainWriteOk \/ DrainWriteErr
  <2>1. /\ dpc = "call" /\ dpc' \in {"ok", "err"} /\ UNCHANGED <<file, batch, failed>>
        /\ batch # <<>>
        /\ delivered' = Applied(Head(batch)) \/ (delivered' = delivered /\ dpc' = "err")
        /\ delivered' # delivered => Head(batch) \in lost' \/ dpc' = "ok"
    <3>1. CASE DrainWriteOk
      BY <3>1, SMT DEF DrainWriteOk, IndInv, Phases
    <3>2. CASE DrainWriteErr
      <4>1. /\ dpc = "call" /\ dpc' = "err" /\ UNCHANGED <<file, batch, failed>>
            /\ batch # <<>>
        BY <3>2, SMT DEF DrainWriteErr, IndInv, Phases
      <4>2. delivered' = delivered \/ (Head(batch) \in lost' /\ delivered' = Applied(Head(batch)))
        BY <3>2, Zenon DEF DrainWriteErr, AnswerLost
      <4> QED
        BY <4>1, <4>2
    <3> QED
      BY <1>7, <3>1, <3>2
  <2>2. Stored' = Stored
    BY <2>1, SMT DEF Stored
  <2>3. \A d \in Entries : delivered[d] > 0 => delivered'[d] > 0
    BY <1>1, <1>2, <2>1
  <2>4. dpc' = "ok" => delivered'[Head(batch')] > 0
    BY <1>1, <1>2, <2>1
  <2> QED
    BY <2>1, <2>2, <2>3, <2>4
<1>8. CASE DrainSucceed
  <2>1. /\ dpc' = "loop" /\ delivered' = delivered /\ UNCHANGED <<file, failed>>
        /\ batch # <<>> /\ batch' = Tail(batch)
        /\ delivered[Head(batch)] > 0
    BY <1>8, SMT DEF DrainSucceed, subVars, IndInv, Phases, AppliedWhenOk
  <2>2. Stored' \subseteq Stored /\ Stored \subseteq Stored' \union {Head(batch)}
    BY <1>1, <2>1, SMT DEF Stored
  <2> QED
    BY <1>8, <2>1, <2>2
<1>9. CASE DrainRequeue
  <2>1. failed # <<>>
    BY <1>9 DEF DrainRequeue, IndInv, Phases
  <2>2. Head(failed) \in Entries /\ Range(failed) = {Head(failed)} \union Range(Tail(failed))
    BY <2>1, TailHolds
  <2>3. Range(Append(file, Head(failed))) = Range(file) \union {Head(failed)}
    BY <2>2, AppendHolds
  <2>4. /\ dpc' # "ok" /\ delivered' = delivered /\ batch' = batch
        /\ file' = Append(file, Head(failed)) /\ failed' = Tail(failed)
    BY <1>9, SMT DEF DrainRequeue, subVars
  <2>5. Stored' = Stored
    BY <2>2, <2>3, <2>4, SMT DEF Stored
  <2> QED
    BY <2>4, <2>5
<1> QED
  BY <1>3, <1>4, <1>5, <1>6, <1>7, <1>8, <1>9 DEF TryDrain

\* tryDrain's variables agree with its steps.
LEMMA DrainPhases ==
    ASSUME TypeOK, IndInv, TryDrain
    PROVE  Phases'
<1> USE DEF IndInv, Phases
<1>1. CASE DrainRead
  BY <1>1, SMT DEF DrainRead
<1>2. CASE DrainTruncate
  BY <1>2, SMT DEF DrainTruncate
<1>3. CASE DrainSkip
  BY <1>3, SMT DEF DrainSkip
<1>4. CASE DrainCall
  BY <1>4, SMT DEF DrainCall
<1>5. CASE DrainWriteOk
  BY <1>5, SMT DEF DrainWriteOk
<1>6. CASE DrainWriteErr
  BY <1>6, SMT DEF DrainWriteErr
<1>7. CASE DrainSucceed
  BY <1>7, SMT DEF DrainSucceed
<1>8. CASE DrainFail
  BY <1>8, SMT DEF DrainFail
<1>9. CASE DrainLoopEnd
  BY <1>9, SMT DEF DrainLoopEnd
<1>10. CASE DrainRequeue
  BY <1>10, SMT DEF DrainRequeue
<1> QED
  BY <1>1, <1>2, <1>3, <1>4, <1>5, <1>6, <1>7, <1>8, <1>9, <1>10 DEF TryDrain

\* tryDrain moves entries between the file, the batch and the failed list
\* without ever copying one.
LEMMA DrainOneCopy ==
    ASSUME TypeOK, IndInv, TryDrain
    PROVE  OneCopy'
<1>1. CASE DrainRead \/ DrainCall \/ DrainWriteOk \/ DrainWriteErr \/ DrainLoopEnd
  <2>1. CASE UNCHANGED <<file, batch, failed>> /\ dpc # "truncate"
    BY <2>1, SMT DEF IndInv, OneCopy
  <2>2. CASE UNCHANGED <<file, failed>> /\ failed = <<>> /\ batch' = file /\ dpc' = "truncate"
    BY <2>2, EmptyHolds, SMT DEF IndInv, OneCopy
  <2>3. CASE DrainRead
    BY <2>1, <2>2, <2>3, SMT DEF DrainRead, IndInv, Phases
  <2>4. CASE DrainCall \/ DrainWriteOk \/ DrainWriteErr \/ DrainLoopEnd
    BY <2>1, <2>4, SMT DEF DrainCall, DrainWriteOk, DrainWriteErr, DrainLoopEnd
  <2> QED
    BY <1>1, <2>3, <2>4
<1>2. CASE DrainTruncate
  BY <1>2, EmptyHolds, SMT DEF DrainTruncate, IndInv, OneCopy
<1>3. CASE DrainSkip \/ DrainFail
  <2>1. /\ dpc # "truncate"
        /\ batch # <<>> /\ batch' = Tail(batch) /\ file' = file
        /\ failed' = Append(failed, Head(batch))
    <3>1. CASE DrainSkip
      BY <3>1, SMT DEF DrainSkip
    <3>2. CASE DrainFail
      BY <3>2, SMT DEF DrainFail, IndInv, Phases
    <3> QED
      BY <1>3, <3>1, <3>2
  <2>2. /\ Head(batch) \in Entries
        /\ Range(batch) = {Head(batch)} \union Range(Tail(batch))
        /\ IsInjective(batch) => IsInjective(Tail(batch)) /\ Head(batch) \notin Range(Tail(batch))
    BY <2>1, TailHolds DEF TypeOK
  <2>3. /\ Range(failed') = Range(failed) \union {Head(batch)}
        /\ IsInjective(failed) /\ Head(batch) \notin Range(failed) => IsInjective(failed')
    BY <2>1, <2>2, AppendHolds DEF TypeOK
  <2> QED
    BY <2>1, <2>2, <2>3, SMT DEF IndInv, OneCopy
<1>4. CASE DrainSucceed
  <2>1. /\ dpc # "truncate"
        /\ batch # <<>> /\ batch' = Tail(batch) /\ UNCHANGED <<file, failed>>
    BY <1>4, SMT DEF DrainSucceed, IndInv, Phases
  <2>2. /\ Range(batch) = {Head(batch)} \union Range(Tail(batch))
        /\ IsInjective(batch) => IsInjective(Tail(batch))
    BY <2>1, TailHolds DEF TypeOK
  <2> QED
    BY <2>1, <2>2, SMT DEF IndInv, OneCopy
<1>5. CASE DrainRequeue
  <2>1. /\ batch = <<>> /\ batch' = <<>>
        /\ failed # <<>> /\ failed' = Tail(failed)
        /\ file' = Append(file, Head(failed))
    BY <1>5, SMT DEF DrainRequeue, IndInv, Phases
  <2>2. /\ Head(failed) \in Entries
        /\ Range(failed) = {Head(failed)} \union Range(Tail(failed))
        /\ IsInjective(failed) =>
              IsInjective(Tail(failed)) /\ Head(failed) \notin Range(Tail(failed))
    BY <2>1, TailHolds DEF TypeOK
  <2>3. /\ Range(file') = Range(file) \union {Head(failed)}
        /\ IsInjective(file) /\ Head(failed) \notin Range(file) => IsInjective(file')
    BY <2>1, <2>2, AppendHolds DEF TypeOK
  <2> QED
    BY <2>1, <2>2, <2>3, EmptyHolds, SMT DEF IndInv, OneCopy
<1> QED
  BY <1>1, <1>2, <1>3, <1>4, <1>5 DEF TryDrain

\* tryDrain preserves the invariant.
LEMMA DrainIndInv ==
    ASSUME TypeOK, IndInv, TryDrain
    PROVE  IndInv'
<1>1. /\ Stored' \subseteq Stored
      /\ \A d \in Stored \ Stored' : delivered'[d] > 0
      /\ \A d \in Entries : delivered[d] > 0 => delivered'[d] > 0
      /\ dpc' = "ok" => delivered'[Head(batch')] > 0
      /\ delivered' # delivered =>
            /\ dpc = "call" /\ dpc' \in {"ok", "err"} /\ batch' = batch
            /\ Head(batch) \in lost' \/ dpc' = "ok"
            /\ delivered' = Applied(Head(batch))
  BY DrainEffect
<1>2. pc' = pc
  BY DrainTypes DEF IndInv
<1>3. Stored \subseteq Entries
  BY StoredEntries
<1>4. Phases' /\ OneCopy'
  BY DrainPhases, DrainOneCopy
<1>5. OnlyAcceptedStored'
  BY <1>1, <1>2, SMT DEF IndInv, OnlyAcceptedStored
<1>6. AppliedWhenOk'
  BY <1>1, <1>2, SMT DEF IndInv, AppliedWhenOk
<1>7. NoLoss'
  BY <1>1, <1>2, SMT DEF IndInv, NoLoss
<1>8. NotYetApplied'
  <2> lost \subseteq lost'
    BY DrainLost
  <2>0. CASE delivered' # delivered /\ Head(batch) \in lost'
    <3>1. /\ dpc = "call" /\ batch # <<>> /\ delivered' = Applied(Head(batch))
      BY <1>1, <2>0, SMT DEF IndInv, Phases
    <3>2. Head(batch) \in Entries
      BY <1>3, <3>1, StoredEntries
    <3>3. \A d \in Entries \ lost' : delivered'[d] = delivered[d]
      BY <2>0, <3>1, <3>2, SMT DEF Applied, TypeOK
    <3>4. \A d \in Entries \ lost' : d \in Stored => delivered[d] = 0
      BY <3>1 DEF IndInv, NotYetApplied
    <3>5. \A d \in Entries \ lost' :
              /\ delivered[d] <= 1
              /\ pc[d] \notin {"ok", "accepted"} => delivered[d] = 0
      BY DEF IndInv, NotYetApplied
    <3>6. \A d \in Stored' : d \in Stored
      BY <1>1
    <3> QED
      BY <1>2, <3>3, <3>4, <3>5, <3>6, SMT DEF NotYetApplied
  <2>1. CASE delivered' # delivered /\ Head(batch) \notin lost'
    <3>1. /\ dpc = "call" /\ dpc' = "ok" /\ batch' = batch /\ batch # <<>>
          /\ delivered' = Applied(Head(batch))
      BY <1>1, <2>1, SMT DEF IndInv, Phases
    <3>2. Head(batch) \in Stored /\ Head(batch) \in Entries
      BY <1>3, <3>1, StoredEntries
    <3>3. pc[Head(batch)] = "accepted" /\ delivered[Head(batch)] = 0
      BY <2>1, <3>1, <3>2, SMT DEF IndInv, OnlyAcceptedStored, NotYetApplied
    <3>4. \A d \in Entries : delivered'[d] = IF d = Head(batch) THEN 1 ELSE delivered[d]
      BY <3>1, <3>2, <3>3, SMT DEF Applied, TypeOK
    <3> QED
      BY <1>1, <1>2, <3>1, <3>3, <3>4, SMT DEF IndInv, NotYetApplied
  <2>2. CASE delivered' = delivered /\ dpc = "ok"
    <3>1. DrainSucceed
      BY <2>2, SMT DEF TryDrain, DrainRead, DrainTruncate, DrainSkip, DrainCall,
         DrainWriteOk, DrainWriteErr, DrainFail, DrainLoopEnd, DrainRequeue
    <3>2. /\ batch # <<>> /\ batch' = Tail(batch)
          /\ UNCHANGED <<file, failed>>
      BY <2>2, <3>1, SMT DEF DrainSucceed, IndInv, Phases
    <3>3. /\ Range(batch) = {Head(batch)} \union Range(Tail(batch))
          /\ IsInjective(batch) => Head(batch) \notin Range(Tail(batch))
      BY <3>2, TailHolds DEF TypeOK
    <3>4. Head(batch) \notin Stored'
      BY <2>2, <3>2, <3>3, SMT DEF IndInv, OneCopy, Stored
    <3> QED
      BY <1>1, <1>2, <2>2, <3>4, SMT DEF IndInv, NotYetApplied
  <2>3. CASE delivered' = delivered /\ dpc # "ok"
    BY <1>1, <1>2, <2>3, SMT DEF IndInv, NotYetApplied
  <2> QED
    BY <2>0, <2>1, <2>2, <2>3
<1> QED
  BY <1>4, <1>5, <1>6, <1>7, <1>8 DEF IndInv

\* The steps outside Submit and tryDrain move no entry.
LEMMA QuietIndInv ==
    ASSUME IndInv,
           \/ DrainTick \/ DrainExit \/ Close \/ CircuitState \/ Pass \/ Flip
           \/ UNCHANGED vars
    PROVE  IndInv'
<1>1. /\ UNCHANGED <<pc, file, batch, failed, delivered, lost>>
      /\ \/ dpc' = dpc
         \/ dpc = "idle" /\ dpc' \in {"idle", "read", "exited"}
  <2>1. CASE DrainTick
    BY <2>1, SMT DEF DrainTick, subVars
  <2>2. CASE DrainExit
    BY <2>2, SMT DEF DrainExit, subVars
  <2>3. CASE Close \/ CircuitState \/ Pass \/ Flip \/ UNCHANGED vars
    BY <2>3, SMT DEF Close, CircuitState, Pass, Flip, vars, subVars, drainVars
  <2> QED
    BY <2>1, <2>2, <2>3
<1>2. Stored' = Stored
  BY <1>1, SMT DEF Stored
<1>3. Phases'
  BY <1>1, SMT DEF IndInv, Phases
<1>4. OneCopy'
  BY <1>1, SMT DEF IndInv, OneCopy
<1>5. OnlyAcceptedStored' /\ NoLoss' /\ AppliedWhenOk' /\ NotYetApplied'
  BY <1>1, <1>2, SMT DEF IndInv, OnlyAcceptedStored, NoLoss, AppliedWhenOk, NotYetApplied
<1> QED
  BY <1>3, <1>4, <1>5 DEF IndInv

\* Every step preserves the types.
LEMMA TypeInductive ==
    ASSUME TypeOK, CBInv, IndInv, [Next]_vars
    PROVE  TypeOK'
<1>1. CBTypeOK'
  BY NextCallsBreaker, CBStepInv DEF CBInv
<1>2. ASSUME NEW e \in Entries, Submit(e)
      PROVE  TypeOK'
  BY <1>1, <1>2, SubmitTypes, SubmitLost, SMT DEF TypeOK, drainVars
<1>3. CASE TryDrain
  BY <1>1, <1>3, DrainTypes, DrainLost, SMT DEF TypeOK, IndInv
<1>4. CASE DrainTick \/ DrainExit
  <2>1. dpc' \in DrainStates /\ UNCHANGED <<pc, file, batch, failed, cancelled, delivered, lost, up>>
    BY <1>4, SMT DEF DrainTick, DrainExit, subVars, DrainStates
  <2> QED
    BY <1>1, <2>1, SMT DEF TypeOK
<1>5. CASE Close \/ CircuitState \/ Pass \/ Flip \/ UNCHANGED vars
  <2>1. UNCHANGED <<pc, file, dpc, batch, failed, delivered, lost>>
    BY <1>5, SMT DEF Close, CircuitState, Pass, Flip, vars, subVars, drainVars
  <2>2. cancelled' \in BOOLEAN /\ up' \in BOOLEAN
    BY <1>5, Zenon DEF Close, CircuitState, Pass, Flip, vars, TypeOK
  <2> QED
    BY <1>1, <2>1, <2>2, SMT DEF TypeOK
<1> QED
  BY <1>2, <1>3, <1>4, <1>5 DEF Next

(***************************************************************************)
(* The types, the breaker's invariant and IndInv hold in every state.      *)
(***************************************************************************)
THEOREM OutboxInvariant == Spec => [](TypeOK /\ CBInv /\ IndInv)
<1>1. TypeOK /\ CBInv /\ IndInv /\ [Next]_vars => (TypeOK /\ CBInv /\ IndInv)'
  <2> SUFFICES ASSUME TypeOK, CBInv, IndInv, [Next]_vars
               PROVE  (TypeOK /\ CBInv /\ IndInv)'
    OBVIOUS
  <2>1. CBInv'
    BY NextCallsBreaker, CBStepInv
  <2>2. TypeOK'
    BY TypeInductive
  <2>3. IndInv'
    BY SubmitIndInv, DrainIndInv, QuietIndInv DEF Next
  <2> QED
    BY <2>1, <2>2, <2>3
<1> QED
  BY <1>1, InitIndInv, PTL DEF Spec

(***************************************************************************)
(* Type correctness of the outbox.                                         *)
(***************************************************************************)
THEOREM TypeCorrect == Spec => []TypeOK
BY OutboxInvariant, PTL

(***************************************************************************)
(* No accepted entry is ever lost while the process runs (Submit,          *)
(* tryDrain).                                                              *)
(***************************************************************************)
THEOREM NothingLost == Spec => []NoLoss
<1>1. IndInv => NoLoss
  BY DEF IndInv
<1> QED
  BY <1>1, OutboxInvariant, PTL

(***************************************************************************)
(* A caller that was given an error left nothing behind in the outbox nor, *)
(* unless an answer was lost, in the upstream (Submit).                    *)
(***************************************************************************)
THEOREM RejectedIsClean == Spec => []RejectedLeavesNoTrace
<1>1. TypeOK /\ IndInv => RejectedLeavesNoTrace
  BY SMT DEF IndInv, OnlyAcceptedStored, NotYetApplied, RejectedLeavesNoTrace, TypeOK
<1> QED
  BY <1>1, OutboxInvariant, PTL

(***************************************************************************)
(* The upstream applies an entry at most once, unless an answer about this *)
(* very entry was lost, whatever Submit and the drain do concurrently      *)
(* (tryDrain).                                                             *)
(***************************************************************************)
THEOREM NothingTwice == Spec => []AtMostOnce
<1>1. IndInv => AtMostOnce
  BY DEF IndInv, NotYetApplied, AtMostOnce
<1> QED
  BY <1>1, OutboxInvariant, PTL

(***************************************************************************)
(* When Close returns, every accepted entry that the upstream did not      *)
(* apply is in the file (Close, tryDrain's re-queue).                      *)
(***************************************************************************)
THEOREM CloseLeavesAllOnDisk == Spec => []CloseKeepsEntries
<1>1. IndInv => CloseKeepsEntries
  BY EmptyHolds, SMT DEF IndInv, NoLoss, Phases, Stored, CloseKeepsEntries
<1> QED
  BY <1>1, OutboxInvariant, PTL

(***************************************************************************)
(* PendingCount                                                            *)
(***************************************************************************)
\* A set of positions that is not empty has a first one.
LEMMA FirstPosition ==
    ASSUME NEW n \in Nat, NEW T \in SUBSET (1 .. n), T # {}
    PROVE  \E i \in T : \A j \in 1 .. i - 1 : j \notin T
<1> DEFINE S == {k \in 1 .. n : \A j \in 1 .. k : j \notin T}
           c == Cardinality(S)
<1>1. S \subseteq 1 .. n /\ IsFiniteSet(1 .. n)
  BY FS_Interval, SMT
<1>2. IsFiniteSet(S) /\ c \in Nat
  BY <1>1, FS_Subset, FS_CardinalityType
<1>3. \A k \in S : \A j \in 1 .. k : j \in S
  BY SMT
<1>5. c + 1 \notin S
  <2> SUFFICES ASSUME c + 1 \in S PROVE FALSE
    OBVIOUS
  <2>0. \A k \in Nat : Cardinality(1 .. k) = k
    BY FS_Interval, SMT
  <2>1. 1 .. c + 1 \subseteq S /\ Cardinality(1 .. c + 1) = c + 1
    <3> HIDE DEF S, c
    <3>1. c + 1 \in Nat
      BY <1>2
    <3> QED
      BY <1>3, <2>0, <3>1
  <2>2. Cardinality(1 .. c + 1) <= c
    BY <1>2, <2>1, FS_Subset
  <2> QED
    BY <1>2, <2>1, <2>2, SMT
<1>6. S \subseteq 1 .. c
  <2> SUFFICES ASSUME NEW k \in S, k \notin 1 .. c PROVE FALSE
    OBVIOUS
  <2>1. k \in Nat /\ c + 1 \in 1 .. k
    BY <1>1, <1>2, SMT
  <2> QED
    BY <1>3, <1>5, <2>1
<1>7. 1 .. c \subseteq S
  <2>1. Cardinality(1 .. c) = c /\ IsFiniteSet(1 .. c)
    BY <1>2, FS_Interval, SMT
  <2>2. S = 1 .. c
    BY <1>6, <2>1, FS_Subset
  <2> QED
    BY <2>2
<1> HIDE DEF c
<1>8. \A j \in 1 .. c : j \notin T
  BY <1>1, <1>2, <1>7, SMT
<1>9. c + 1 \in T
  <2>1. PICK i \in T : i \in 1 .. n
    OBVIOUS
  <2>2. i \notin 1 .. c
    BY <1>8, <2>1
  <2>3. c + 1 \in 1 .. n
    BY <1>2, <2>1, <2>2, SMT
  <2>4. PICK j \in 1 .. c + 1 : j \in T
    BY <1>5, <2>3
  <2> QED
    BY <1>2, <1>8, <2>4, SMT
<1> QED
  BY <1>2, <1>8, <1>9, SMT

\* Distinct elements of a finite set make a sequence no longer than the set.
LEMMA DistinctFit ==
    ASSUME NEW S, IsFiniteSet(S), NEW s \in Seq(S), IsInjective(s)
    PROVE  Len(s) <= Cardinality(S)
<1>1. Len(s) \in Nat /\ s \in [1 .. Len(s) -> S]
  BY LenProperties
<1>2. s \in Injection(1 .. Len(s), S)
  BY <1>1 DEF Injection
<1>3. Cardinality(1 .. Len(s)) = Len(s)
  BY <1>1, FS_Interval, SMT
<1> QED
  BY <1>2, <1>3, FS_Injection

\* At most the whole file is counted.
LEMMA CountsLines ==
    ASSUME file \in Seq(Entries)
    PROVE  PendingCount \in Int /\ PendingCount <= Len(file)
<1>1. Len(file) \in Nat /\ DOMAIN file = 1 .. Len(file)
  BY LenProperties
<1>2. CASE Unreadable
  <2> DEFINE T == {i \in 1 .. Len(file) : file[i] \in Oversize}
             First(i) == /\ file[i] \in Oversize
                         /\ \A j \in 1 .. i - 1 : file[j] \notin Oversize
  <2>1. T # {} /\ T \in SUBSET (1 .. Len(file))
    BY <1>1, <1>2 DEF Unreadable, Range
  <2>2. PICK i \in T : \A j \in 1 .. i - 1 : j \notin T
    BY <1>1, <2>1, FirstPosition
  <2>3. i \in 1 .. Len(file) /\ First(i)
    BY <1>1, <2>2, SMT
  <2>4. (CHOOSE k \in 1 .. Len(file) : First(k)) \in 1 .. Len(file)
    BY <2>3, Zenon
  <2>5. PendingCount = (CHOOSE k \in 1 .. Len(file) : First(k)) - 1
    BY <1>2 DEF PendingCount
  <2> HIDE DEF First
  <2> QED
    BY <1>1, <2>4, <2>5, SMT
<1>3. CASE ~Unreadable
  BY <1>1, <1>3, SMT DEF PendingCount
<1> QED
  BY <1>2, <1>3

\* The entries that PendingCount may count.
Countable == {e \in Entries : pc[e] = "accepted" /\ (delivered[e] = 0 \/ e \in lost)}

\* The lines of the file are distinct and countable.
LEMMA LinesCountable ==
    ASSUME TypeOK, IndInv, ~Locked
    PROVE  file \in Seq(Countable) /\ IsInjective(file)
<1>1. file \in [1 .. Len(file) -> Entries] /\ Len(file) \in Nat
  BY LenProperties DEF TypeOK
<1>2. ASSUME NEW i \in 1 .. Len(file) PROVE file[i] \in Countable
  <2>1. file[i] \in Range(file) /\ file[i] \in Entries /\ file[i] \in Stored
    BY <1>1 DEF Range, Stored
  <2>2. pc[file[i]] = "accepted"
    BY <2>1 DEF IndInv, OnlyAcceptedStored
  <2>3. dpc = "ok" => file[i] # Head(batch)
    <3> SUFFICES ASSUME dpc = "ok" PROVE file[i] # Head(batch)
      OBVIOUS
    <3>1. Head(batch) \in Range(batch)
      BY TailHolds DEF IndInv, Phases, TypeOK
    <3>2. Range(file) \intersect Range(batch) = {}
      BY DEF IndInv, OneCopy
    <3> QED
      BY <2>1, <3>1, <3>2
  <2>4. file[i] \in lost \/ delivered[file[i]] = 0
    BY <2>1, <2>3 DEF IndInv, NotYetApplied
  <2> QED
    BY <2>1, <2>2, <2>4 DEF Countable
<1>3. file \in Seq(Countable)
  BY <1>1, <1>2, IsASeq
<1> QED
  BY <1>3 DEF IndInv, OneCopy

\* However many entries there may be, finitely many were accepted so far.
Accepted == {e \in Entries : pc[e] = "accepted"}

LEMMA FinitelyAccepted == Spec => []IsFiniteSet(Accepted)
<1>1. Init => IsFiniteSet(Accepted)
  <2> SUFFICES ASSUME Init PROVE IsFiniteSet(Accepted)
    OBVIOUS
  <2>1. Accepted = {}
    BY SMT DEF Accepted, Init
  <2> QED
    BY <2>1, FS_EmptySet
<1>2. TypeOK /\ IndInv /\ IsFiniteSet(Accepted) /\ [Next]_vars => IsFiniteSet(Accepted)'
  <2> SUFFICES ASSUME TypeOK, IndInv, IsFiniteSet(Accepted), [Next]_vars
               PROVE  IsFiniteSet(Accepted)'
    OBVIOUS
  <2>1. ASSUME NEW e \in Entries, Submit(e) PROVE IsFiniteSet(Accepted)'
    <3>1. Accepted' \subseteq Accepted \union {e}
      BY <2>1, SubmitFrame, Zenon DEF Accepted
    <3>2. IsFiniteSet(Accepted \union {e})
      BY FS_AddElement
    <3> QED
      BY <3>1, <3>2, FS_Subset
  <2>2. ASSUME UNCHANGED pc PROVE IsFiniteSet(Accepted)'
    BY <2>2, Zenon DEF Accepted
  <2>3. CASE TryDrain
    BY <2>2, <2>3, DrainTypes DEF IndInv
  <2>4. CASE DrainTick \/ DrainExit \/ Close \/ CircuitState \/ Pass \/ Flip \/ UNCHANGED vars
    BY <2>2, <2>4, Zenon DEF DrainTick, DrainExit, Close, CircuitState, Pass, Flip, vars, subVars
  <2> QED
    BY <2>1, <2>3, <2>4 DEF Next
<1> QED
  BY <1>1, <1>2, OutboxInvariant, PTL DEF Spec

(***************************************************************************)
(* What PendingCount reports is there, undelivered and counted once, for   *)
(* any number of entries, any of which may be too long for the scanner     *)
(* (PendingCount, tryDrain).                                               *)
(***************************************************************************)
THEOREM CountIsNoFalseAlarm == Spec => []NoFalseAlarm
<1>1. TypeOK /\ IndInv /\ IsFiniteSet(Accepted) => NoFalseAlarm
  <2> SUFFICES ASSUME TypeOK, IndInv, IsFiniteSet(Accepted), ~Locked
               PROVE  PendingCount <= Cardinality(Countable)
    BY Zenon DEF NoFalseAlarm, Countable
  <2>1. IsFiniteSet(Countable)
    BY FS_Subset DEF Countable, Accepted
  <2>2. Len(file) <= Cardinality(Countable)
    BY <2>1, LinesCountable, DistinctFit
  <2>3. PendingCount \in Int /\ PendingCount <= Len(file)
    BY CountsLines DEF TypeOK
  <2>4. Len(file) \in Nat /\ Cardinality(Countable) \in Nat
    <3>1. Len(file) \in Nat
      BY LenProperties DEF TypeOK
    <3>2. Cardinality(Countable) \in Nat
      BY <2>1, FS_CardinalityType
    <3> QED
      BY <3>1, <3>2
  <2> QED
    BY <2>2, <2>3, <2>4, SMT
<1> QED
  BY <1>1, OutboxInvariant, FinitelyAccepted, PTL

(***************************************************************************)
(* Between two batches, and with no line too long for the scanner, the     *)
(* count misses nothing either: it is at least the number of accepted      *)
(* entries the upstream has not applied, and is that number where no       *)
(* acknowledgement is lost.  What PendingCount misses it misses during     *)
(* tryDrain or behind a long line (PendingCount, tryDrain).                *)
(***************************************************************************)
ExactAtRest ==
    dpc \in {"idle", "read", "exited"} /\ ~Unreadable =>
        /\ Cardinality({e \in Entries : pc[e] = "accepted" /\ delivered[e] = 0})
               <= PendingCount
        /\ PendingCount <= Cardinality(Countable)

THEOREM CountIsExactAtRest == Spec => []ExactAtRest
<1> DEFINE Undelivered == {e \in Entries : pc[e] = "accepted" /\ delivered[e] = 0}
<1>1. ASSUME TypeOK, IndInv, NoFalseAlarm,
             dpc \in {"idle", "read", "exited"}, ~Unreadable
      PROVE  Cardinality(Undelivered) <= PendingCount /\ PendingCount <= Cardinality(Countable)
  <2>1. Undelivered \subseteq Range(file)
    <3>1. batch = <<>> /\ failed = <<>>
      BY <1>1, Zenon DEF IndInv, Phases
    <3>2. Stored = Range(file)
      BY <3>1, EmptyHolds, Zenon DEF Stored
    <3>3. ASSUME NEW e \in Undelivered PROVE e \in Stored
      <4>1. delivered[e] \in 0 .. 2 /\ delivered[e] = 0
        BY <1>1, SMT DEF TypeOK
      <4> QED
        BY <1>1, <4>1, SMT DEF IndInv, NoLoss
    <3> QED
      BY <3>2, <3>3
  <2>2. Len(file) \in Nat /\ file \in [1 .. Len(file) -> Entries]
    BY <1>1, LenProperties DEF TypeOK
  <2>3. IsFiniteSet(1 .. Len(file)) /\ Cardinality(1 .. Len(file)) = Len(file)
    BY <2>2, FS_Interval, SMT
  <2>4. file \in Surjection(1 .. Len(file), Range(file))
    BY <2>2, Zenon DEF Surjection, Range
  <2>5. IsFiniteSet(Range(file)) /\ Cardinality(Range(file)) <= Len(file)
    BY <2>3, <2>4, FS_Surjection
  <2>6. Cardinality(Undelivered) <= Cardinality(Range(file)) /\ IsFiniteSet(Undelivered)
    BY <2>1, <2>5, FS_Subset
  <2>7. Cardinality(Undelivered) \in Nat /\ Cardinality(Range(file)) \in Nat
    BY <2>5, <2>6, FS_CardinalityType
  <2>8. PendingCount = Len(file)
    BY <1>1, Zenon DEF PendingCount
  <2>9. PendingCount <= Cardinality(Countable)
    BY <1>1, Zenon DEF NoFalseAlarm, Locked, Countable
  <2> HIDE DEF Undelivered
  <2> QED
    BY <2>2, <2>5, <2>6, <2>7, <2>8, <2>9, SMT
<1>2. TypeOK /\ IndInv /\ NoFalseAlarm => ExactAtRest
  BY <1>1, Zenon DEF ExactAtRest
<1> QED
  BY <1>2, OutboxInvariant, CountIsNoFalseAlarm, PTL

(***************************************************************************)
(* The outbox implements SubmitPromise: breaker, file, lock and drain      *)
(* goroutine together do nothing the promise does not allow.               *)
(***************************************************************************)
\* The mapped variables.
AppliedSet == {e \in Entries : delivered[e] > 0}

\* The verdict changes only where pc does.
LEMMA VerdictOf ==
    ASSUME DOMAIN pc = Entries, NEW e \in Entries, NEW s \in SubmitStates, Goto(e, s),
           pc[e] \notin {"accepted", "rejected"}
    PROVE  /\ Verdict[e] = "pending"
           /\ Verdict' = IF s \in {"accepted", "rejected"}
                            THEN [Verdict EXCEPT ![e] = s]
                            ELSE Verdict
<1> DEFINE Final == {"accepted", "rejected"}
<1>1. Verdict[e] = "pending"
  BY SMT DEF Verdict
<1>2. \A d \in Entries : pc'[d] = IF d = e THEN s ELSE pc[d]
  BY SMT DEF Goto
<1>3. Verdict' = [d \in Entries |-> IF pc'[d] \in Final THEN pc'[d] ELSE "pending"]
  BY DEF Verdict
<1>4. Verdict' = [d \in Entries |->
                    IF d = e /\ s \in Final THEN s ELSE Verdict[d]]
  <2>1. \A d \in Entries : Verdict[d] = IF pc[d] \in Final THEN pc[d] ELSE "pending"
    BY SMT DEF Verdict
  <2>2. ASSUME NEW d \in Entries
        PROVE  (IF pc'[d] \in Final THEN pc'[d] ELSE "pending")
                 = (IF d = e /\ s \in Final THEN s ELSE Verdict[d])
    <3>1. CASE d = e
      BY <1>1, <1>2, <3>1, SMT
    <3>2. CASE d # e
      BY <1>2, <2>1, <3>2, SMT
    <3> QED
      BY <3>1, <3>2
  <2> QED
    BY <1>3, <2>2
<1>5. [Verdict EXCEPT ![e] = s] = [d \in Entries |-> IF d = e THEN s ELSE Verdict[d]]
  <2>1. DOMAIN Verdict = Entries
    BY DEF Verdict
  <2> QED
    BY <2>1
<1>6. CASE s \in Final
  BY <1>1, <1>4, <1>5, <1>6, SMT
<1>7. CASE s \notin Final
  <2>1. \A d \in Entries : (IF pc'[d] \in Final THEN pc'[d] ELSE "pending")
                              = (IF pc[d] \in Final THEN pc[d] ELSE "pending")
    BY <1>2, <1>7, SMT
  <2>2. Verdict' = [d \in Entries |-> IF pc[d] \in Final THEN pc[d] ELSE "pending"]
    BY <1>3, <2>1
  <2>3. Verdict' = Verdict
    BY <2>2 DEF Verdict
  <2> QED
    BY <1>1, <1>7, <2>3
<1> QED
  BY <1>6, <1>7

\* Applying an entry adds it to the set of applied ones.
LEMMA AppliedOf ==
    ASSUME delivered \in [Entries -> 0 .. 2], NEW e \in Entries, delivered' = Applied(e)
    PROVE  AppliedSet' = AppliedSet \union {e}
BY SMT DEF AppliedSet, Applied

\* A step of Submit is a step of the promise.
LEMMA SubmitRefines ==
    ASSUME TypeOK, IndInv, NEW e \in Entries, Submit(e)
    PROVE  [Promise!PromiseNext]_(Promise!promiseVars)
<1> USE DEF Promise!promiseVars, Promise!PromiseNext
<1>0. DOMAIN pc = Entries /\ delivered \in [Entries -> 0 .. 2]
  BY DEF TypeOK
<1>1. /\ pc[e] # "accepted" /\ e \notin Stored
      /\ pc[e] = "ok" => delivered[e] > 0
  BY SubmitFrame DEF IndInv, AppliedWhenOk
<1>2. pc[e] # "rejected"
  BY SMT DEF Submit, SubmitAllow, SubmitDivert, SubmitWriteOk, SubmitWriteErr,
     SubmitSucceed, SubmitFail, SubmitCheck, SubmitAppend, SubmitAppendFail
<1>3. ~SubmitAppend(e) => UNCHANGED <<file, batch, failed>>
  BY SMT DEF Submit, SubmitAllow, SubmitDivert, SubmitWriteOk, SubmitWriteErr,
     SubmitSucceed, SubmitFail, SubmitCheck, SubmitAppendFail, drainVars
<1>4. UNCHANGED <<file, batch, failed>> => Stored' = Stored
  BY SMT DEF Stored
<1>5. delivered' = delivered => AppliedSet' = AppliedSet
  BY SMT DEF AppliedSet
<1>6. ASSUME NEW s \in SubmitStates \ {"accepted", "rejected"}, Goto(e, s),
             delivered' = delivered, Stored' = Stored
      PROVE  UNCHANGED Promise!promiseVars
  BY <1>1, <1>2, <1>5, <1>6, <1>0, VerdictOf, SMT DEF AppliedSet
<1>7. ASSUME NEW s \in SubmitStates \ {"accepted", "rejected"}, Goto(e, s),
             delivered' = Applied(e), Stored' = Stored
      PROVE  Promise!Apply(e)
  <2>1. AppliedSet' = AppliedSet \union {e}
    BY <1>0, <1>7, AppliedOf
  <2>2. Verdict[e] = "pending" /\ Verdict' = Verdict
    BY <1>1, <1>2, <1>7, <1>0, VerdictOf, SMT
  <2> QED
    BY <1>7, <2>1, <2>2 DEF Promise!Apply, AppliedSet
<1>8. ASSUME Goto(e, "rejected"), delivered' = delivered, Stored' = Stored
      PROVE  Promise!Reject(e)
  <2>1. Verdict[e] = "pending" /\ Verdict' = [Verdict EXCEPT ![e] = "rejected"]
    BY <1>1, <1>2, <1>8, <1>0, VerdictOf, SMT DEF SubmitStates
  <2> QED
    BY <1>5, <1>8, <2>1 DEF Promise!Reject, AppliedSet
<1>9. CASE SubmitAppend(e)
  <2>1. Verdict[e] = "pending" /\ Verdict' = [Verdict EXCEPT ![e] = "accepted"]
    BY <1>1, <1>2, <1>9, <1>0, VerdictOf, SMT DEF SubmitStates, SubmitAppend
  <2>2. Range(file') = Range(file) \union {e}
    BY <1>9, AppendHolds DEF SubmitAppend, TypeOK
  <2>3. UNCHANGED <<batch, failed, delivered>>
    BY <1>9, SMT DEF SubmitAppend, drainVars
  <2>4. Stored' = Stored \union {e}
    BY <2>2, <2>3, SMT DEF Stored
  <2>5. Promise!Accept(e)
    BY <1>5, <2>1, <2>3, <2>4 DEF Promise!Accept, AppliedSet
  <2> QED
    BY <2>5
<1>10. CASE SubmitSucceed(e)
  <2>1. Verdict[e] = "pending" /\ Verdict' = [Verdict EXCEPT ![e] = "accepted"]
    BY <1>1, <1>2, <1>10, <1>0, VerdictOf, SMT DEF SubmitStates, SubmitSucceed
  <2>2. delivered' = delivered /\ e \in AppliedSet
    BY <1>1, <1>10, SMT DEF SubmitSucceed, AppliedSet
  <2>3. Stored' = Stored
    BY <1>3, <1>4, <1>10, SMT DEF SubmitSucceed, SubmitAppend
  <2>4. Promise!Accept(e)
    BY <1>5, <2>1, <2>2, <2>3 DEF Promise!Accept, AppliedSet
  <2> QED
    BY <2>4
<1>11. CASE SubmitWriteOk(e) \/ SubmitWriteErr(e)
  <2>1. /\ Goto(e, "ok") \/ Goto(e, "err")
        /\ delivered' = delivered \/ delivered' = Applied(e)
    BY <1>11, Zenon DEF SubmitWriteOk, SubmitWriteErr, AnswerLost
  <2>2. Stored' = Stored
    BY <1>3, <1>4, <1>11, SMT DEF SubmitWriteOk, SubmitWriteErr, SubmitAppend
  <2>3. {"ok", "err"} \subseteq SubmitStates \ {"accepted", "rejected"}
    BY SMT DEF SubmitStates
  <2> QED
    BY <1>6, <1>7, <2>1, <2>2, <2>3
<1>12. CASE SubmitAllow(e) \/ SubmitDivert(e) \/ SubmitFail(e) \/ SubmitCheck(e)
            \/ SubmitAppendFail(e)
  <2>1. /\ \/ Goto(e, "rejected")
           \/ \E s \in SubmitStates \ {"accepted", "rejected"} : Goto(e, s)
        /\ delivered' = delivered
    BY <1>12, SMT DEF SubmitAllow, SubmitDivert, SubmitFail, SubmitCheck,
       SubmitAppendFail, SubmitStates
  <2>2. Stored' = Stored
    BY <1>3, <1>4, <1>12, SMT DEF SubmitAllow, SubmitDivert, SubmitFail,
       SubmitCheck, SubmitAppendFail, SubmitAppend
  <2> QED
    BY <1>6, <1>8, <2>1, <2>2
<1> QED
  BY <1>9, <1>10, <1>11, <1>12 DEF Submit

\* A step of tryDrain is a step of the promise.
LEMMA DrainRefines ==
    ASSUME TypeOK, IndInv, TryDrain
    PROVE  [Promise!PromiseNext]_(Promise!promiseVars)
<1> USE DEF Promise!promiseVars, Promise!PromiseNext
<1>1. /\ DrainSucceed \/ Stored' = Stored
      /\ delivered' # delivered =>
            /\ dpc = "call" /\ dpc' \in {"ok", "err"} /\ batch' = batch
            /\ delivered' = Applied(Head(batch))
  BY DrainEffect
<1>2. Verdict' = Verdict
  <2>1. pc' = pc
    BY DrainTypes DEF IndInv
  <2> QED
    BY <2>1, SMT DEF Verdict
<1>3. batch # <<>> => Head(batch) \in Stored /\ Head(batch) \in Entries
  BY StoredEntries
<1>4. CASE delivered' # delivered
  <2>1. Head(batch) \in Stored /\ Head(batch) \in Entries
    BY <1>1, <1>3, <1>4, SMT DEF IndInv, Phases
  <2>2. AppliedSet' = AppliedSet \union {Head(batch)}
    BY <1>1, <1>4, <2>1, AppliedOf DEF TypeOK
  <2>3. Stored' = Stored
    <3>1. DrainWriteOk \/ DrainWriteErr
      BY <1>4, SMT DEF TryDrain, DrainRead, DrainTruncate, DrainSkip, DrainCall,
         DrainSucceed, DrainFail, DrainLoopEnd, DrainRequeue, subVars
    <3>2. UNCHANGED <<file, batch, failed>>
      BY <3>1, SMT DEF DrainWriteOk, DrainWriteErr
    <3> QED
      BY <3>2, SMT DEF Stored
  <2>4. PICK h \in Entries : h = Head(batch)
    BY <2>1
  <2>5. Promise!Apply(h)
    BY <1>2, <2>1, <2>2, <2>3, <2>4 DEF Promise!Apply, AppliedSet
  <2> QED
    BY <2>5
<1>5. CASE delivered' = delivered /\ Stored' = Stored
  <2>1. AppliedSet' = AppliedSet
    BY <1>5, SMT DEF AppliedSet
  <2> QED
    BY <1>2, <1>5, <2>1 DEF AppliedSet
<1>6. CASE delivered' = delivered /\ DrainSucceed
  <2>1. AppliedSet' = AppliedSet
    BY <1>6, SMT DEF AppliedSet
  <2>2. /\ batch # <<>> /\ batch' = Tail(batch) /\ UNCHANGED <<file, failed>>
        /\ delivered[Head(batch)] > 0 /\ dpc # "truncate"
    BY <1>6, SMT DEF DrainSucceed, IndInv, Phases, AppliedWhenOk
  <2>3. /\ Range(batch) = {Head(batch)} \union Range(Tail(batch))
        /\ IsInjective(batch) => Head(batch) \notin Range(Tail(batch))
    BY <2>2, TailHolds DEF TypeOK
  <2>4. Stored' = Stored \ {Head(batch)}
    BY <2>2, <2>3, SMT DEF IndInv, OneCopy, Stored
  <2>5. Head(batch) \in Stored /\ Head(batch) \in Entries /\ Head(batch) \in AppliedSet
    BY <1>3, <2>2 DEF AppliedSet
  <2>6. Promise!Release({Head(batch)})
    BY <1>2, <2>1, <2>4, <2>5 DEF Promise!Release, AppliedSet
  <2> QED
    BY <2>5, <2>6
<1> QED
  BY <1>1, <1>4, <1>5, <1>6

\* The other steps leave the mapped variables alone.
LEMMA QuietRefines ==
    ASSUME \/ DrainTick \/ DrainExit \/ Close \/ CircuitState \/ Pass \/ Flip
           \/ UNCHANGED vars
    PROVE  UNCHANGED Promise!promiseVars
<1>1. UNCHANGED <<pc, file, batch, failed, delivered>>
  BY SMT DEF DrainTick, DrainExit, Close, CircuitState, Pass, Flip, vars,
     subVars, drainVars
<1>2. Stored' = Stored
  BY <1>1, SMT DEF Stored
<1>3. Verdict' = Verdict
  BY <1>1, SMT DEF Verdict
<1>4. AppliedSet' = AppliedSet
  BY <1>1, SMT DEF AppliedSet
<1> QED
  BY <1>2, <1>3, <1>4 DEF Promise!promiseVars, AppliedSet

\* Nothing has been said, held or applied.
LEMMA PromiseStart == Init => Promise!PromiseInit
<1> SUFFICES ASSUME Init PROVE Promise!PromiseInit
  OBVIOUS
<1>1. Stored = {}
  BY EmptyHolds DEF Init, Stored
<1>2. Verdict = [e \in Entries |-> "pending"]
  BY SMT DEF Init, Verdict
<1>3. {e \in Entries : delivered[e] > 0} = {}
  BY SMT DEF Init
<1> QED
  BY <1>1, <1>2, <1>3 DEF Promise!PromiseInit

(***************************************************************************)
(* The outbox implements SubmitPromise, for every set of entries and every *)
(* breaker configuration, with or without lost acknowledgements.           *)
(***************************************************************************)
THEOREM OutboxKeepsPromise == Spec => KeepsPromise
<1>1. TypeOK /\ CBInv /\ IndInv /\ [Next]_vars
         => [Promise!PromiseNext]_(Promise!promiseVars)
  BY SubmitRefines, DrainRefines, QuietRefines DEF Next
<1> QED
  BY <1>1, PromiseStart, OutboxInvariant, PTL DEF Spec, KeepsPromise, Promise!PromiseSpec

(***************************************************************************)
(* The health checker.  Its invariant holds whatever the outbox does: what *)
(* a Check has found so far was so at some moment since it began.          *)
(***************************************************************************)
IsResult(r) ==
    \E s, u, p, c : r = [status |-> s, upstream |-> u, pending |-> p, circuit |-> c]

\* The conditions of this moment are among those seen.
NowSeen == Conditions(up, PendingCount > 0) \subseteq seen

HealthInv ==
    /\ hpc \in {"idle", "count", "circuit"}
    /\ IsResult(result)
    /\ hpc # "idle" => NowSeen
    /\ hpc = "count" =>
          IF result.status = "ok" THEN "url" \in wired /\ "up" \in seen
                                  ELSE "url" \notin wired \/ "down" \in seen
    /\ hpc = "circuit" => Earns(result.status)

\* What Check does to a Result, field by field.
LEMMA ResultFields ==
    ASSUME NEW r, IsResult(r), NEW x
    PROVE  /\ IsResult([r EXCEPT !.pending = x])
           /\ [r EXCEPT !.pending = x].status = r.status
           /\ IsResult([r EXCEPT !.upstream = x])
           /\ [r EXCEPT !.upstream = x].status = r.status
           /\ [r EXCEPT !.circuit = x].status = r.status
           /\ IsResult([r EXCEPT !.status = x])
           /\ [r EXCEPT !.status = x].status = x
<1>1. PICK s, u, p, c : r = [status |-> s, upstream |-> u, pending |-> p, circuit |-> c]
  BY DEF IsResult
<1>2. /\ [r EXCEPT !.pending = x] = [status |-> s, upstream |-> u, pending |-> x, circuit |-> c]
      /\ [r EXCEPT !.upstream = x] = [status |-> s, upstream |-> x, pending |-> p, circuit |-> c]
      /\ [r EXCEPT !.circuit = x] = [status |-> s, upstream |-> u, pending |-> p, circuit |-> x]
      /\ [r EXCEPT !.status = x] = [status |-> x, upstream |-> u, pending |-> p, circuit |-> c]
  BY <1>1
<1>3. \A a, b, d, e : LET q == [status |-> a, upstream |-> b, pending |-> d, circuit |-> e] IN
          IsResult(q) /\ q.status = a
  BY DEF IsResult
<1> QED
  BY <1>1, <1>2, <1>3

LEMMA DegradeFields ==
    ASSUME NEW r, IsResult(r), NEW cond
    PROVE  /\ IsResult(Degrade(r, cond))
           /\ Degrade(r, cond).status = IF cond THEN "degraded" ELSE r.status
<1>1. CASE cond
  <2>1. Degrade(r, cond) = [r EXCEPT !.status = "degraded"]
    BY <1>1 DEF Degrade
  <2>2. /\ IsResult([r EXCEPT !.status = "degraded"])
        /\ [r EXCEPT !.status = "degraded"].status = "degraded"
    BY ResultFields
  <2> QED
    BY <1>1, <2>1, <2>2, Zenon
<1>2. CASE ~cond
  BY <1>2 DEF Degrade
<1> QED
  BY <1>1, <1>2

LEMMA HealthStart == HealthInit => HealthInv
BY Zenon DEF HealthInit, HealthInv, IsResult, Fresh

LEMMA HealthStep == HealthInv /\ [HealthNext]_checkVars => HealthInv'
<1> SUFFICES ASSUME HealthInv, [HealthNext]_checkVars PROVE HealthInv'
  OBVIOUS
<1>1. ASSUME UNCHANGED vars PROVE up' = up /\ PendingCount' = PendingCount
  <2>1. file' = file /\ up' = up
    BY <1>1, Zenon DEF vars
  <2> QED
    BY <2>1 DEF PendingCount, Unreadable
<1>2. CASE Next /\ UNCHANGED <<wired, hpc, result, report>> /\
           seen' = IF hpc = "idle" THEN {}
                   ELSE seen \union Conditions(up', PendingCount' > 0)
  <2>1. hpc # "idle" => seen \subseteq seen' /\ NowSeen'
    BY <1>2, SMT DEF NowSeen
  <2> QED
    BY <1>2, <2>1, SMT DEF HealthInv, Earns
<1>3. CASE Ping
  <2>1. UNCHANGED vars
    BY <1>3 DEF Ping
  <2>2. hpc' = "count" /\ seen' = Conditions(up, PendingCount > 0) /\ wired' = wired
    BY <1>3 DEF Ping
  <2>3. IsResult(Fresh) /\ Fresh.status = "ok"
    BY DEF IsResult, Fresh
  <2>4. IsResult(result') /\ result'.status = IF ~Answers THEN "degraded" ELSE "ok"
    <3> DEFINE r == [Fresh EXCEPT !.upstream = IF Answers THEN "ok" ELSE "down"]
    <3>1. IsResult(r) /\ r.status = "ok"
      BY <2>3, ResultFields, Zenon
    <3>2. result' = Degrade(r, ~Answers)
      BY <1>3, Zenon DEF Ping
    <3> HIDE DEF r
    <3> QED
      BY <3>1, <3>2, DegradeFields, Zenon
  <2>5. IF up THEN "up" \in seen' ELSE "down" \in seen'
    BY <2>2 DEF Conditions
  <2>6. NowSeen'
    BY <1>1, <2>1, <2>2, Zenon DEF NowSeen
  <2> QED
    BY <2>2, <2>4, <2>5, <2>6 DEF HealthInv, Answers
<1>4. CASE Count
  <2>1. UNCHANGED <<vars, wired, seen>> /\ hpc = "count" /\ hpc' = "circuit"
    BY <1>4 DEF Count
  <2>2. /\ IsResult(result')
        /\ result'.status = IF "counter" \in wired /\ PendingCount > 0
                              THEN "degraded" ELSE result.status
    <3>1. CASE "counter" \in wired
      <4> DEFINE r == [result EXCEPT !.pending = PendingCount]
      <4>1. IsResult(r) /\ r.status = result.status
        BY ResultFields, Zenon DEF HealthInv
      <4>2. result' = Degrade(r, PendingCount > 0)
        BY <1>4, <3>1, Zenon DEF Count
      <4> HIDE DEF r
      <4> QED
        BY <3>1, <4>1, <4>2, DegradeFields, Zenon
    <3>2. CASE "counter" \notin wired
      BY <1>4, <3>2, Zenon DEF Count, HealthInv
    <3> QED
      BY <3>1, <3>2
  <2>3. NowSeen
    BY <2>1 DEF HealthInv
  <2>4. IF PendingCount > 0 THEN "pending" \in seen ELSE "clear" \in seen
    BY <2>3 DEF NowSeen, Conditions
  <2>5. NowSeen'
    BY <1>1, <2>1, <2>3, Zenon DEF NowSeen
  <2>6. Earns(result.status)'
    BY <2>1, <2>2, <2>4 DEF HealthInv, Earns
  <2> QED
    BY <2>1, <2>2, <2>5, <2>6 DEF HealthInv
<1>5. CASE Circuit
  BY <1>5 DEF Circuit, HealthInv
<1>6. CASE UNCHANGED checkVars
  <2>1. UNCHANGED vars /\ UNCHANGED <<wired, hpc, result, seen>>
    BY <1>6, Zenon DEF checkVars, healthVars
  <2>2. NowSeen' = NowSeen
    BY <1>1, <2>1, Zenon DEF NowSeen
  <2> QED
    BY <2>1, <2>2 DEF HealthInv, Earns
<1> QED
  BY <1>2, <1>3, <1>4, <1>5, <1>6 DEF HealthNext

(***************************************************************************)
(* Each part of a health answer was so at some moment while it was made    *)
(* (Check, pingUpstream, PendingCount).                                    *)
(***************************************************************************)
THEOREM AnswersAreEarned == HealthSpec => AnswerIsEarned
<1> DEFINE Earned ==
        (hpc = "circuit" /\ hpc' = "idle") => Earns(report'.status)
<1>1. HealthInv /\ [HealthNext]_checkVars => [Earned]_checkVars
  <2> SUFFICES ASSUME HealthInv, HealthNext, hpc = "circuit", hpc' = "idle" PROVE Earned
    OBVIOUS
  <2>1. Circuit
    BY DEF HealthNext, Ping, Count
  <2>2. report'.status = result.status
    <3>1. report' = [result EXCEPT !.circuit = Settled] \/ report' = result
      BY <2>1, Zenon DEF Circuit
    <3>2. [result EXCEPT !.circuit = Settled].status = result.status
      BY ResultFields, Zenon DEF HealthInv
    <3> QED
      BY <3>1, <3>2, Zenon
  <2> QED
    BY <2>2 DEF HealthInv
<1> HIDE DEF Earned
<1>2. HealthSpec => [][Earned]_checkVars
  BY <1>1, HealthStart, HealthStep, PTL DEF HealthSpec
<1> QED
  BY <1>2 DEF Earned, AnswerIsEarned
=============================================================================

------------------------------ MODULE Requests ------------------------------
(***************************************************************************)
(* The tools of internal/tools/tools.go over one Client of                 *)
(* internal/mem0/client.go: concurrent callers, the service behind them,   *)
(* the Client's metrics collector, and a quota check of the same memories. *)
(* A caller is a run of an agent that tags what it adds with its namespace *)
(* key, as metadata, and knows its memories by it.  DualWriter has the     *)
(* fan-out of writes and SearchCache the contents of the cache.            *)
(***************************************************************************)
EXTENDS Metrics, Quota, Namespace

CONSTANTS
    Chars,    \* the characters that texts are made of
    Callers,  \* agents with a call to a tool at a time
    KeyOf,    \* KeyOf[c]: the namespace key of caller c
    Used,     \* the tools that they call
    Ids,      \* the ids that the service gives to memories
    MaxCalls  \* bound on the calls

Text == Seq(Chars)

Nobody == "nobody"

\* Nothing is assumed of the keys: New takes any parts.
ASSUME CallersAssumption ==
    /\ Slash \in Chars
    /\ IsFiniteSet(Callers)
    /\ IsFiniteSet(Ids)
    /\ MaxCalls \in Nat
    /\ Nobody \notin Callers
    /\ KeyOf \in [Callers -> [AppID : Text, UserID : Text, Namespace : Text, RunID : Text]]

\* The tools: what they call and the arguments that their schema requires.
Tools ==
    [mem0_add      |-> [op |-> "add", required |-> {"text"}],
     mem0_search   |-> [op |-> "search", required |-> {"query"}],
     mem0_get_all  |-> [op |-> "get_all", required |-> {}],
     mem0_update   |-> [op |-> "update", required |-> {"id", "text"}],
     mem0_delete   |-> [op |-> "delete", required |-> {"id"}],
     mem0_history  |-> [op |-> "history", required |-> {"id"}],
     mem0_doctor   |-> [op |-> "doctor", required |-> {}],
     memory_search |-> [op |-> "search", required |-> {"query"}],
     memory_write  |-> [op |-> "add", required |-> {"text"}],
     memory_read   |-> [op |-> "get", required |-> {"id"}]]

\* What the Client passes to timed: every call of a tool but Doctor.
ASSUME OpsAssumption ==
    /\ "doctor" \notin Ops
    /\ "list_entities" \in Ops
    /\ Used \subseteq DOMAIN Tools
    /\ \A t \in DOMAIN Tools : Tools[t].op \in Ops \union {"doctor"}

\* The arguments whose absence the handlers themselves refuse.
Checked(op) ==
    CASE op = "add" -> {"text"} [] op = "search" -> {"query"} [] op = "get" -> {"id"}
      [] OTHER -> {}

NoId == "no id"

VARIABLES
    call,     \* call[c]: the call of caller c
    rows,     \* rows[c]: the memories in the last listing that c received
    live,     \* the memories at the service
    tag,      \* tag[m]: the namespace key's text in the metadata of m
    calls,    \* the calls started, a bound
    cached,   \* the cache holds the answer of a search
    writer,   \* writer[m]: who added m (history)
    returned, \* returned[op]: the calls of op that the service was asked for
    failed    \* and that have returned; failed[op]: with an error (history)

callVars == <<call, rows, calls, cached>>
serviceVars == <<live, tag>>
history == <<writer, returned, failed>>
vars == <<callVars, serviceVars, history, metricsVars, quota>>

Idle == [pc |-> "idle", op |-> "none", id |-> NoId, infer |-> FALSE,
         tries |-> 0, answer |-> "none", applied |-> FALSE]

ToolCalls ==
    [pc : {"idle", "asking", "answered", "backoff", "returned"},
     op : Ops \union {"doctor", "none"}, id : Ids \union {NoId}, infer : BOOLEAN,
     tries : 0 .. 1,
     answer : {"none", "done", "opaque", "lost", "status", "ok", "raw", "err"},
     applied : BOOLEAN]

TypeOK ==
    /\ call \in [Callers -> ToolCalls]
    /\ rows \in [Callers -> SUBSET Ids]
    /\ live \subseteq Ids
    /\ \A m \in Ids : writer[m] # Nobody => Parses(tag[m])
    /\ calls \in 0 .. MaxCalls
    /\ cached \in BOOLEAN

Init ==
    /\ MetricsInit
    /\ QuotaInit
    /\ call = [c \in Callers |-> Idle]
    /\ rows = [c \in Callers |-> {}]
    /\ live = {}
    /\ tag = [m \in Ids |-> <<>>]
    /\ calls = 0
    /\ cached = FALSE
    /\ writer = [m \in Ids |-> Nobody]
    /\ returned = [op \in Ops |-> 0]
    /\ failed = [op \in Ops |-> 0]

(***************************************************************************)
(* A handler up to its request                                             *)
(***************************************************************************)
\* A handler whose arguments lack one that it checks answers with an error
\* and asks for nothing: no step.  An id that is required may be missing.
Call(c) ==
    /\ call[c].pc = "idle"
    /\ calls < MaxCalls
    /\ \E t \in Used, id \in Ids \union {NoId}, infer \in BOOLEAN :
          LET op == Tools[t].op IN
          /\ "id" \notin Tools[t].required => id = NoId
          /\ "id" \in Checked(op) => id # NoId
          /\ infer => op = "add"
          /\ call' = [call EXCEPT ![c] = [Idle EXCEPT
                 !.pc = "asking", !.op = op, !.id = id, !.infer = infer]]
    /\ calls' = calls + 1
    /\ UNCHANGED <<rows, cached, serviceVars, history, metricsVars, quota>>

\* The command line's list-entities is a call of the Client without a tool.
ListEntities(c) ==
    /\ call[c].pc = "idle"
    /\ calls < MaxCalls
    /\ call' = [call EXCEPT ![c] = [Idle EXCEPT !.pc = "asking", !.op = "list_entities"]]
    /\ calls' = calls + 1
    /\ UNCHANGED <<rows, cached, serviceVars, history, metricsVars, quota>>

\* A search that finds its answer in the cache: no request and no record.
SearchHit(c) ==
    /\ call[c].pc = "asking"
    /\ call[c].op = "search"
    /\ cached
    /\ call' = [call EXCEPT ![c] = Idle]
    /\ UNCHANGED <<rows, calls, cached, serviceVars, history, metricsVars, quota>>

(***************************************************************************)
(* The service                                                             *)
(***************************************************************************)
\* A memory that is named must exist; without an id the path is another one.
Possible(k) ==
    k.op \in {"update", "delete", "get", "history"} => k.id \in live

Applied(c) ==
    \/ /\ call[c].op = "add"
       /\ \E m \in {i \in Ids : writer[i] = Nobody} :
             /\ live' = live \union {m}
             /\ tag' = [tag EXCEPT ![m] = KeyString(KeyOf[c])]
             /\ writer' = [writer EXCEPT ![m] = c]
    \/ /\ call[c].op # "add"
       /\ live' = IF call[c].op = "delete" THEN live \ {call[c].id} ELSE live
       /\ UNCHANGED <<tag, writer>>

\* The request is carried out.  Its answer arrives, or arrives and is not an
\* object in JSON (16 MiB is the most that is read), or does not arrive.
Serve(c) ==
    /\ call[c].pc = "asking"
    /\ Possible(call[c])
    /\ Applied(c)
    /\ \E answer \in {"done", "opaque", "lost"} :
          /\ call' = [call EXCEPT ![c] = [@ EXCEPT
                 !.pc = "answered", !.answer = answer, !.applied = TRUE]]
          /\ rows' = IF call[c].op = "get_all" /\ answer = "done"
                        THEN [rows EXCEPT ![c] = live] ELSE rows
    /\ IF quota.pc = "idle" THEN UNCHANGED quota ELSE Notice(Cardinality(live'))
    /\ UNCHANGED <<calls, cached, returned, failed, metricsVars>>

\* It is not: the service is not reached, or answers with an error status, or
\* something in between answers 2xx with a page of its own.
Refuse(c) ==
    /\ call[c].pc = "asking"
    /\ \E answer \in {"lost", "status", "opaque"} :
          call' = [call EXCEPT ![c] = [@ EXCEPT !.pc = "answered", !.answer = answer]]
    /\ UNCHANGED <<rows, calls, cached, serviceVars, history, metricsVars, quota>>

(***************************************************************************)
(* The Client                                                              *)
(***************************************************************************)
\* A bug the properties must see: an error status is decoded as an answer.
SucceededAnyStatus(answer) == answer # "lost"

\* doJSON: any 2xx answer that was read is a success, whatever it holds.
Succeeded(answer) == answer \in {"done", "opaque"}

\* What it returns then: the service's object, or the bytes that did not decode
\* under a status of the Client's own.
Told(answer) == IF answer = "opaque" THEN "raw" ELSE "ok"

\* Add with infer and Doctor try a second time.
Retries(k) == k.tries = 0 /\ (k.op = "doctor" \/ (k.op = "add" /\ k.infer))

\* A failed try that another follows: Doctor's at once, on another path, and
\* Add's after a backoff.
TryAgain(c) ==
    /\ call[c].pc = "answered"
    /\ ~Succeeded(call[c].answer)
    /\ Retries(call[c])
    /\ call' = [call EXCEPT ![c] = [@ EXCEPT
           !.pc = IF call[c].op = "add" THEN "backoff" ELSE "asking", !.tries = 1]]
    /\ UNCHANGED <<rows, calls, cached, serviceVars, history, metricsVars, quota>>

BackoffEnds(c) ==
    /\ call[c].pc = "backoff"
    /\ call' = [call EXCEPT ![c] = [@ EXCEPT !.pc = "asking"]]
    /\ UNCHANGED <<rows, calls, cached, serviceVars, history, metricsVars, quota>>

Returns(c, answer) ==
    /\ call' = [call EXCEPT ![c] = [@ EXCEPT !.pc = "returned", !.answer = answer]]
    /\ returned' = [op \in Ops |-> returned[op] + IF op = call[c].op THEN 1 ELSE 0]
    /\ failed' = [op \in Ops |->
          failed[op] + IF op = call[c].op /\ answer = "err" THEN 1 ELSE 0]
    /\ UNCHANGED <<rows, calls, cached, serviceVars, writer, metricsVars, quota>>

\* The caller gives up during the backoff.
BackoffCancelled(c) == call[c].pc = "backoff" /\ Returns(c, "err")

Return(c) ==
    /\ call[c].pc = "answered"
    /\ \/ Succeeded(call[c].answer) /\ Returns(c, Told(call[c].answer))
       \/ ~Succeeded(call[c].answer) /\ ~Retries(call[c]) /\ Returns(c, "err")

\* A bug the properties must see: a retried call is recorded as failed.
FailureOfAnyTry(k) == k.answer = "err" \/ k.tries > 0

\* The error that timed passes on to the collector.
Failure(k) == k.answer = "err"

\* timed records when its function has returned, Doctor excepted, a search's
\* result is cached, and the handler answers its caller.
Reply(c) ==
    /\ call[c].pc = "returned"
    /\ call' = [call EXCEPT ![c] = Idle]
    /\ cached' = (cached \/ (call[c].op = "search" /\ ~Failure(call[c])))
    /\ \/ call[c].op = "doctor" /\ UNCHANGED metricsVars
       \/ /\ call[c].op # "doctor"
          /\ \E latency \in Latencies : Record(call[c].op, latency, Failure(call[c]))
    /\ UNCHANGED <<rows, calls, serviceVars, history, quota>>

ClientStep(c) ==
    TryAgain(c) \/ BackoffEnds(c) \/ BackoffCancelled(c) \/ Return(c) \/ Reply(c)

(***************************************************************************)
(* The report and the quota check run beside the calls                     *)
(***************************************************************************)
Report == MetricsStep /\ UNCHANGED <<callVars, serviceVars, history, quota>>

CheckQuota ==
    /\ Ask(Cardinality(live)) \/ List(Cardinality(live))
       \/ Judge \/ JudgeOther \/ CheckFails
    /\ UNCHANGED <<callVars, serviceVars, history, metricsVars>>

Next ==
    \/ \E c \in Callers :
          \/ Call(c) \/ ListEntities(c) \/ SearchHit(c)
          \/ Serve(c) \/ Refuse(c)
          \/ ClientStep(c)
    \/ Report
    \/ CheckQuota

Spec == Init /\ [][Next]_vars

(***************************************************************************)
(* The collector counts each call that the service was asked for once,     *)
(* however many tries it took, and as an error exactly when its caller     *)
(* gets one; it lags by the calls between their return and timed's Record, *)
(* and misses hits of the cache and Doctor (timed, Search, Doctor, Add).   *)
(***************************************************************************)
CollectorTellsTheTruth ==
    \A op \in Ops :
        LET late == {c \in Callers : call[c].pc = "returned" /\ call[c].op = op}
            lateErrors == {c \in late : call[c].answer = "err"}
        IN  /\ buckets[op].count + Cardinality(late) = returned[op]
            /\ buckets[op].errors + Cardinality(lateErrors) = failed[op]

(***************************************************************************)
(* A caller that is told by the service that all went well was obeyed: its *)
(* request was carried out by one of its tries, and a memory whose delete  *)
(* succeeded is gone for good (doJSON, Add, Delete, the handlers).  A 2xx  *)
(* answer that does not decode tells nothing, although the Client's status *)
(* of it is "ok"; nor does an error, for its answer may have been lost.    *)
(***************************************************************************)
OkIsTrue ==
    \A c \in Callers :
        (call[c].pc = "returned" /\ call[c].answer = "ok") =>
            /\ call[c].applied
            /\ call[c].op = "delete" => call[c].id \notin live

(***************************************************************************)
(* An agent that filters a listing by its full key finds what its run      *)
(* wrote, if only the run id holds slashes, and nothing of another run,    *)
(* unless that run's key has a slash before its run id and the very text   *)
(* of the agent's own (Key.String, Parse, Matches; the package's promise   *)
(* that runs cannot see each other's state, and where it ends).            *)
(***************************************************************************)
RunsAreIsolated ==
    \A c \in Callers : Full(KeyOf[c]) =>
        \A m \in rows[c] :
            LET key == KeyOf[writer[m]]
                found == Matches(Parsed(tag[m]), KeyOf[c])
            IN  /\ found =>
                       \/ key = KeyOf[c]
                       \/ ~Unslashed(key) /\ KeyString(key) = KeyString(KeyOf[c])
                /\ key = KeyOf[c] /\ Unslashed(key) => found
=============================================================================

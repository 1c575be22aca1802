----------------------------- MODULE DualWriter -----------------------------
(***************************************************************************)
(* Write fan-out of internal/mem0/dualwriter.go over the Client of         *)
(* internal/mem0/client.go: a write goes to the primary synchronously and, *)
(* once the primary confirmed it, to the shadow and the backup in          *)
(* goroutines of their own.  The Client tries an Add with infer=true once  *)
(* more after a fixed backoff, at every target.                            *)
(***************************************************************************)
EXTENDS Integers, FiniteSets

CONSTANTS
    Writes,   \* the calls of Add, Update and Delete
    Infer,    \* those of them that are an Add with infer=true
    Mirrors   \* the targets configured besides the primary

Primary == "primary"
Targets == {Primary} \union Mirrors

ASSUME DualWriterAssumption ==
    /\ Infer \subseteq Writes
    /\ Mirrors \subseteq {"shadow", "backup"}
    /\ IsFiniteSet(Writes)

VARIABLES
    call,     \* call[w]: the caller's view of DualWriter.Add, Update or Delete
    req,      \* req[t][w]: the Client call for w at target t
    applied,  \* applied[t][w]: times t applied w, counted to 2
    last,     \* last[t]: the write t applied last
    stats,    \* stats[m]: dw.stats of mirror m
    alive,    \* the process is running
    overlap   \* a write began before an earlier fan-out had ended (a history)

vars == <<call, req, applied, last, stats, alive, overlap>>

None == "none"

ReqStates == {None, "attempt", "backoff", "retry", "ok", "err", "recorded"}

TypeOK ==
    /\ call \in [Writes -> {"new", "running", "ok", "err"}]
    /\ req \in [Targets -> [Writes -> ReqStates]]
    /\ applied \in [Targets -> [Writes -> 0 .. 2]]
    /\ last \in [Targets -> Writes \union {None}]
    /\ stats \in [Mirrors -> [writes : 0 .. Cardinality(Writes),
                              errors : 0 .. Cardinality(Writes)]]
    /\ alive \in BOOLEAN
    /\ overlap \in BOOLEAN

Init ==
    /\ call = [w \in Writes |-> "new"]
    /\ req = [t \in Targets |-> [w \in Writes |-> None]]
    /\ applied = [t \in Targets |-> [w \in Writes |-> 0]]
    /\ last = [t \in Targets |-> None]
    /\ stats = [m \in Mirrors |-> [writes |-> 0, errors |-> 0]]
    /\ alive = TRUE
    /\ overlap = FALSE

InProgress(m, w) == req[m][w] \notin {None, "recorded"}

Quiet == \A w \in Writes :
            call[w] # "running" /\ \A m \in Mirrors : ~InProgress(m, w)

Goto(t, w, s) == req' = [req EXCEPT ![t][w] = s]

Apply(t, w) ==
    /\ applied' = [applied EXCEPT ![t][w] = IF @ = 2 THEN 2 ELSE @ + 1]
    /\ last' = [last EXCEPT ![t] = w]

(***************************************************************************)
(* One Client call at one target                                           *)
(***************************************************************************)
Running(t, w) == alive /\ req[t][w] \in {"attempt", "retry"}

\* doJSON returns the target's answer.
Answer(t, w) ==
    /\ Running(t, w)
    /\ Apply(t, w)
    /\ Goto(t, w, "ok")
    /\ UNCHANGED <<call, stats, alive, overlap>>

\* A bug the properties must see: every operation is tried again.
FailRetriesAll(t, w) ==
    /\ Running(t, w)
    /\ Apply(t, w) \/ UNCHANGED <<applied, last>>
    /\ Goto(t, w, IF req[t][w] = "attempt" THEN "backoff" ELSE "err")
    /\ UNCHANGED <<call, stats, alive, overlap>>

\* doJSON returns an error: a status, a broken connection, an expired
\* context.  The target may have applied the write all the same.
Fail(t, w) ==
    /\ Running(t, w)
    /\ Apply(t, w) \/ UNCHANGED <<applied, last>>
    /\ Goto(t, w, IF req[t][w] = "attempt" /\ w \in Infer THEN "backoff" ELSE "err")
    /\ UNCHANGED <<call, stats, alive, overlap>>

\* The select of Client.Add: the backoff is over, or the context is.
Backoff(t, w) ==
    /\ alive
    /\ req[t][w] = "backoff"
    /\ Goto(t, w, "retry") \/ Goto(t, w, "err")
    /\ UNCHANGED <<call, applied, last, stats, alive, overlap>>

(***************************************************************************)
(* The DualWriter                                                          *)
(***************************************************************************)
\* A bug the properties must see: the fan-out does not wait for the primary.
EagerStart(w) ==
    /\ alive
    /\ call[w] = "new"
    /\ overlap' = (overlap \/ ~Quiet)
    /\ call' = [call EXCEPT ![w] = "running"]
    /\ req' = [t \in Targets |-> [req[t] EXCEPT ![w] = "attempt"]]
    /\ UNCHANGED <<applied, last, stats, alive>>

Start(w) ==
    /\ alive
    /\ call[w] = "new"
    /\ overlap' = (overlap \/ ~Quiet)
    /\ call' = [call EXCEPT ![w] = "running"]
    /\ Goto(Primary, w, "attempt")
    /\ UNCHANGED <<applied, last, stats, alive>>

\* A bug the properties must see: the caller waits for the mirrors.
ReturnInStep(w) ==
    /\ alive
    /\ call[w] = "running"
    /\ \/ /\ req[Primary][w] = "ok"
          /\ \A m \in Mirrors : req[m][w] = None
          /\ req' = [t \in Targets |->
                        IF t = Primary THEN req[t] ELSE [req[t] EXCEPT ![w] = "attempt"]]
          /\ UNCHANGED call
       \/ /\ req[Primary][w] = "ok"
          /\ \A m \in Mirrors : req[m][w] = "recorded"
          /\ call' = [call EXCEPT ![w] = "ok"]
          /\ UNCHANGED req
       \/ /\ req[Primary][w] = "err"
          /\ call' = [call EXCEPT ![w] = "err"]
          /\ UNCHANGED req
    /\ UNCHANGED <<applied, last, stats, alive, overlap>>

\* The primary's error is returned; its success starts the goroutines of
\* fanOutAsync and is returned.
Return(w) ==
    /\ alive
    /\ call[w] = "running"
    /\ \/ /\ req[Primary][w] = "ok"
          /\ call' = [call EXCEPT ![w] = "ok"]
          /\ req' = [t \in Targets |->
                        IF t = Primary THEN req[t] ELSE [req[t] EXCEPT ![w] = "attempt"]]
       \/ /\ req[Primary][w] = "err"
          /\ call' = [call EXCEPT ![w] = "err"]
          /\ UNCHANGED req
    /\ UNCHANGED <<applied, last, stats, alive, overlap>>

\* A bug the properties must see: an error is counted as a write.
RecordAllAsWrites(m, w) ==
    /\ alive
    /\ req[m][w] \in {"ok", "err"}
    /\ Goto(m, w, "recorded")
    /\ stats' = [stats EXCEPT ![m].writes = @ + 1]
    /\ UNCHANGED <<call, applied, last, alive, overlap>>

\* A bug the properties must see: an error is logged and not counted.
RecordSuccessesOnly(m, w) ==
    /\ alive
    /\ req[m][w] = "ok"
    /\ stats' = [stats EXCEPT ![m].writes = @ + 1]
    /\ Goto(m, w, "recorded")
    /\ UNCHANGED <<call, applied, last, alive, overlap>>

\* The end of asyncWrite, under dw.mu.
Record(m, w) ==
    /\ alive
    /\ \/ req[m][w] = "ok" /\ stats' = [stats EXCEPT ![m].writes = @ + 1]
       \/ req[m][w] = "err" /\ stats' = [stats EXCEPT ![m].errors = @ + 1]
    /\ Goto(m, w, "recorded")
    /\ UNCHANGED <<call, applied, last, alive, overlap>>

\* main returns on a signal, and no goroutine outlives it.
Exit ==
    /\ alive
    /\ alive' = FALSE
    /\ UNCHANGED <<call, req, applied, last, stats, overlap>>

Next ==
    \/ \E w \in Writes : Start(w) \/ Return(w)
    \/ \E t \in Targets, w \in Writes : Answer(t, w) \/ Fail(t, w) \/ Backoff(t, w)
    \/ \E m \in Mirrors, w \in Writes : Record(m, w)
    \/ Exit

Spec == Init /\ [][Next]_vars

Client(t, w) == Answer(t, w) \/ Fail(t, w) \/ Backoff(t, w)

\* A Client call ends: every attempt has the http.Client's timeout and the
\* backoff a timer.  The caller's own goroutine is scheduled.
PrimaryFairness ==
    \A w \in Writes : WF_vars(Client(Primary, w)) /\ WF_vars(Return(w))

\* The goroutines of the fan-out are scheduled too and ShadowTimeout ends their
\* calls.  Only FanOutEnds assumes it: NeverBlocks must hold without.
MirrorFairness ==
    WF_vars(\E m \in Mirrors, w \in Writes : Client(m, w) \/ Record(m, w))

(***************************************************************************)
(* A mirror never gets ahead of the source of truth: it has applied only   *)
(* writes that the primary applied and whose caller was told so (Add,      *)
(* Update, Delete: the early return before fanOutAsync).                   *)
(***************************************************************************)
MirrorsFollowPrimary ==
    \A m \in Mirrors, w \in Writes :
        applied[m][w] > 0 => call[w] = "ok" /\ applied[Primary][w] > 0

(***************************************************************************)
(* Stats can be trusted: when no goroutine is in flight and a mirror has   *)
(* counted no error, it has applied every write the callers were told of;  *)
(* and every fan-out is counted once (asyncWrite).                         *)
(***************************************************************************)
StatsTellTheTruth ==
    \A m \in Mirrors :
        /\ (stats[m].errors = 0 /\ \A w \in Writes : ~InProgress(m, w)) =>
              \A w \in Writes : call[w] = "ok" => applied[m][w] > 0
        /\ stats[m].writes + stats[m].errors
              = Cardinality({w \in Writes : req[m][w] = "recorded"})

(***************************************************************************)
(* Only the retry of an Add with infer=true can make a target apply a      *)
(* write twice (Client.Add after an attempt whose answer was lost).        *)
(***************************************************************************)
TwiceOnlyByInferRetry ==
    \A t \in Targets, w \in Writes : applied[t][w] > 1 => w \in Infer

(***************************************************************************)
(* Callers that let every fan-out end before the next write find the same  *)
(* last write at every target, as long as no call failed; callers that do  *)
(* not wait have no such guarantee: goroutines race (fanOutAsync).         *)
(***************************************************************************)
PacedTargetsAgree ==
    (~overlap /\ Quiet /\ \A w \in Writes : call[w] # "err") =>
        \A m \in Mirrors : stats[m].errors = 0 => last[m] = last[Primary]

(***************************************************************************)
(* A caller gets its answer even if the mirrors never answer, as the       *)
(* README says: shadow and backup writes never block.                      *)
(***************************************************************************)
NeverBlocks ==
    \A w \in Writes : (call[w] = "running") ~> (call[w] \in {"ok", "err"} \/ ~alive)

(***************************************************************************)
(* Every write the caller was told of is attempted and counted at every    *)
(* mirror if goroutines are scheduled and calls end, unless the process    *)
(* exits first (asyncWrite, ShadowTimeout).                                *)
(***************************************************************************)
FanOutEnds ==
    MirrorFairness =>
        \A m \in Mirrors, w \in Writes :
            (call[w] = "ok") ~> (req[m][w] = "recorded" \/ ~alive)
=============================================================================

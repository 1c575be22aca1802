---------------------------- MODULE BreakerCalls ----------------------------
(***************************************************************************)
(* CircuitBreaker.Do called by several goroutines at once.  The lock is    *)
(* released while fn runs, so the results of calls admitted in one state   *)
(* of the breaker are recorded in another.                                 *)
(***************************************************************************)
EXTENDS CircuitBreaker

CONSTANT Callers  \* goroutines that call Do

VARIABLES
    call,     \* call[c]: where goroutine c is in Do
    healthy   \* the service behind fn answers (the environment's choice)

vars == <<cbVars, call, healthy>>

CallStates == {"idle", "running", "succeeded", "failed"}

TypeOK ==
    /\ CBTypeOK
    /\ call \in [Callers -> CallStates]
    /\ healthy \in BOOLEAN

Init ==
    /\ CBInit
    /\ call = [c \in Callers |-> "idle"]
    /\ healthy \in BOOLEAN

Goto(c, s) == call' = [call EXCEPT ![c] = s]

\* Do: AllowRequest answered true; fn starts outside the lock.
Begin(c) ==
    /\ call[c] = "idle"
    /\ Allow
    /\ Goto(c, "running")
    /\ UNCHANGED healthy

\* Do returns ErrCircuitOpen without running fn.
Refused(c) ==
    /\ call[c] = "idle"
    /\ Deny
    /\ UNCHANGED <<call, healthy>>

\* fn returns, with an error exactly when the service is down.
Return(c) ==
    /\ call[c] = "running"
    /\ Goto(c, IF healthy THEN "succeeded" ELSE "failed")
    /\ UNCHANGED <<cbVars, healthy>>

Record(c) ==
    /\ \/ call[c] = "succeeded" /\ RecordSuccess
       \/ call[c] = "failed" /\ RecordFailure
    /\ Goto(c, "idle")
    /\ UNCHANGED healthy

\* Someone reads the state, which may move an open breaker to half-open.
Observe == State /\ UNCHANGED <<call, healthy>>

Pass == Tick /\ UNCHANGED <<call, healthy>>

Flip == healthy' = ~healthy /\ UNCHANGED <<cbVars, call>>

Do(c) == Begin(c) \/ Refused(c) \/ Return(c) \/ Record(c)

Next ==
    \/ \E c \in Callers : Begin(c)
    \/ \E c \in Callers : Refused(c)
    \/ \E c \in Callers : Return(c)
    \/ \E c \in Callers : Record(c)
    \/ Observe
    \/ Pass
    \/ Flip

Spec == Init /\ [][Next]_vars

\* Goroutines keep calling Do and are scheduled, fn returns, time passes.
Fairness ==
    /\ \A c \in Callers : WF_vars(Do(c))
    /\ WF_vars(Pass)

FairSpec == Spec /\ Fairness

(***************************************************************************)
(* A failure recorded while the breaker is half-open, by the probe or by a *)
(* call left over from before the trip, opens it again at once whatever    *)
(* the threshold (circuit_breaker.go RecordFailure).                       *)
(***************************************************************************)
FailedProbeReopens ==
    [][ \A c \in Callers :
            (cbState = "half-open" /\ call[c] = "failed" /\ call'[c] = "idle")
                => cbState' = "open" ]_vars

(***************************************************************************)
(* An open breaker lets nothing through until ResetTimeout has passed      *)
(* since the last failure, unless a call admitted earlier succeeds: the    *)
(* only ways out of "open" are the timeout and a recorded success.         *)
(***************************************************************************)
LeavesOpenForAReason ==
    [][ cbState = "open" /\ cbState' # "open" =>
            \/ cbState' = "half-open" /\ age = Reset
            \/ /\ cbState' = "closed"
               /\ \E c \in Callers : call[c] = "succeeded" /\ call'[c] = "idle" ]_vars

(***************************************************************************)
(* The breaker settles as the service does: once it stays healthy the      *)
(* breaker closes for good, despite late failures of calls that began      *)
(* before; once it stays down "closed" is left for good, though a late     *)
(* success may close it once more (Do, RecordSuccess, RecordFailure).      *)
(***************************************************************************)
FollowsService ==
    /\ <>[]healthy => <>[](cbState = "closed")
    /\ <>[]~healthy => <>[](cbState # "closed")
=============================================================================

--------------------------- MODULE CircuitBreaker ---------------------------
(***************************************************************************)
(* The three-state circuit breaker of internal/outbox/circuit_breaker.go.  *)
(*                                                                         *)
(* cb.mu makes every method one atomic step.  A method is an action over   *)
(* the breaker's variables; the modules that call it conjoin the method    *)
(* with their own state change.  time.Since(lastFailure) is the variable   *)
(* age, in clock ticks: it stops counting at Reset because the code only   *)
(* compares it with ResetTimeout.                                          *)
(***************************************************************************)
EXTENDS Integers

CONSTANTS
    FailureThreshold,  \* CBConfig.FailureThreshold as configured, any int
    ResetTimeout,      \* CBConfig.ResetTimeout as configured, in ticks
    DefaultReset,      \* the 30 s default, in ticks
    CountCap           \* bound on failureCount, which saturates there

Threshold == IF FailureThreshold <= 0 THEN 3 ELSE FailureThreshold

Reset == IF ResetTimeout <= 0 THEN DefaultReset ELSE ResetTimeout

\* The cap must leave room for the comparison failureCount >= Threshold.
ASSUME BreakerAssumption ==
    /\ FailureThreshold \in Int
    /\ ResetTimeout \in Int
    /\ DefaultReset \in Nat \ {0}
    /\ CountCap \in Nat
    /\ CountCap >= Threshold

VARIABLES
    cbState,       \* CircuitBreaker.state
    failureCount,  \* CircuitBreaker.failureCount
    age            \* time since CircuitBreaker.lastFailure

cbVars == <<cbState, failureCount, age>>

CBStates == {"closed", "open", "half-open"}

CBTypeOK ==
    /\ cbState \in CBStates
    /\ failureCount \in 0 .. CountCap
    /\ age \in 0 .. Reset

\* lastFailure starts as the zero time, further back than any timeout.
CBInit ==
    /\ cbState = "closed"
    /\ failureCount = 0
    /\ age = Reset

\* A bug the properties must see: the timeout is taken to have passed early.
ExpiredEarly == age + 1 >= Reset

Expired == age >= Reset

\* What State() returns, and also what it stores: reading an open breaker
\* whose timeout has passed makes it half-open.
Settled == IF cbState = "open" /\ Expired THEN "half-open" ELSE cbState

State ==
    /\ cbState' = Settled
    /\ UNCHANGED <<failureCount, age>>

\* AllowRequest, split by its result: the timeout is tested before an open
\* breaker denies, and a half-open one admits every request.
Allow ==
    /\ Settled # "open"
    /\ cbState' = Settled
    /\ UNCHANGED <<failureCount, age>>

Deny ==
    /\ Settled = "open"
    /\ UNCHANGED cbVars

\* A bug the properties must see: a success resets the count only.
RecordSuccessCountOnly ==
    /\ failureCount' = 0
    /\ UNCHANGED <<cbState, age>>

\* Unconditional: a success closes the breaker whatever its state.
RecordSuccess ==
    /\ cbState' = "closed"
    /\ failureCount' = 0
    /\ UNCHANGED age

\* The code's count has no bound and only its comparison with Threshold is
\* ever used: this abstraction stops counting at a cap that is no lower.
Saturated(n) == IF n > CountCap THEN CountCap ELSE n

\* A bug the properties must see: the breaker trips only when the count hits
\* the threshold exactly, so a failed probe leaves it half-open.
RecordFailureExact ==
    /\ failureCount' = Saturated(failureCount + 1)
    /\ age' = 0
    /\ cbState' = IF failureCount' = Threshold THEN "open" ELSE cbState

\* A bug the properties must see: the failure is counted but never trips.
RecordFailureNoTrip ==
    /\ failureCount' = Saturated(failureCount + 1)
    /\ age' = 0
    /\ UNCHANGED cbState

RecordFailure ==
    /\ failureCount' = Saturated(failureCount + 1)
    /\ age' = 0
    /\ cbState' = IF failureCount' >= Threshold THEN "open" ELSE cbState

\* One tick of the wall clock.
Tick ==
    /\ age < Reset
    /\ age' = age + 1
    /\ UNCHANGED <<cbState, failureCount>>

(***************************************************************************)
(* The breaker is closed exactly while fewer than Threshold failures have  *)
(* been recorded since the last success.  The code never states it; it is  *)
(* what makes a single failed probe reopen a half-open breaker, whose      *)
(* count was never reset (RecordFailure, State and AllowRequest together). *)
(***************************************************************************)
CountMatchesState == (cbState = "closed") <=> (failureCount < Threshold)
=============================================================================

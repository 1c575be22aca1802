------------------------- MODULE BreakerCallsProofs -------------------------
(***************************************************************************)
(* Safety of concurrent calls of CircuitBreaker.Do, for every number of    *)
(* goroutines, every threshold and every timeout.                          *)
(***************************************************************************)
EXTENDS BreakerCalls, CircuitBreakerProofs

\* Every step of the calls is one call of a method of the breaker, or none.
LEMMA NextCallsBreaker == [Next]_vars => CBStep
<1> SUFFICES ASSUME [Next]_vars PROVE CBStep
  OBVIOUS
<1>1. ASSUME NEW c \in Callers, Begin(c) \/ Refused(c) \/ Return(c) \/ Record(c)
      PROVE  CBStep
  BY <1>1, Zenon DEF Begin, Refused, Return, Record, CBStep
<1>2. CASE Observe \/ Pass \/ Flip
  BY <1>2, Zenon DEF Observe, Pass, Flip, CBStep
<1>3. CASE UNCHANGED vars
  BY <1>3, Zenon DEF vars, CBStep
<1> QED
  BY <1>1, <1>2, <1>3 DEF Next

\* The values of all variables stay in their types.
LEMMA TypeInductive == TypeOK /\ CBInv /\ [Next]_vars => TypeOK'
<1> SUFFICES ASSUME TypeOK, CBInv, [Next]_vars PROVE TypeOK'
  OBVIOUS
<1>1. CBTypeOK'
  BY NextCallsBreaker, CBStepInv DEF CBInv
<1> DEFINE Rest == /\ call \in [Callers -> CallStates]
                   /\ healthy \in BOOLEAN
<1>2. Rest'
  <2>1. ASSUME NEW c \in Callers, Begin(c) PROVE Rest'
    BY <2>1, SMT DEF Begin, Goto, TypeOK, CallStates
  <2>2. ASSUME NEW c \in Callers, Refused(c) PROVE Rest'
    BY <2>2, SMT DEF Refused, TypeOK
  <2>3. ASSUME NEW c \in Callers, Return(c) PROVE Rest'
    BY <2>3, SMT DEF Return, Goto, TypeOK, CallStates
  <2>4. ASSUME NEW c \in Callers, Record(c) PROVE Rest'
    BY <2>4, SMT DEF Record, Goto, TypeOK, CallStates
  <2>5. CASE Observe \/ Pass
    BY <2>5, SMT DEF Observe, Pass, TypeOK
  <2>6. CASE Flip
    BY <2>6, SMT DEF Flip, TypeOK
  <2>7. CASE UNCHANGED vars
    BY <2>7, SMT DEF vars, TypeOK
  <2> QED
    BY <2>1, <2>2, <2>3, <2>4, <2>5, <2>6, <2>7 DEF Next
<1> QED
  BY <1>1, <1>2 DEF TypeOK

(***************************************************************************)
(* Types and the count invariant, the inductive invariant of the module.   *)
(***************************************************************************)
THEOREM BreakerInvariant == Spec => [](TypeOK /\ CBInv)
<1>1. Init => TypeOK /\ CBInv
  <2>1. Init => CBInv
    BY CBInitInv DEF Init
  <2>2. Init => TypeOK
    BY <2>1, SMT DEF Init, TypeOK, CBInv, CallStates
  <2> QED
    BY <2>1, <2>2
<1>2. TypeOK /\ CBInv /\ [Next]_vars => (TypeOK /\ CBInv)'
  BY TypeInductive, NextCallsBreaker, CBStepInv
<1> QED
  BY <1>1, <1>2, PTL DEF Spec

(***************************************************************************)
(* The variables have their types.                                         *)
(***************************************************************************)
THEOREM TypeCorrect == Spec => []TypeOK
BY BreakerInvariant, PTL

(***************************************************************************)
(* The breaker is closed exactly while fewer than Threshold failures have  *)
(* been recorded since the last success, whatever calls overlap (Do).      *)
(***************************************************************************)
THEOREM ClosedByCount == Spec => []CountMatchesState
<1>1. CBInv => CountMatchesState
  BY DEF CBInv
<1> QED
  BY <1>1, BreakerInvariant, PTL

(***************************************************************************)
(* A failure recorded in the half-open state reopens the breaker, for any  *)
(* threshold and any number of overlapping calls (RecordFailure).          *)
(***************************************************************************)
THEOREM ProbeFailureReopens == Spec => FailedProbeReopens
<1> DEFINE Reopens ==
      \A c \in Callers :
          (cbState = "half-open" /\ call[c] = "failed" /\ call'[c] = "idle")
              => cbState' = "open"
<1>1. TypeOK /\ CBInv /\ [Next]_vars => [Reopens]_vars
  <2> SUFFICES ASSUME TypeOK, CBInv, Next,
                      NEW c \in Callers,
                      cbState = "half-open", call[c] = "failed", call'[c] = "idle"
               PROVE  cbState' = "open"
    BY Zenon
  <2>1. RecordFailure
    <3>1. call \in [Callers -> CallStates]
      BY DEF TypeOK
    <3>2. ASSUME NEW d \in Callers, Begin(d) \/ Refused(d) \/ Return(d)
          PROVE  FALSE
      BY <3>1, <3>2, SMT DEF Begin, Refused, Return, Goto
    <3>3. ASSUME NEW d \in Callers, Record(d)
          PROVE  RecordFailure
      <4>1. d = c
        BY <3>1, <3>3, SMT DEF Record, Goto
      <4> QED
        BY <3>3, <4>1, Zenon DEF Record
    <3>4. CASE Observe \/ Pass \/ Flip
      BY <3>4, SMT DEF Observe, Pass, Flip
    <3> QED
      BY <3>2, <3>3, <3>4 DEF Next
  <2> QED
    BY <2>1, FailureReopens
<1> QED
  BY <1>1, BreakerInvariant, PTL DEF Spec, FailedProbeReopens

(***************************************************************************)
(* The only ways out of the open state are the elapsed timeout and a       *)
(* success of a call admitted before (State, AllowRequest, RecordSuccess). *)
(***************************************************************************)
THEOREM OpenIsLeftForAReason == Spec => LeavesOpenForAReason
<1> DEFINE Reason ==
      cbState = "open" /\ cbState' # "open" =>
          \/ cbState' = "half-open" /\ age = Reset
          \/ /\ cbState' = "closed"
             /\ \E c \in Callers : call[c] = "succeeded" /\ call'[c] = "idle"
<1>1. TypeOK /\ CBInv /\ [Next]_vars => [Reason]_vars
  <2> SUFFICES ASSUME TypeOK, CBInv, Next, cbState = "open", cbState' # "open"
               PROVE  \/ cbState' = "half-open" /\ age = Reset
                      \/ /\ cbState' = "closed"
                         /\ \E c \in Callers : call[c] = "succeeded" /\ call'[c] = "idle"
    BY Zenon
  <2>1. CBStep
    BY NextCallsBreaker
  <2>2. CASE cbState' = "half-open"
    BY <2>1, <2>2, HalfOpenAfterTimeout
  <2>3. CASE cbState' = "closed"
    <3>1. ASSUME NEW c \in Callers, Begin(c) \/ Refused(c) \/ Return(c)
          PROVE  FALSE
      BY <2>3, <3>1, SMT DEF Begin, Refused, Return, Allow, Deny, Settled, cbVars
    <3>2. ASSUME NEW c \in Callers, Record(c)
          PROVE  call[c] = "succeeded" /\ call'[c] = "idle"
      <4>1. call'[c] = "idle"
        BY <3>2, SMT DEF Record, Goto, TypeOK
      <4>2. ~RecordFailure
        BY <2>3, SMT DEF RecordFailure
      <4> QED
        BY <3>2, <4>1, <4>2, Zenon DEF Record
    <3>3. CASE Observe \/ Pass \/ Flip
      BY <2>3, <3>3, SMT DEF Observe, Pass, Flip, State, Settled, Tick, cbVars
    <3> QED
      BY <2>3, <3>1, <3>2, <3>3, Zenon DEF Next
  <2>4. cbState' \in CBStates
    BY <2>1, CBStepInv DEF CBInv, CBTypeOK
  <2> QED
    BY <2>2, <2>3, <2>4 DEF CBStates
<1> QED
  BY <1>1, BreakerInvariant, PTL DEF Spec, LeavesOpenForAReason
=============================================================================

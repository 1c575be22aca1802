------------------------ MODULE CircuitBreakerProofs ------------------------
(***************************************************************************)
(* Facts about the breaker's methods that the proofs of the modules that   *)
(* call them cite: the types, the invariant that every method preserves,   *)
(* and what a failure recorded outside the closed state does.              *)
(***************************************************************************)
EXTENDS CircuitBreaker, TLAPS

\* One call of any method of the breaker, a tick, or nothing.
CBStep ==
    \/ State
    \/ Allow
    \/ Deny
    \/ RecordSuccess
    \/ RecordFailure
    \/ Tick
    \/ UNCHANGED cbVars

CBInv == CBTypeOK /\ CountMatchesState

\* The defaults of applyDefaults make both parameters positive.
LEMMA ParametersPositive ==
    /\ Threshold \in Nat /\ Threshold >= 1
    /\ Reset \in Nat /\ Reset >= 1
BY BreakerAssumption, SMT DEF Threshold, Reset

(***************************************************************************)
(* The cap on failureCount hides nothing: it commutes with the increment,  *)
(* and a capped count passes the threshold exactly when the code's own     *)
(* unbounded count does (RecordFailure).                                   *)
(***************************************************************************)
THEOREM CapIsHarmless ==
    ASSUME NEW n \in Nat
    PROVE  /\ Saturated(Saturated(n) + 1) = Saturated(n + 1)
           /\ (Saturated(n) >= Threshold) <=> (n >= Threshold)
           /\ Saturated(n) \in 0 .. CountCap
BY ParametersPositive, BreakerAssumption, SMT DEF Saturated

\* NewCircuitBreaker establishes the breaker's invariant.
LEMMA CBInitInv == CBInit => CBInv
BY ParametersPositive, BreakerAssumption, SMT
   DEF CBInit, CBInv, CBTypeOK, CBStates, CountMatchesState

\* Every method of the breaker preserves its invariant.
LEMMA CBStepInv == CBInv /\ CBStep => CBInv'
<1> SUFFICES ASSUME CBInv, CBStep PROVE CBInv'
  OBVIOUS
<1> USE ParametersPositive, BreakerAssumption
        DEF CBInv, CBTypeOK, CBStates, CountMatchesState
<1>1. CASE State
  BY <1>1, SMT DEF State, Settled
<1>2. CASE Allow
  BY <1>2, SMT DEF Allow, Settled
<1>3. CASE RecordSuccess
  BY <1>3, SMT DEF RecordSuccess
<1>4. CASE RecordFailure
  BY <1>4, SMT DEF RecordFailure, Saturated
<1>5. CASE Tick
  BY <1>5, SMT DEF Tick
<1>6. CASE Deny \/ UNCHANGED cbVars
  BY <1>6, SMT DEF Deny, cbVars
<1> QED
  BY <1>1, <1>2, <1>3, <1>4, <1>5, <1>6 DEF CBStep

\* A failure recorded while the breaker is not closed leaves it open: the
\* count was not reset on the way from open to half-open.
LEMMA FailureReopens ==
    CBInv /\ cbState # "closed" /\ RecordFailure => cbState' = "open"
BY ParametersPositive, BreakerAssumption, SMT
   DEF CBInv, CBTypeOK, CountMatchesState, RecordFailure, Saturated

\* An open breaker that ends up half-open has waited for the whole timeout.
LEMMA HalfOpenAfterTimeout ==
    ASSUME CBInv, CBStep, cbState = "open", cbState' = "half-open"
    PROVE  age = Reset
<1>1. CBTypeOK BY DEF CBInv
<1>2. State \/ Allow
  BY SMT DEF CBStep, Deny, RecordSuccess, RecordFailure, Tick, cbVars
<1> QED
  BY <1>1, <1>2, ParametersPositive, SMT DEF State, Allow, Settled, Expired, CBTypeOK
=============================================================================

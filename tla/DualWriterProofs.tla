-------------------------- MODULE DualWriterProofs --------------------------
(***************************************************************************)
(* Safety of the write fan-out, for every finite set of writes and every   *)
(* choice of mirrors, and what the reads beside it may show, for every set *)
(* of readers.                                                             *)
(***************************************************************************)
EXTENDS DualReads, FiniteSetTheorems, TLAPS

(***************************************************************************)
(* The inductive invariant.                                                *)
(***************************************************************************)
\* TypeOK but for the bounds on the counters, which follow from Counted.
Types ==
    /\ call \in [Writes -> {"new", "running", "ok", "err"}]
    /\ req \in [Targets -> [Writes -> ReqStates]]
    /\ applied \in [Targets -> [Writes -> 0 .. 2]]
    /\ last \in [Targets -> Writes \union {None}]
    /\ stats \in [Mirrors -> [writes : Nat, errors : Nat]]
    /\ alive \in BOOLEAN
    /\ overlap \in BOOLEAN

\* A mirror is called exactly for the writes whose caller was told "ok", which
\* are writes the primary has answered.
MirrorsCalledOnOk ==
    \A w \in Writes :
        /\ call[w] = "new" => req[Primary][w] = None
        /\ call[w] = "ok" => req[Primary][w] = "ok"
        /\ \A m \in Mirrors : call[w] = "ok" <=> req[m][w] # None

\* What the state of a Client call says of the target.
CallsTell ==
    \A t \in Targets, w \in Writes :
        /\ req[t][w] = "ok" => applied[t][w] > 0
        /\ applied[t][w] > 0 => req[t][w] # None

\* Without infer there is one attempt.
OneAttempt ==
    \A t \in Targets, w \in Writes \ Infer :
        /\ req[t][w] \notin {"backoff", "retry"}
        /\ req[t][w] = "attempt" => applied[t][w] = 0
        /\ applied[t][w] <= 1

Recorded(m) == {w \in Writes : req[m][w] = "recorded"}

Counted ==
    \A m \in Mirrors : stats[m].writes + stats[m].errors = Cardinality(Recorded(m))

ErrorsCounted ==
    \A m \in Mirrors, w \in Writes :
        (stats[m].errors = 0 /\ req[m][w] = "recorded") => applied[m][w] > 0

DualInv ==
    /\ Types
    /\ MirrorsCalledOnOk
    /\ CallsTell
    /\ OneAttempt
    /\ Counted
    /\ ErrorsCounted

(***************************************************************************)
(* What the steps do, point by point.                                      *)
(***************************************************************************)
\* The primary is not one of the mirrors, which are targets.
LEMMA PrimaryIsNoMirror ==
    /\ Primary \in Targets
    /\ Primary \notin Mirrors
    /\ \A m \in Mirrors : m \in Targets
    /\ \A t \in Targets : t # Primary => t \in Mirrors
BY DualWriterAssumption, SMT DEF Primary, Targets

\* A step of one call changes that call alone.
LEMMA GotoOne ==
    ASSUME Types, NEW t \in Targets, NEW w \in Writes, NEW s \in ReqStates,
           Goto(t, w, s)
    PROVE  /\ req' \in [Targets -> [Writes -> ReqStates]]
           /\ \A u \in Targets, v \in Writes :
                  req'[u][v] = IF u = t /\ v = w THEN s ELSE req[u][v]
BY SMT DEF Types, Goto

\* Applying a write changes one count, and upwards.
LEMMA ApplyOne ==
    ASSUME Types, NEW t \in Targets, NEW w \in Writes, Apply(t, w)
    PROVE  /\ applied' \in [Targets -> [Writes -> 0 .. 2]]
           /\ last' \in [Targets -> Writes \union {None}]
           /\ \A u \in Targets, v \in Writes :
                  applied'[u][v] = IF u = t /\ v = w
                                      THEN (IF applied[u][v] = 2 THEN 2 ELSE applied[u][v] + 1)
                                      ELSE applied[u][v]
BY SMT DEF Types, Apply

\* One step of a Client call: the call moves on, and the target has applied the
\* write once more or not.
Moves(t, w, s) ==
    /\ req' \in [Targets -> [Writes -> ReqStates]]
    /\ \A u \in Targets, v \in Writes :
           req'[u][v] = IF u = t /\ v = w THEN s ELSE req[u][v]

Applies(t, w) ==
    /\ applied' \in [Targets -> [Writes -> 0 .. 2]]
    /\ last' \in [Targets -> Writes \union {None}]
    /\ \A u \in Targets, v \in Writes :
           u # t \/ v # w => applied'[u][v] = applied[u][v]
    /\ applied'[t][w] \in applied[t][w] .. applied[t][w] + 1

\* An applied write is one more than before, or as many as are counted.
LEMMA ApplyApplies ==
    ASSUME Types, NEW t \in Targets, NEW w \in Writes, Apply(t, w)
    PROVE  Applies(t, w) /\ applied'[t][w] > 0
<1>1. /\ applied' \in [Targets -> [Writes -> 0 .. 2]]
      /\ last' \in [Targets -> Writes \union {None}]
      /\ \A u \in Targets, v \in Writes :
            u # t \/ v # w => applied'[u][v] = applied[u][v]
  BY ApplyOne
<1>2. applied'[t][w] = IF applied[t][w] = 2 THEN 2 ELSE applied[t][w] + 1
  BY ApplyOne
<1>3. applied[t][w] \in 0 .. 2
  BY DEF Types
<1>4. applied'[t][w] \in applied[t][w] .. applied[t][w] + 1 /\ applied'[t][w] > 0
  BY <1>2, <1>3, SMT
<1> QED
  BY <1>1, <1>4 DEF Applies

\* The steps of a Client call are all of the same shape.
LEMMA ClientStep ==
    ASSUME Types, NEW t \in Targets, NEW w \in Writes, Client(t, w)
    PROVE  /\ UNCHANGED <<call, stats, alive, overlap>>
           /\ Applies(t, w)
           /\ \E s \in ReqStates :
                /\ Moves(t, w, s)
                /\ req[t][w] \in {"attempt", "backoff", "retry"}
                /\ s \in {"ok", "err", "backoff", "retry"}
                /\ s = "ok" => applied'[t][w] > 0
                /\ s = "backoff" => w \in Infer
                /\ s = "retry" => req[t][w] = "backoff"
                /\ req[t][w] = "backoff" => applied'[t][w] = applied[t][w]
<1>1. CASE Answer(t, w)
  <2>1. Goto(t, w, "ok") /\ "ok" \in ReqStates /\ Apply(t, w)
    BY <1>1 DEF Answer, ReqStates
  <2>2. Moves(t, w, "ok")
    BY <2>1, GotoOne DEF Moves
  <2>3. Applies(t, w) /\ applied'[t][w] > 0
    BY <2>1, ApplyApplies
  <2> QED
    BY <1>1, <2>1, <2>2, <2>3 DEF Answer, Running
<1>2. CASE Fail(t, w)
  <2> DEFINE s == IF req[t][w] = "attempt" /\ w \in Infer THEN "backoff" ELSE "err"
  <2>1. Goto(t, w, s) /\ s \in ReqStates
    BY <1>2 DEF Fail, ReqStates
  <2>2. Moves(t, w, s)
    BY <2>1, GotoOne DEF Moves
  <2>3. Applies(t, w)
    <3>1. CASE Apply(t, w)
      BY <3>1, ApplyApplies
    <3>2. CASE UNCHANGED <<applied, last>>
      BY <3>2, SMT DEF Applies, Types
    <3> QED
      BY <1>2, <3>1, <3>2 DEF Fail
  <2> QED
    BY <1>2, <2>1, <2>2, <2>3 DEF Fail, Running
<1>3. CASE Backoff(t, w)
  <2>1. PICK s \in {"retry", "err"} : Goto(t, w, s)
    BY <1>3 DEF Backoff
  <2>2. Moves(t, w, s) /\ s \in ReqStates
    BY <2>1, GotoOne DEF Moves, ReqStates
  <2>3. Applies(t, w) /\ applied'[t][w] = applied[t][w]
    BY <1>3, SMT DEF Backoff, Applies, Types
  <2> QED
    BY <1>3, <2>1, <2>2, <2>3 DEF Backoff
<1> QED
  BY <1>1, <1>2, <1>3 DEF Client

(***************************************************************************)
(* Each action preserves the invariant.                                    *)
(***************************************************************************)
\* The counts of applications are numbers.
LEMMA Counts ==
    ASSUME Types, NEW t \in Targets, NEW w \in Writes
    PROVE  applied[t][w] \in 0 .. 2
BY DEF Types

\* A step that counts nothing and records nothing keeps the counters right.
LEMMA NothingRecorded ==
    ASSUME Counted, UNCHANGED stats,
           \A m \in Mirrors, v \in Writes :
               req'[m][v] = "recorded" <=> req[m][v] = "recorded"
    PROVE  Counted'
<1>1. ASSUME NEW m \in Mirrors PROVE Recorded(m)' = Recorded(m)
  BY Zenon DEF Recorded
<1> QED
  BY <1>1, Zenon DEF Counted

\* A call at the primary or at a mirror moves on.
LEMMA ClientKeeps ==
    ASSUME DualInv, NEW t \in Targets, NEW w \in Writes, Client(t, w)
    PROVE  DualInv'
<1> USE PrimaryIsNoMirror DEF DualInv
<1>1. /\ UNCHANGED <<call, stats, alive, overlap>>
      /\ Applies(t, w)
  BY ClientStep
<1>2. PICK s \in ReqStates :
        /\ Moves(t, w, s)
        /\ req[t][w] \in {"attempt", "backoff", "retry"}
        /\ s \in {"ok", "err", "backoff", "retry"}
        /\ s = "ok" => applied'[t][w] > 0
        /\ s = "backoff" => w \in Infer
        /\ s = "retry" => req[t][w] = "backoff"
        /\ req[t][w] = "backoff" => applied'[t][w] = applied[t][w]
  BY ClientStep
<1>3. Types'
  BY <1>1, <1>2 DEF Types, Applies, Moves
<1>4. MirrorsCalledOnOk'
  BY <1>1, <1>2, SMT DEF MirrorsCalledOnOk, Moves, None
<1>5. CallsTell'
  <2> SUFFICES ASSUME NEW u \in Targets, NEW v \in Writes
               PROVE  /\ req'[u][v] = "ok" => applied'[u][v] > 0
                      /\ applied'[u][v] > 0 => req'[u][v] # None
    BY DEF CallsTell
  <2>1. CASE u = t /\ v = w
    BY <1>2, <2>1 DEF Moves, None
  <2>2. CASE u # t \/ v # w
    <3>1. req'[u][v] = req[u][v]
      BY <1>2, <2>2 DEF Moves
    <3>2. applied'[u][v] = applied[u][v]
      BY <1>1, <2>2 DEF Applies
    <3> QED
      BY <3>1, <3>2 DEF CallsTell
  <2> QED
    BY <2>1, <2>2
<1>6. OneAttempt'
  <2> SUFFICES ASSUME NEW u \in Targets, NEW v \in Writes \ Infer
               PROVE  /\ req'[u][v] \notin {"backoff", "retry"}
                      /\ req'[u][v] = "attempt" => applied'[u][v] = 0
                      /\ applied'[u][v] <= 1
    BY DEF OneAttempt
  <2>1. CASE u = t /\ v = w
    <3>1. req[t][w] = "attempt" /\ applied[t][w] = 0
      BY <1>2, <2>1 DEF OneAttempt
    <3>2. applied'[t][w] \in 0 .. 1
      BY <1>1, <3>1, SMT DEF Applies
    <3>3. req'[u][v] = s /\ s \in {"ok", "err"}
      BY <1>2, <2>1, <3>1 DEF Moves
    <3> QED
      BY <2>1, <3>2, <3>3, SMT
  <2>2. CASE u # t \/ v # w
    <3>1. req'[u][v] = req[u][v]
      BY <1>2, <2>2 DEF Moves
    <3>2. applied'[u][v] = applied[u][v]
      BY <1>1, <2>2 DEF Applies
    <3> QED
      BY <3>1, <3>2 DEF OneAttempt
  <2> QED
    BY <2>1, <2>2
<1>7. Counted'
  BY <1>1, <1>2, NothingRecorded, SMT DEF Moves
<1>8. ErrorsCounted'
  BY <1>1, <1>2 DEF ErrorsCounted, Moves, Applies
<1> QED
  BY <1>3, <1>4, <1>5, <1>6, <1>7, <1>8

\* A write begins at the primary.
LEMMA StartKeeps ==
    ASSUME DualInv, NEW w \in Writes, Start(w)
    PROVE  DualInv'
<1> USE PrimaryIsNoMirror DEF DualInv
<1>1. Moves(Primary, w, "attempt")
  BY GotoOne DEF Start, Moves, ReqStates
<1>2. /\ call[w] = "new"
      /\ call' = [call EXCEPT ![w] = "running"]
      /\ UNCHANGED <<applied, last, stats, alive>>
  BY DEF Start
<1>3. Types'
  <2>1. call' \in [Writes -> {"new", "running", "ok", "err"}]
    BY <1>2 DEF Types
  <2>2. overlap' \in BOOLEAN
    BY Zenon DEF Start, Types
  <2> QED
    BY <1>1, <1>2, <2>1, <2>2 DEF Types, Moves
<1>4. \A v \in Writes : call'[v] = IF v = w THEN "running" ELSE call[v]
  BY <1>2 DEF Types
<1>5. MirrorsCalledOnOk'
  BY <1>1, <1>2, <1>4, SMT DEF MirrorsCalledOnOk, Moves, None
<1>6. CallsTell'
  BY <1>1, <1>2, SMT DEF CallsTell, Moves, None
<1>7. OneAttempt'
  <2>1. applied[Primary][w] = 0
    <3>1. req[Primary][w] = None
      BY <1>2 DEF MirrorsCalledOnOk
    <3>2. ~(applied[Primary][w] > 0)
      BY <3>1 DEF CallsTell
    <3> QED
      BY <3>2, Counts, SMT
  <2> QED
    BY <1>1, <1>2, <2>1 DEF OneAttempt, Moves
<1>8. Counted'
  BY <1>1, <1>2, NothingRecorded, SMT DEF Moves
<1>9. ErrorsCounted'
  BY <1>1, <1>2, SMT DEF ErrorsCounted, Moves
<1> QED
  BY <1>3, <1>5, <1>6, <1>7, <1>8, <1>9

\* The caller gets its answer, and after a success the mirrors are called.
LEMMA ReturnKeeps ==
    ASSUME DualInv, NEW w \in Writes, Return(w)
    PROVE  DualInv'
<1> USE PrimaryIsNoMirror DEF DualInv
<1>1. /\ call[w] = "running"
      /\ UNCHANGED <<applied, last, stats, alive, overlap>>
  BY DEF Return
<1>2. CASE /\ req[Primary][w] = "ok"
           /\ call' = [call EXCEPT ![w] = "ok"]
           /\ req' = [t \in Targets |->
                         IF t = Primary THEN req[t] ELSE [req[t] EXCEPT ![w] = "attempt"]]
  <2>1. /\ req' \in [Targets -> [Writes -> ReqStates]]
        /\ \A t \in Targets, v \in Writes :
              req'[t][v] = IF t # Primary /\ v = w THEN "attempt" ELSE req[t][v]
    BY <1>2, SMT DEF Types, ReqStates
  <2>2. \A v \in Writes : call'[v] = IF v = w THEN "ok" ELSE call[v]
    BY <1>2 DEF Types
  <2>3. \A m \in Mirrors : req[m][w] = None
    BY <1>1 DEF MirrorsCalledOnOk
  <2>4. Types'
    <3>1. call' \in [Writes -> {"new", "running", "ok", "err"}]
      BY <1>2 DEF Types
    <3> QED
      BY <1>1, <2>1, <3>1 DEF Types
  <2>5. MirrorsCalledOnOk'
    BY <1>1, <1>2, <2>1, <2>2, SMT DEF MirrorsCalledOnOk, None
  <2>6. CallsTell'
    BY <1>1, <2>1, <2>3, SMT DEF CallsTell, None
  <2>7. OneAttempt'
    <3>1. ASSUME NEW m \in Mirrors PROVE applied[m][w] = 0
      <4>1. ~(applied[m][w] > 0)
        BY <2>3 DEF CallsTell
      <4> QED
        BY <4>1, Counts, SMT
    <3> QED
      BY <1>1, <2>1, <3>1 DEF OneAttempt
  <2>8. Counted'
    BY <1>1, <2>1, <2>3, NothingRecorded, SMT DEF None
  <2>9. ErrorsCounted'
    BY <1>1, <2>1, SMT DEF ErrorsCounted
  <2> QED
    BY <2>4, <2>5, <2>6, <2>7, <2>8, <2>9
<1>3. CASE /\ req[Primary][w] = "err"
           /\ call' = [call EXCEPT ![w] = "err"]
           /\ UNCHANGED req
  <2>1. \A v \in Writes : call'[v] = IF v = w THEN "err" ELSE call[v]
    BY <1>3 DEF Types
  <2>2. Types'
    <3>1. call' \in [Writes -> {"new", "running", "ok", "err"}]
      BY <1>3 DEF Types
    <3> QED
      BY <1>1, <1>3, <3>1 DEF Types
  <2>3. MirrorsCalledOnOk'
    BY <1>1, <1>3, <2>1, SMT DEF MirrorsCalledOnOk
  <2>4. CallsTell' /\ OneAttempt' /\ ErrorsCounted'
    BY <1>1, <1>3, SMT DEF CallsTell, OneAttempt, ErrorsCounted
  <2>5. Counted'
    BY <1>1, <1>3, NothingRecorded
  <2> QED
    BY <2>2, <2>3, <2>4, <2>5
<1> QED
  BY <1>2, <1>3 DEF Return

\* asyncWrite counts the outcome of one call.
LEMMA RecordKeeps ==
    ASSUME DualInv, NEW m \in Mirrors, NEW w \in Writes, Record(m, w)
    PROVE  DualInv'
<1> USE PrimaryIsNoMirror DEF DualInv
<1>1. Moves(m, w, "recorded")
  BY GotoOne DEF Record, Moves, ReqStates
<1>2. /\ UNCHANGED <<call, applied, last, alive, overlap>>
      /\ req[m][w] \in {"ok", "err"}
  BY DEF Record
<1>0. stats \in [Mirrors -> [writes : Nat, errors : Nat]]
  BY DEF Types
<1>3. /\ stats' \in [Mirrors -> [writes : Nat, errors : Nat]]
      /\ \A n \in Mirrors : n # m => stats'[n] = stats[n]
      /\ stats'[m].writes + stats'[m].errors = stats[m].writes + stats[m].errors + 1
      /\ stats'[m].errors >= stats[m].errors
      /\ req[m][w] = "err" => stats'[m].errors > 0
  <2>1. CASE req[m][w] = "ok" /\ stats' = [stats EXCEPT ![m].writes = @ + 1]
    <3>1. stats'[m] = [stats[m] EXCEPT !.writes = @ + 1]
      BY <2>1 DEF Types
    <3> QED
      BY <1>0, <2>1, <3>1, SMT
  <2>2. CASE req[m][w] = "err" /\ stats' = [stats EXCEPT ![m].errors = @ + 1]
    <3>1. stats'[m] = [stats[m] EXCEPT !.errors = @ + 1]
      BY <2>2 DEF Types
    <3> QED
      BY <1>0, <2>2, <3>1, SMT
  <2> QED
    BY <2>1, <2>2 DEF Record
<1>4. Types'
  BY <1>1, <1>2, <1>3 DEF Types, Moves
<1>5. MirrorsCalledOnOk'
  BY <1>1, <1>2, SMT DEF MirrorsCalledOnOk, Moves, None
<1>6. CallsTell'
  BY <1>1, <1>2, SMT DEF CallsTell, Moves, None
<1>7. OneAttempt'
  BY <1>1, <1>2, SMT DEF OneAttempt, Moves
<1>8. Counted'
  <2>1. ASSUME NEW n \in Mirrors, n # m
        PROVE  stats'[n].writes + stats'[n].errors = Cardinality(Recorded(n)')
    <3>1. Recorded(n)' = Recorded(n)
      BY <1>1, <2>1, SMT DEF Recorded, Moves
    <3> QED
      BY <1>3, <2>1, <3>1, Zenon DEF Counted
  <2>2. Recorded(m)' = Recorded(m) \union {w} /\ w \notin Recorded(m)
    BY <1>1, <1>2, SMT DEF Recorded, Moves
  <2>3. IsFiniteSet(Recorded(m))
    BY DualWriterAssumption, FS_Subset DEF Recorded
  <2>4. Cardinality(Recorded(m)') = Cardinality(Recorded(m)) + 1
    BY <2>2, <2>3, FS_AddElement
  <2>5. stats'[m].writes + stats'[m].errors = Cardinality(Recorded(m)')
    BY <1>3, <2>4 DEF Counted
  <2> QED
    BY <2>1, <2>5 DEF Counted
<1>9. ErrorsCounted'
  <2>1. req[m][w] = "ok" => applied[m][w] > 0
    BY DEF CallsTell
  <2>2. stats'[m].errors = 0 => stats[m].errors = 0 /\ req[m][w] = "ok"
    BY <1>0, <1>2, <1>3, SMT
  <2> QED
    BY <1>1, <1>2, <1>3, <2>1, <2>2 DEF ErrorsCounted, Moves
<1> QED
  BY <1>4, <1>5, <1>6, <1>7, <1>8, <1>9

\* Nothing changes but whether the process runs.
LEMMA ExitKeeps ==
    ASSUME DualInv, Exit \/ UNCHANGED vars
    PROVE  DualInv'
<1>1. /\ UNCHANGED <<call, req, applied, last, stats, overlap>>
      /\ alive' \in BOOLEAN
  BY Zenon DEF Exit, vars, DualInv, Types
<1>2. Types'
  BY <1>1, Zenon DEF DualInv, Types
<1>3. Counted'
  BY <1>1, NothingRecorded DEF DualInv
<1>4. MirrorsCalledOnOk' /\ CallsTell' /\ OneAttempt' /\ ErrorsCounted'
  BY <1>1 DEF DualInv, MirrorsCalledOnOk, CallsTell, OneAttempt, ErrorsCounted
<1> QED
  BY <1>2, <1>3, <1>4 DEF DualInv

\* NewDualWriter establishes the invariant.
LEMMA DualInitInv == Init => DualInv
<1> SUFFICES ASSUME Init PROVE DualInv
  OBVIOUS
<1> USE PrimaryIsNoMirror
<1>1. Types
  <2>1. req \in [Targets -> [Writes -> ReqStates]]
    BY DEF Init, ReqStates
  <2>2. applied \in [Targets -> [Writes -> 0 .. 2]]
    BY DEF Init
  <2>3. stats \in [Mirrors -> [writes : Nat, errors : Nat]]
    BY DEF Init
  <2>4. /\ call \in [Writes -> {"new", "running", "ok", "err"}]
        /\ last \in [Targets -> Writes \union {None}]
    BY DEF Init
  <2>5. alive \in BOOLEAN /\ overlap \in BOOLEAN
    BY DEF Init
  <2> QED
    BY <2>1, <2>2, <2>3, <2>4, <2>5 DEF Types
<1>2. \A t \in Targets, w \in Writes : req[t][w] = None /\ applied[t][w] = 0
  BY DEF Init
<1>3. MirrorsCalledOnOk
  BY <1>2 DEF Init, MirrorsCalledOnOk
<1>4. CallsTell /\ OneAttempt /\ ErrorsCounted
  BY <1>2, SMT DEF CallsTell, OneAttempt, ErrorsCounted, None
<1>5. Counted
  <2>1. ASSUME NEW m \in Mirrors PROVE Recorded(m) = {}
    BY <1>2 DEF Recorded, None
  <2>2. \A m \in Mirrors : stats[m].writes = 0 /\ stats[m].errors = 0
    BY DEF Init
  <2> QED
    BY <2>1, <2>2, FS_EmptySet, SMT DEF Counted
<1> QED
  BY <1>1, <1>3, <1>4, <1>5 DEF DualInv

\* The invariant is inductive.
LEMMA DualStepInv == DualInv /\ [Next]_vars => DualInv'
<1> SUFFICES ASSUME DualInv, [Next]_vars PROVE DualInv'
  OBVIOUS
<1>1. ASSUME NEW w \in Writes, Start(w) \/ Return(w) PROVE DualInv'
  BY <1>1, StartKeeps, ReturnKeeps
<1>2. ASSUME NEW t \in Targets, NEW w \in Writes,
             Answer(t, w) \/ Fail(t, w) \/ Backoff(t, w)
      PROVE  DualInv'
  BY <1>2, ClientKeeps DEF Client
<1>3. ASSUME NEW m \in Mirrors, NEW w \in Writes, Record(m, w) PROVE DualInv'
  BY <1>3, RecordKeeps
<1>4. CASE Exit \/ UNCHANGED vars
  BY <1>4, ExitKeeps
<1> QED
  BY <1>1, <1>2, <1>3, <1>4 DEF Next

(***************************************************************************)
(* The safety properties that follow from the invariant.                   *)
(***************************************************************************)
\* The counters never exceed the number of writes.
LEMMA CountersBounded == DualInv => TypeOK
<1> SUFFICES ASSUME DualInv PROVE TypeOK
  OBVIOUS
<1>1. stats \in [Mirrors -> [writes : 0 .. Cardinality(Writes),
                             errors : 0 .. Cardinality(Writes)]]
  <2>1. ASSUME NEW m \in Mirrors
        PROVE  /\ stats[m].writes \in 0 .. Cardinality(Writes)
               /\ stats[m].errors \in 0 .. Cardinality(Writes)
    <3>1. Cardinality(Recorded(m)) <= Cardinality(Writes)
      BY DualWriterAssumption, FS_Subset DEF Recorded
    <3>2. Cardinality(Writes) \in Nat /\ Cardinality(Recorded(m)) \in Nat
      BY DualWriterAssumption, FS_Subset, FS_CardinalityType DEF Recorded
    <3>3. stats[m].writes + stats[m].errors = Cardinality(Recorded(m))
      BY DEF DualInv, Counted
    <3>4. stats[m].writes \in Nat /\ stats[m].errors \in Nat
      BY DEF DualInv, Types
    <3> QED
      BY <3>1, <3>2, <3>3, <3>4, SMT
  <2> DEFINE C == 0 .. Cardinality(Writes)
  <2>2. ASSUME NEW m \in Mirrors PROVE stats[m] \in [writes : C, errors : C]
    <3>1. stats[m] \in [writes : Nat, errors : Nat]
      BY DEF DualInv, Types
    <3> QED
      BY <2>1, <3>1
  <2>3. stats \in [Mirrors -> [writes : Nat, errors : Nat]]
    BY DEF DualInv, Types
  <2> HIDE DEF C
  <2>4. stats \in [Mirrors -> [writes : C, errors : C]]
    BY <2>2, <2>3
  <2> QED
    BY <2>4 DEF C
<1> QED
  BY <1>1 DEF DualInv, Types, TypeOK

\* The invariant implies the three properties it was made for.
LEMMA DualInvImplies ==
    DualInv => MirrorsFollowPrimary /\ StatsTellTheTruth /\ TwiceOnlyByInferRetry
<1> SUFFICES ASSUME DualInv
             PROVE  MirrorsFollowPrimary /\ StatsTellTheTruth /\ TwiceOnlyByInferRetry
  OBVIOUS
<1> USE PrimaryIsNoMirror DEF DualInv
<1>1. MirrorsFollowPrimary
  <2> SUFFICES ASSUME NEW m \in Mirrors, NEW w \in Writes, applied[m][w] > 0
               PROVE  call[w] = "ok" /\ applied[Primary][w] > 0
    BY DEF MirrorsFollowPrimary
  <2>1. req[m][w] # None
    BY DEF CallsTell
  <2>2. call[w] = "ok" /\ req[Primary][w] = "ok"
    BY <2>1 DEF MirrorsCalledOnOk
  <2> QED
    BY <2>2 DEF CallsTell
<1>2. StatsTellTheTruth
  <2> SUFFICES ASSUME NEW m \in Mirrors
               PROVE  /\ (stats[m].errors = 0 /\ \A w \in Writes : ~InProgress(m, w)) =>
                            \A w \in Writes : call[w] = "ok" => applied[m][w] > 0
                      /\ stats[m].writes + stats[m].errors
                            = Cardinality({w \in Writes : req[m][w] = "recorded"})
    BY Zenon DEF StatsTellTheTruth
  <2>1. ASSUME stats[m].errors = 0, NEW w \in Writes, ~InProgress(m, w), call[w] = "ok"
        PROVE  applied[m][w] > 0
    <3>1. req[m][w] = "recorded"
      BY <2>1 DEF InProgress, MirrorsCalledOnOk
    <3> QED
      BY <2>1, <3>1 DEF ErrorsCounted
  <2>2. stats[m].writes + stats[m].errors
          = Cardinality({w \in Writes : req[m][w] = "recorded"})
    BY DEF Counted, Recorded
  <2> QED
    BY <2>1, <2>2
<1>3. TwiceOnlyByInferRetry
  <2> SUFFICES ASSUME NEW t \in Targets, NEW w \in Writes, applied[t][w] > 1, w \notin Infer
               PROVE  FALSE
    BY DEF TwiceOnlyByInferRetry
  <2>1. applied[t][w] <= 1
    BY DEF OneAttempt
  <2> QED
    BY <2>1, Counts, SMT
<1> QED
  BY <1>1, <1>2, <1>3

(***************************************************************************)
(* The inductive invariant holds, and with it the types.                   *)
(***************************************************************************)
THEOREM DualWriterInvariant == Spec => []DualInv
<1> QED
  BY DualInitInv, DualStepInv, PTL DEF Spec

(***************************************************************************)
(* No mirror gets ahead of the primary, whatever fails, is retried or      *)
(* races (Add, Update, Delete: the early return before fanOutAsync).       *)
(***************************************************************************)
THEOREM MirrorsNeverAhead == Spec => []MirrorsFollowPrimary
<1>1. DualInv => MirrorsFollowPrimary
  BY DualInvImplies
<1> QED
  BY <1>1, DualWriterInvariant, PTL

(***************************************************************************)
(* The counters count every fan-out once, and a mirror without errors and  *)
(* without a call in flight is complete (asyncWrite).                      *)
(***************************************************************************)
THEOREM StatsAreTrue == Spec => []StatsTellTheTruth
<1>1. DualInv => StatsTellTheTruth
  BY DualInvImplies
<1> QED
  BY <1>1, DualWriterInvariant, PTL

(***************************************************************************)
(* Only the retry of an Add with infer=true applies a write twice          *)
(* (Client.Add).                                                           *)
(***************************************************************************)
THEOREM TwiceNeedsInfer == Spec => []TwiceOnlyByInferRetry
<1>1. DualInv => TwiceOnlyByInferRetry
  BY DualInvImplies
<1> QED
  BY <1>1, DualWriterInvariant, PTL

(***************************************************************************)
(* Callers that wait for every fan-out before their next write: the        *)
(* invariant behind PacedTargetsAgree.                                     *)
(***************************************************************************)
AtWork(w) == call[w] = "running" \/ \E m \in Mirrors : InProgress(m, w)

\* The primary is called on behalf of a caller that waits.
CallerWaits ==
    \A w \in Writes : req[Primary][w] \in {"attempt", "backoff", "retry"} => call[w] = "running"

OneAtATime ==
    ~overlap => \A v, w \in Writes : AtWork(v) /\ AtWork(w) => v = w

Smooth == ~overlap /\ \A w \in Writes : call[w] # "err"

Resting(m) ==
    /\ stats[m].errors = 0
    /\ \A w \in Writes : call[w] # "running" /\ ~InProgress(m, w)

\* Where the write at work is the last one, and that a mirror at rest has the
\* primary's.
LastWrites ==
    Smooth =>
        /\ \A w \in Writes :
              call[w] = "running" /\ req[Primary][w] = "ok" => last[Primary] = w
        /\ \A m \in Mirrors, w \in Writes :
              /\ InProgress(m, w) => last[Primary] = w
              /\ req[m][w] = "ok" => last[m] = w
        /\ \A m \in Mirrors : Resting(m) => last[m] = last[Primary]

PacedInv == CallerWaits /\ OneAtATime /\ LastWrites

\* A step of a Client call changes what is last at its target alone.
LEMMA ClientLast ==
    ASSUME Types, NEW t \in Targets, NEW w \in Writes, Client(t, w)
    PROVE  /\ last'[t] \in {last[t], w}
           /\ req'[t][w] = "ok" => last'[t] = w
           /\ \A u \in Targets : u # t => last'[u] = last[u]
<1>1. last \in [Targets -> Writes \union {None}]
  BY DEF Types
<1>2. ASSUME Apply(t, w)
      PROVE  last'[t] = w /\ \A u \in Targets : u # t => last'[u] = last[u]
  BY <1>1, <1>2 DEF Apply
<1>3. CASE Answer(t, w)
  BY <1>2, <1>3 DEF Answer
<1>4. CASE Fail(t, w)
  <2> DEFINE s == IF req[t][w] = "attempt" /\ w \in Infer THEN "backoff" ELSE "err"
  <2>1. Goto(t, w, s) /\ s \in ReqStates /\ s # "ok"
    BY <1>4 DEF Fail, ReqStates
  <2>2. req'[t][w] = s
    BY <2>1, GotoOne
  <2> QED
    BY <1>2, <1>4, <2>1, <2>2 DEF Fail
<1>5. CASE Backoff(t, w)
  <2>1. PICK s \in {"retry", "err"} : Goto(t, w, s)
    BY <1>5 DEF Backoff
  <2>2. req'[t][w] = s
    BY <2>1, GotoOne DEF ReqStates
  <2> QED
    BY <1>5, <2>1, <2>2 DEF Backoff
<1> QED
  BY <1>3, <1>4, <1>5 DEF Client

\* A call at the primary moves on: its caller waits and no mirror is at work.
LEMMA PrimaryPaced ==
    ASSUME DualInv, PacedInv, NEW w \in Writes, Client(Primary, w)
    PROVE  PacedInv'
<1> USE PrimaryIsNoMirror
<1>1. UNCHANGED <<call, stats, overlap>> /\ Types
  BY ClientStep DEF DualInv
<1>2. PICK s \in ReqStates :
        /\ Moves(Primary, w, s)
        /\ req[Primary][w] \in {"attempt", "backoff", "retry"}
        /\ s \in {"ok", "err", "backoff", "retry"}
  BY ClientStep DEF DualInv
<1>3. call[w] = "running"
  BY <1>2 DEF PacedInv, CallerWaits
<1>4. \A m \in Mirrors, v \in Writes : req'[m][v] = req[m][v]
  BY <1>2, Zenon DEF Moves
<1>5. \A v \in Writes : v # w => req'[Primary][v] = req[Primary][v]
  BY <1>2 DEF Moves
<1>6. /\ req'[Primary][w] = "ok" => last'[Primary] = w
      /\ \A m \in Mirrors : last'[m] = last[m]
  BY <1>1, ClientLast
<1>7. CallerWaits'
  BY <1>1, <1>3, <1>5, SMT DEF PacedInv, CallerWaits
<1>8. \A v \in Writes : AtWork(v)' = AtWork(v)
  BY <1>1, <1>4, Zenon DEF AtWork, InProgress
<1>9. OneAtATime'
  BY <1>1, <1>8, Zenon DEF PacedInv, OneAtATime
<1>10. ASSUME ~overlap
       PROVE  /\ \A v \in Writes : call[v] = "running" => v = w
              /\ \A m \in Mirrors, v \in Writes : ~InProgress(m, v)
  <2>1. AtWork(w)
    BY <1>3 DEF AtWork
  <2>2. \A v \in Writes : AtWork(v) => v = w
    BY <1>10, <2>1, Zenon DEF PacedInv, OneAtATime
  <2>3. \A m \in Mirrors : req[m][w] = None
    BY <1>3 DEF DualInv, MirrorsCalledOnOk
  <2> QED
    BY <2>2, <2>3, Zenon DEF AtWork, InProgress
<1>11. LastWrites'
  <2> SUFFICES ASSUME ~overlap PROVE LastWrites'
    BY <1>1, Zenon DEF LastWrites, Smooth
  <2>1. \A v \in Writes :
            call'[v] = "running" /\ req'[Primary][v] = "ok" => last'[Primary] = v
    BY <1>1, <1>6, <1>10
  <2>2. \A m \in Mirrors, v \in Writes : ~InProgress(m, v)' /\ req'[m][v] # "ok"
    BY <1>4, <1>10, SMT DEF InProgress, None
  <2>3. \A m \in Mirrors : ~Resting(m)'
    BY <1>1, <1>3, Zenon DEF Resting
  <2> QED
    BY <2>1, <2>2, <2>3, Zenon DEF LastWrites
<1> QED
  BY <1>7, <1>9, <1>11 DEF PacedInv

\* A call at a mirror moves on: it stays the one write at work.
LEMMA MirrorPaced ==
    ASSUME DualInv, PacedInv, NEW n \in Mirrors, NEW w \in Writes, Client(n, w)
    PROVE  PacedInv'
<1> USE PrimaryIsNoMirror
<1>0. n # Primary /\ n \in Targets
  BY Zenon
<1>1. UNCHANGED <<call, stats, overlap>> /\ Types
  BY <1>0, ClientStep DEF DualInv
<1>2. PICK s \in ReqStates :
        /\ Moves(n, w, s)
        /\ req[n][w] \in {"attempt", "backoff", "retry"}
        /\ s \in {"ok", "err", "backoff", "retry"}
  BY <1>0, ClientStep DEF DualInv
<1>3. \A u \in Targets, v \in Writes : u # n \/ v # w => req'[u][v] = req[u][v]
  BY <1>2, Zenon DEF Moves
<1>4. InProgress(n, w) /\ InProgress(n, w)' /\ req'[n][w] = s
  BY <1>0, <1>2 DEF InProgress, Moves, None
<1>5. \A m \in Mirrors, v \in Writes : InProgress(m, v)' <=> InProgress(m, v)
  BY <1>3, <1>4, Zenon DEF InProgress
<1>6. /\ req'[n][w] = "ok" => last'[n] = w
      /\ \A u \in Targets : u # n => last'[u] = last[u]
  BY <1>0, <1>1, ClientLast
<1>7. \A v \in Writes : req'[Primary][v] = req[Primary][v]
  BY <1>0, <1>3
<1>8. CallerWaits'
  BY <1>1, <1>7 DEF PacedInv, CallerWaits
<1>9. \A v \in Writes : AtWork(v)' <=> AtWork(v)
  BY <1>1, <1>5, Zenon DEF AtWork
<1>10. OneAtATime'
  BY <1>1, <1>9, Zenon DEF PacedInv, OneAtATime
<1>11. LastWrites'
  <2> SUFFICES ASSUME Smooth PROVE LastWrites'
    BY <1>1, Zenon DEF LastWrites, Smooth
  <2>1. last'[Primary] = last[Primary]
    BY <1>0, <1>6
  <2>2. \A v \in Writes : AtWork(v) => v = w
    BY <1>4, Zenon DEF PacedInv, OneAtATime, AtWork, Smooth
  <2>3. \A v \in Writes :
            call'[v] = "running" /\ req'[Primary][v] = "ok" => last'[Primary] = v
    BY <1>1, <1>7, <2>1 DEF PacedInv, LastWrites
  <2>4. \A m \in Mirrors, v \in Writes : InProgress(m, v)' => last'[Primary] = v
    BY <1>5, <2>1 DEF PacedInv, LastWrites
  <2>5. ASSUME NEW m \in Mirrors, NEW v \in Writes, req'[m][v] = "ok"
        PROVE  last'[m] = v
    <3>1. CASE m = n /\ v = w
      BY <3>1, <2>5, <1>6
    <3>2. CASE m # n \/ v # w
      <4>1. req[m][v] = "ok"
        BY <3>2, <2>5, <1>3
      <4>2. AtWork(v)
        BY <4>1 DEF AtWork, InProgress, None
      <4>3. m # n /\ last[m] = v
        BY <3>2, <4>1, <4>2, <2>2 DEF PacedInv, LastWrites
      <4> QED
        BY <4>3, <1>6
    <3> QED
      BY <3>1, <3>2
  <2>6. ASSUME NEW m \in Mirrors, Resting(m)' PROVE last'[m] = last'[Primary]
    <3>1. Resting(m)
      BY <2>6, <1>1, <1>5, Zenon DEF Resting
    <3>2. m # n
      BY <3>1, <1>4, Zenon DEF Resting
    <3> QED
      BY <3>1, <3>2, <2>1, <1>6 DEF PacedInv, LastWrites
  <2> QED
    BY <2>3, <2>4, <2>5, <2>6, Zenon DEF LastWrites
<1> QED
  BY <1>8, <1>10, <1>11 DEF PacedInv

\* A write that begins without overlap begins when nothing is at work.
LEMMA StartPaced ==
    ASSUME DualInv, PacedInv, NEW w \in Writes, Start(w)
    PROVE  PacedInv'
<1> USE PrimaryIsNoMirror
<1>1. Types
  BY DEF DualInv
<1>2. Moves(Primary, w, "attempt")
  BY <1>1, GotoOne DEF Start, Moves, ReqStates
<1>3. UNCHANGED <<last, stats>> /\ overlap' = (overlap \/ ~Quiet)
  BY DEF Start
<1>4. \A v \in Writes : call'[v] = IF v = w THEN "running" ELSE call[v]
  BY <1>1 DEF Start, Types
<1>5. \A m \in Mirrors, v \in Writes : req'[m][v] = req[m][v]
  BY <1>2, Zenon DEF Moves
<1>6. \A v \in Writes : req'[Primary][v] = IF v = w THEN "attempt" ELSE req[Primary][v]
  BY <1>2 DEF Moves
<1>7. CallerWaits'
  BY <1>4, <1>6 DEF PacedInv, CallerWaits
<1>8. ASSUME ~overlap'
      PROVE  /\ \A v \in Writes : call'[v] = "running" => v = w
             /\ \A m \in Mirrors, v \in Writes : ~InProgress(m, v)'
  <2>1. Quiet
    BY <1>3, <1>8
  <2> QED
    BY <1>4, <1>5, <2>1, Zenon DEF Quiet, InProgress
<1>9. OneAtATime'
  BY <1>8, Zenon DEF OneAtATime, AtWork
<1>10. LastWrites'
  <2> SUFFICES ASSUME ~overlap' PROVE LastWrites'
    BY Zenon DEF LastWrites, Smooth
  <2>1. \A v \in Writes : ~(call'[v] = "running" /\ req'[Primary][v] = "ok")
    BY <1>6, <1>8, SMT
  <2>2. \A m \in Mirrors, v \in Writes : ~InProgress(m, v)' /\ req'[m][v] # "ok"
    BY <1>8, SMT DEF InProgress, None
  <2>3. \A m \in Mirrors : ~Resting(m)'
    BY <1>4, Zenon DEF Resting
  <2> QED
    BY <2>1, <2>2, <2>3, Zenon DEF LastWrites
<1> QED
  BY <1>7, <1>9, <1>10 DEF PacedInv

\* The caller returns, and its write stays the one at work or ends with an error.
LEMMA ReturnPaced ==
    ASSUME DualInv, PacedInv, NEW w \in Writes, Return(w)
    PROVE  PacedInv'
<1> USE PrimaryIsNoMirror
<1>0. Types
  BY DEF DualInv
<1>1. call[w] = "running" /\ UNCHANGED <<last, stats, overlap>> /\ AtWork(w)
  BY Zenon DEF Return, AtWork
<1>2. CASE /\ req[Primary][w] = "ok"
           /\ call' = [call EXCEPT ![w] = "ok"]
           /\ req' = [t \in Targets |->
                         IF t = Primary THEN req[t] ELSE [req[t] EXCEPT ![w] = "attempt"]]
  <2>1. \A t \in Targets, v \in Writes :
            req'[t][v] = IF t # Primary /\ v = w THEN "attempt" ELSE req[t][v]
    BY <1>0, <1>2, SMT DEF Types
  <2>2. \A v \in Writes : call'[v] = IF v = w THEN "ok" ELSE call[v]
    BY <1>0, <1>2 DEF Types
  <2>3. \A v \in Writes : req'[Primary][v] = req[Primary][v]
    BY <2>1
  <2>4. CallerWaits'
    BY <1>2, <2>2, <2>3, SMT DEF PacedInv, CallerWaits
  <2>5. \A m \in Mirrors, v \in Writes : v # w => req'[m][v] = req[m][v]
    BY <2>1, Zenon
  <2>6. \A m \in Mirrors : req'[m][w] = "attempt"
    BY <2>1, Zenon
  <2>7. \A v \in Writes : AtWork(v)' => AtWork(v)
    <3>1. ASSUME NEW v \in Writes, v # w, AtWork(v)' PROVE AtWork(v)
      BY <3>1, <2>2, <2>5, Zenon DEF AtWork, InProgress
    <3> QED
      BY <1>1, <3>1
  <2>8. OneAtATime'
    BY <1>1, <2>7, Zenon DEF PacedInv, OneAtATime
  <2>9. LastWrites'
    <3> SUFFICES ASSUME ~overlap, Smooth' PROVE LastWrites'
      BY <1>1, Zenon DEF LastWrites, Smooth
    <3>1. Smooth
      BY <1>1, <2>2, Zenon DEF Smooth
    <3>2. last'[Primary] = w
      BY <1>1, <1>2, <3>1 DEF PacedInv, LastWrites
    <3>3. \A v \in Writes : AtWork(v) => v = w
      BY <1>1, Zenon DEF PacedInv, OneAtATime
    <3>4. \A v \in Writes : call'[v] # "running"
      BY <2>2, <3>3, SMT DEF AtWork
    <3>5. \A m \in Mirrors, v \in Writes : v # w => ~InProgress(m, v)'
      BY <2>5, <3>3, Zenon DEF AtWork, InProgress
    <3>6. \A m \in Mirrors, v \in Writes : req'[m][v] # "ok"
      BY <2>6, <3>5, SMT DEF InProgress, None
    <3>7. \A m \in Mirrors : InProgress(m, w)'
      BY <2>6, SMT DEF InProgress, None
    <3>8. \A m \in Mirrors : ~Resting(m)'
      BY <3>7, Zenon DEF Resting
    <3> QED
      BY <3>2, <3>4, <3>5, <3>6, <3>8, Zenon DEF LastWrites
  <2> QED
    BY <2>4, <2>8, <2>9 DEF PacedInv
<1>3. CASE /\ req[Primary][w] = "err"
           /\ call' = [call EXCEPT ![w] = "err"]
           /\ UNCHANGED req
  <2>1. \A v \in Writes : call'[v] = IF v = w THEN "err" ELSE call[v]
    BY <1>0, <1>3 DEF Types
  <2>2. CallerWaits'
    BY <1>3, <2>1, SMT DEF PacedInv, CallerWaits
  <2>3. \A v \in Writes : AtWork(v)' => AtWork(v)
    <3>1. ASSUME NEW v \in Writes, v # w, AtWork(v)' PROVE AtWork(v)
      BY <3>1, <1>3, <2>1, Zenon DEF AtWork, InProgress
    <3> QED
      BY <1>1, <3>1
  <2>4. OneAtATime'
    BY <1>1, <2>3, Zenon DEF PacedInv, OneAtATime
  <2>5. LastWrites'
    BY <2>1, Zenon DEF LastWrites, Smooth
  <2> QED
    BY <2>2, <2>4, <2>5 DEF PacedInv
<1> QED
  BY <1>2, <1>3 DEF Return

\* A mirror whose call is recorded without an error has the primary's last.
LEMMA RecordPaced ==
    ASSUME DualInv, PacedInv, NEW n \in Mirrors, NEW w \in Writes, Record(n, w)
    PROVE  PacedInv'
<1> USE PrimaryIsNoMirror
<1>0. Types /\ n # Primary /\ n \in Targets
  BY Zenon DEF DualInv
<1>1. Moves(n, w, "recorded")
  BY <1>0, GotoOne DEF Record, Moves, ReqStates
<1>2. UNCHANGED <<call, last, overlap>>
  BY DEF Record
<1>3. \A u \in Targets, v \in Writes : u # n \/ v # w => req'[u][v] = req[u][v]
  BY <1>1, Zenon DEF Moves
<1>4. req'[n][w] = "recorded" /\ ~InProgress(n, w)' /\ InProgress(n, w)
  BY <1>0, <1>1 DEF Moves, InProgress, Record, None
<1>5. \A m \in Mirrors, v \in Writes : InProgress(m, v)' => InProgress(m, v)
  BY <1>3, <1>4, Zenon DEF InProgress
<1>6. /\ \A m \in Mirrors : m # n => stats'[m] = stats[m]
      /\ stats'[n].errors = 0 => stats[n].errors = 0 /\ req[n][w] = "ok"
  <2>0. stats \in [Mirrors -> [writes : Nat, errors : Nat]]
    BY <1>0 DEF Types
  <2>1. CASE req[n][w] = "ok" /\ stats' = [stats EXCEPT ![n].writes = @ + 1]
    <3>1. stats'[n] = [stats[n] EXCEPT !.writes = @ + 1]
      BY <2>0, <2>1
    <3> QED
      BY <2>0, <2>1, <3>1, SMT
  <2>2. CASE req[n][w] = "err" /\ stats' = [stats EXCEPT ![n].errors = @ + 1]
    <3>1. stats'[n] = [stats[n] EXCEPT !.errors = @ + 1]
      BY <2>0, <2>2
    <3> QED
      BY <2>0, <2>2, <3>1, SMT
  <2> QED
    BY <2>1, <2>2 DEF Record
<1>7. \A v \in Writes : req'[Primary][v] = req[Primary][v]
  BY <1>0, <1>3
<1>8. CallerWaits'
  BY <1>2, <1>7 DEF PacedInv, CallerWaits
<1>9. \A v \in Writes : AtWork(v)' => AtWork(v)
  BY <1>2, <1>5, Zenon DEF AtWork
<1>10. OneAtATime'
  BY <1>2, <1>9, Zenon DEF PacedInv, OneAtATime
<1>11. LastWrites'
  <2> SUFFICES ASSUME Smooth PROVE LastWrites'
    BY <1>2, Zenon DEF LastWrites, Smooth
  <2>1. \A v \in Writes :
            call'[v] = "running" /\ req'[Primary][v] = "ok" => last'[Primary] = v
    BY <1>2, <1>7 DEF PacedInv, LastWrites
  <2>2. \A m \in Mirrors, v \in Writes : InProgress(m, v)' => last'[Primary] = v
    BY <1>2, <1>5 DEF PacedInv, LastWrites
  <2>3. ASSUME NEW m \in Mirrors, NEW v \in Writes, req'[m][v] = "ok"
        PROVE  last'[m] = v
    <3>1. req[m][v] = "ok"
      BY <2>3, <1>3, <1>4
    <3> QED
      BY <3>1, <1>2 DEF PacedInv, LastWrites
  <2>4. ASSUME NEW m \in Mirrors, Resting(m)' PROVE last'[m] = last'[Primary]
    <3>1. CASE m = n
      <4>1. req[n][w] = "ok"
        BY <2>4, <3>1, <1>6 DEF Resting
      <4>2. last[n] = w /\ last[Primary] = w
        BY <4>1, <1>4 DEF PacedInv, LastWrites
      <4> QED
        BY <3>1, <4>2, <1>2
    <3>2. CASE m # n
      <4>1. Resting(m)
        <5>1. stats[m].errors = 0
          BY <2>4, <3>2, <1>6 DEF Resting
        <5>2. \A v \in Writes : call[v] # "running" /\ ~InProgress(m, v)
          BY <2>4, <3>2, <1>2, <1>3, Zenon DEF Resting, InProgress
        <5> QED
          BY <5>1, <5>2 DEF Resting
      <4> QED
        BY <4>1, <1>2 DEF PacedInv, LastWrites
    <3> QED
      BY <3>1, <3>2
  <2> QED
    BY <2>1, <2>2, <2>3, <2>4, Zenon DEF LastWrites
<1> QED
  BY <1>8, <1>10, <1>11 DEF PacedInv

\* Nothing is at work when the process starts.
LEMMA PacedInit == Init => PacedInv
<1> SUFFICES ASSUME Init PROVE PacedInv
  OBVIOUS
<1> USE PrimaryIsNoMirror
<1>1. \A t \in Targets, w \in Writes : req[t][w] = None
  BY DEF Init
<1>2. \A w \in Writes : call[w] = "new"
  BY DEF Init
<1>3. \A t \in Targets : last[t] = None
  BY DEF Init
<1>4. \A m \in Mirrors, w \in Writes : ~InProgress(m, w)
  BY <1>1 DEF InProgress
<1>5. \A w \in Writes : ~AtWork(w)
  BY <1>2, <1>4, SMT DEF AtWork
<1>6. CallerWaits
  BY <1>1, SMT DEF CallerWaits, None
<1>7. OneAtATime
  BY <1>5, Zenon DEF OneAtATime
<1>8. LastWrites
  <2>1. \A w \in Writes : call[w] # "running"
    BY <1>2, SMT
  <2>2. \A m \in Mirrors, w \in Writes : req[m][w] # "ok"
    BY <1>1, SMT DEF None
  <2> QED
    BY <1>3, <1>4, <2>1, <2>2, Zenon DEF LastWrites
<1> QED
  BY <1>6, <1>7, <1>8 DEF PacedInv

\* Both invariants are inductive together.
LEMMA PacedStep == DualInv /\ PacedInv /\ [Next]_vars => PacedInv'
<1> SUFFICES ASSUME DualInv, PacedInv, [Next]_vars PROVE PacedInv'
  OBVIOUS
<1>1. ASSUME NEW w \in Writes, Start(w) \/ Return(w) PROVE PacedInv'
  BY <1>1, StartPaced, ReturnPaced
<1>2. ASSUME NEW t \in Targets, NEW w \in Writes,
             Answer(t, w) \/ Fail(t, w) \/ Backoff(t, w)
      PROVE  PacedInv'
  <2>1. Client(t, w)
    BY <1>2 DEF Client
  <2>2. t = Primary \/ t \in Mirrors
    BY PrimaryIsNoMirror
  <2> QED
    BY <2>1, <2>2, PrimaryPaced, MirrorPaced
<1>3. ASSUME NEW m \in Mirrors, NEW w \in Writes, Record(m, w) PROVE PacedInv'
  BY <1>3, RecordPaced
<1>4. CASE Exit \/ UNCHANGED vars
  <2>1. UNCHANGED <<call, req, last, stats, overlap>>
    BY <1>4, Zenon DEF Exit, vars
  <2>2. CallerWaits' /\ OneAtATime'
    BY <2>1, Zenon DEF PacedInv, CallerWaits, OneAtATime, AtWork, InProgress
  <2>3. LastWrites'
    BY <2>1, Zenon DEF PacedInv, LastWrites, Smooth, Resting, InProgress
  <2> QED
    BY <2>2, <2>3 DEF PacedInv
<1> QED
  BY <1>1, <1>2, <1>3, <1>4 DEF Next

(***************************************************************************)
(* Targets agree on the last write whenever callers waited for every       *)
(* fan-out and no call failed (fanOutAsync's goroutines race otherwise).   *)
(***************************************************************************)
THEOREM PacedAgree == Spec => []PacedTargetsAgree
<1>1. PacedInv => PacedTargetsAgree
  BY Zenon DEF PacedInv, LastWrites, PacedTargetsAgree, Smooth, Resting, Quiet
<1>2. Spec => []PacedInv
  BY PacedInit, PacedStep, DualWriterInvariant, PTL DEF Spec
<1> QED
  BY <1>1, <1>2, PTL

(***************************************************************************)
(* The inductive invariant of the reads beside that of the writes.         *)
(***************************************************************************)
ReadTypes ==
    /\ source \in {"oss", "cloud"}
    /\ read \in [Readers -> {"idle", "running", "answered", "failed"}]
    /\ known \in [Readers -> SUBSET Writes]
    /\ clean \in [Readers -> BOOLEAN]
    /\ seen \in [Readers -> SUBSET Writes]

\* The read goes to a target that must have what the caller knows of.
Complete(r) == source = "oss" \/ "shadow" \notin Mirrors \/ clean[r]

\* While a read runs its target has what it must show.
RunningReadsCovered ==
    \A r \in Readers :
        read[r] = "running" /\ Complete(r) => known[r] \subseteq Visible(readClient)

\* What a reader has seen its target still has.
SeenIsVisible == \A r \in Readers : seen[r] \subseteq Visible(readClient)

ReadInv ==
    /\ DualInv
    /\ ReadTypes
    /\ RunningReadsCovered
    /\ SeenIsVisible
    /\ ReadsYourWrites

\* Reads go to one of the targets.
LEMMA readClientIsTarget == readClient \in Targets
BY PrimaryIsNoMirror, Zenon DEF readClient

\* Nothing that a target has applied is taken back.
LEMMA VisibleGrows ==
    ASSUME DualInv, [Next]_vars, NEW t \in Targets
    PROVE  Visible(t) \subseteq Visible(t)'
<1> SUFFICES ASSUME NEW w \in Writes, applied[t][w] > 0
             PROVE  applied'[t][w] > 0
  BY DEF Visible
<1>1. ASSUME NEW u \in Targets, NEW v \in Writes, Client(u, v)
      PROVE  applied'[t][w] > 0
  <2>1. Applies(u, v)
    BY <1>1, ClientStep DEF DualInv
  <2>2. CASE t = u /\ w = v
    BY <2>1, <2>2, Counts, SMT DEF Applies, DualInv
  <2>3. CASE t # u \/ w # v
    BY <2>1, <2>3 DEF Applies
  <2> QED
    BY <2>2, <2>3
<1>2. ASSUME NEW v \in Writes, Start(v) \/ Return(v)
      PROVE  applied'[t][w] > 0
  BY <1>2 DEF Start, Return
<1>3. ASSUME NEW m \in Mirrors, NEW v \in Writes, Record(m, v)
      PROVE  applied'[t][w] > 0
  BY <1>3 DEF Record
<1>4. CASE Exit \/ UNCHANGED vars
  BY <1>4 DEF Exit, vars
<1> QED
  BY <1>1, <1>2, <1>3, <1>4 DEF Next, Client

\* What every caller was told of is at the primary, and at a shadow that has no
\* error and no call in flight.
LEMMA ToldIsVisible ==
    ASSUME DualInv
    PROVE  /\ {w \in Writes : call[w] = "ok"} \subseteq Visible(Primary)
           /\ \A m \in Mirrors :
                  (stats[m].errors = 0 /\ \A w \in Writes : ~InProgress(m, w)) =>
                      {w \in Writes : call[w] = "ok"} \subseteq Visible(m)
<1>1. ASSUME NEW w \in Writes, call[w] = "ok"
      PROVE  applied[Primary][w] > 0
  BY <1>1, PrimaryIsNoMirror DEF DualInv, MirrorsCalledOnOk, CallsTell
<1>2. StatsTellTheTruth
  BY DualInvImplies
<1> QED
  BY <1>1, <1>2 DEF Visible, StatsTellTheTruth

\* The writes go on beside the reads.
LEMMA WritesKeep ==
    ASSUME ReadInv, [Next]_vars, UNCHANGED readVars
    PROVE  ReadInv'
<1>1. DualInv'
  BY DualStepInv DEF ReadInv
<1>2. /\ source' = source /\ read' = read /\ known' = known
      /\ clean' = clean /\ seen' = seen
  BY DEF readVars
<1>3. readClient' = readClient
  BY <1>2 DEF readClient
<1>4. Visible(readClient) \subseteq Visible(readClient)'
  BY <1>3, readClientIsTarget, VisibleGrows DEF ReadInv, Visible
<1>5. ReadTypes'
  BY <1>2, Zenon DEF ReadInv, ReadTypes
<1>6. RunningReadsCovered'
  BY <1>2, <1>4 DEF ReadInv, RunningReadsCovered, Complete
<1>7. SeenIsVisible'
  BY <1>2, <1>4 DEF ReadInv, SeenIsVisible
<1>8. ReadsYourWrites'
  BY <1>2 DEF ReadInv, ReadsYourWrites
<1> QED
  BY <1>1, <1>5, <1>6, <1>7, <1>8 DEF ReadInv

\* A read begins: what the caller was told of is at its target.
LEMMA ReadStartKeeps ==
    ASSUME ReadInv, NEW r \in Readers, ReadStart(r)
    PROVE  ReadInv'
<1>1. /\ UNCHANGED vars
      /\ UNCHANGED <<source, seen>>
      /\ read' = [read EXCEPT ![r] = "running"]
      /\ known' = [known EXCEPT ![r] = {w \in Writes : call[w] = "ok"}]
  BY DEF ReadStart
<1> DEFINE shadowClean == /\ "shadow" \in Mirrors
                          /\ stats["shadow"].errors = 0
                          /\ \A w \in Writes : ~InProgress("shadow", w)
<1>2. clean' = [clean EXCEPT ![r] = shadowClean]
  BY DEF ReadStart
<1>3. DualInv'
  BY <1>1, DualStepInv DEF ReadInv
<1>4. readClient' = readClient /\ \A t \in Targets : Visible(t)' = Visible(t)
  BY <1>1 DEF readClient, Visible, vars
<1>5. ReadTypes'
  <2>1. read' \in [Readers -> {"idle", "running", "answered", "failed"}]
    BY <1>1 DEF ReadInv, ReadTypes
  <2>2. known' \in [Readers -> SUBSET Writes]
    BY <1>1, Zenon DEF ReadInv, ReadTypes
  <2>3. clean' \in [Readers -> BOOLEAN]
    BY <1>2, Zenon DEF ReadInv, ReadTypes
  <2> QED
    BY <1>1, <2>1, <2>2, <2>3, Zenon DEF ReadInv, ReadTypes
<1>6. /\ known'[r] = {w \in Writes : call[w] = "ok"}
      /\ read'[r] = "running"
      /\ \A q \in Readers \ {r} : read'[q] = read[q] /\ known'[q] = known[q]
  BY <1>1 DEF ReadInv, ReadTypes
<1>7. /\ clean'[r] = shadowClean
      /\ \A q \in Readers \ {r} : clean'[q] = clean[q]
  BY <1>2, Zenon DEF ReadInv, ReadTypes
<1>8. RunningReadsCovered'
  <2>1. ASSUME Complete(r)' PROVE known'[r] \subseteq Visible(readClient)
    <3>1. CASE source = "oss" \/ "shadow" \notin Mirrors
      <4>1. readClient = Primary
        BY <3>1 DEF readClient
      <4> QED
        BY <1>6, <4>1, ToldIsVisible DEF ReadInv
    <3>2. CASE source # "oss" /\ "shadow" \in Mirrors
      <4>1. readClient = "shadow"
        BY <3>2 DEF readClient, ReadInv, ReadTypes
      <4>2. shadowClean
        BY <1>1, <1>7, <2>1, <3>2 DEF Complete
      <4> QED
        BY <1>6, <4>1, <4>2, ToldIsVisible DEF ReadInv
    <3> QED
      BY <3>1, <3>2
  <2>2. ASSUME NEW q \in Readers \ {r}, read'[q] = "running", Complete(q)'
        PROVE  known'[q] \subseteq Visible(readClient)
    <3>1. Complete(q)
      BY <1>1, <1>7, <2>2 DEF Complete
    <3> QED
      BY <1>6, <2>2, <3>1 DEF ReadInv, RunningReadsCovered
  <2>3. Visible(readClient)' = Visible(readClient)
    BY <1>4, readClientIsTarget DEF Visible
  <2> QED
    BY <2>1, <2>2, <2>3 DEF RunningReadsCovered
<1>9. SeenIsVisible'
  <2>1. Visible(readClient)' = Visible(readClient)
    BY <1>4, readClientIsTarget DEF Visible
  <2> QED
    BY <1>1, <2>1 DEF ReadInv, SeenIsVisible
<1>10. ReadsYourWrites'
  BY <1>1, <1>6, <1>7 DEF ReadInv, ReadsYourWrites
<1> QED
  BY <1>3, <1>5, <1>8, <1>9, <1>10 DEF ReadInv

\* A read ends, with what its target has or with an error.
LEMMA ReadEndKeeps ==
    ASSUME ReadInv, NEW r \in Readers, ReadAnswer(r) \/ ReadFail(r)
    PROVE  ReadInv'
<1>1. /\ UNCHANGED vars
      /\ UNCHANGED <<source, known, clean>>
      /\ read[r] = "running"
  BY DEF ReadAnswer, Answered, ReadFail
<1>2. DualInv'
  BY <1>1, DualStepInv DEF ReadInv
<1>3. readClient' = readClient /\ Visible(readClient)' = Visible(readClient)
  BY <1>1 DEF readClient, Visible, vars
<1>4. \A q \in Readers : Complete(q)' <=> Complete(q)
  BY <1>1 DEF Complete
<1>5. CASE ReadAnswer(r)
  <2>1. /\ read' = [read EXCEPT ![r] = "answered"]
        /\ seen' = [seen EXCEPT ![r] = Visible(readClient)]
    BY <1>5 DEF ReadAnswer, Answered
  <2>2. Visible(readClient) \subseteq Writes
    BY DEF Visible
  <2>3. ReadTypes'
    <3>1. read' \in [Readers -> {"idle", "running", "answered", "failed"}]
      BY <2>1 DEF ReadInv, ReadTypes
    <3>2. seen' \in [Readers -> SUBSET Writes]
      BY <2>1, <2>2, Zenon DEF ReadInv, ReadTypes
    <3> QED
      BY <1>1, <3>1, <3>2, Zenon DEF ReadInv, ReadTypes
  <2>4. /\ read'[r] = "answered" /\ seen'[r] = Visible(readClient)
        /\ \A q \in Readers \ {r} : read'[q] = read[q] /\ seen'[q] = seen[q]
    BY <2>1 DEF ReadInv, ReadTypes
  <2>5. RunningReadsCovered'
    BY <1>1, <1>3, <1>4, <2>4 DEF ReadInv, RunningReadsCovered
  <2>6. SeenIsVisible'
    BY <1>3, <2>4 DEF ReadInv, SeenIsVisible
  <2>7. ReadsYourWrites'
    <3>1. Complete(r) => known[r] \subseteq seen'[r]
      BY <1>1, <2>4 DEF ReadInv, RunningReadsCovered
    <3> QED
      BY <1>1, <2>4, <3>1 DEF ReadInv, ReadsYourWrites, Complete
  <2> QED
    BY <1>2, <2>3, <2>5, <2>6, <2>7 DEF ReadInv
<1>6. CASE ReadFail(r)
  <2>1. read' = [read EXCEPT ![r] = "failed"] /\ seen' = seen
    BY <1>6 DEF ReadFail
  <2>2. ReadTypes'
    <3>1. read' \in [Readers -> {"idle", "running", "answered", "failed"}]
      BY <2>1 DEF ReadInv, ReadTypes
    <3> QED
      BY <1>1, <2>1, <3>1, Zenon DEF ReadInv, ReadTypes
  <2>3. /\ read'[r] = "failed"
        /\ \A q \in Readers \ {r} : read'[q] = read[q]
    BY <2>1 DEF ReadInv, ReadTypes
  <2>4. RunningReadsCovered' /\ SeenIsVisible'
    BY <1>1, <1>3, <1>4, <2>1, <2>3 DEF ReadInv, RunningReadsCovered, SeenIsVisible
  <2>5. ReadsYourWrites'
    BY <1>1, <2>1, <2>3 DEF ReadInv, ReadsYourWrites
  <2> QED
    BY <1>2, <2>2, <2>4, <2>5 DEF ReadInv
<1> QED
  BY <1>5, <1>6

\* NewDualWriter's configuration and no read yet.
LEMMA ReadInitInv == ReadInit => ReadInv
<1> SUFFICES ASSUME ReadInit PROVE ReadInv
  OBVIOUS
<1>1. DualInv
  BY DualInitInv DEF ReadInit
<1>2. ReadTypes
  BY Zenon DEF ReadInit, ReadTypes
<1>3. RunningReadsCovered /\ SeenIsVisible /\ ReadsYourWrites
  BY DEF ReadInit, RunningReadsCovered, SeenIsVisible, ReadsYourWrites
<1> QED
  BY <1>1, <1>2, <1>3 DEF ReadInv

\* The invariant of the reads is inductive.
LEMMA ReadStepInv == ReadInv /\ [ReadNext]_allVars => ReadInv'
<1> SUFFICES ASSUME ReadInv, [ReadNext]_allVars PROVE ReadInv'
  OBVIOUS
<1>1. CASE Next /\ UNCHANGED readVars
  BY <1>1, WritesKeep
<1>2. ASSUME NEW r \in Readers, ReadStart(r) \/ ReadAnswer(r) \/ ReadFail(r)
      PROVE  ReadInv'
  BY <1>2, ReadStartKeeps, ReadEndKeeps
<1>3. CASE UNCHANGED allVars
  BY <1>3, WritesKeep DEF allVars
<1> QED
  BY <1>1, <1>2, <1>3 DEF ReadNext

(***************************************************************************)
(* The inductive invariant holds beside any interleaving of writes.        *)
(***************************************************************************)
THEOREM ReadsInvariant == ReadSpec => []ReadInv
<1> QED
  BY ReadInitInv, ReadStepInv, PTL DEF ReadSpec

(***************************************************************************)
(* The variables of the reads have their types, and those of the writes:   *)
(* no target applies a write more often than its client may try, and Stats *)
(* never count more calls than there are writes.                           *)
(***************************************************************************)
THEOREM ReadTypesCorrect == ReadSpec => []ReadTypeOK
<1>1. ReadInv => ReadTypeOK
  BY CountersBounded DEF ReadInv, ReadTypes, ReadTypeOK
<1> QED
  BY <1>1, ReadsInvariant, PTL

(***************************************************************************)
(* A read that goes to the primary, or to a shadow whose Stats were clean, *)
(* returns every write its caller was told of (readClient, Add).           *)
(***************************************************************************)
THEOREM ReadsAreComplete == ReadSpec => []ReadsYourWrites
<1>1. ReadInv => ReadsYourWrites
  BY DEF ReadInv
<1> QED
  BY <1>1, ReadsInvariant, PTL

(***************************************************************************)
(* No read shows what the source of truth does not have.                   *)
(***************************************************************************)
THEOREM ReadsNeverAhead == ReadSpec => []NeverAhead
<1>1. ReadInv => NeverAhead
  <2> SUFFICES ASSUME ReadInv PROVE NeverAhead
    OBVIOUS
  <2>1. MirrorsFollowPrimary
    BY DualInvImplies DEF ReadInv
  <2>2. Visible(readClient) \subseteq Visible(Primary)
    BY <2>1, readClientIsTarget, PrimaryIsNoMirror DEF Visible, MirrorsFollowPrimary
  <2> QED
    BY <2>2 DEF NeverAhead, ReadInv, SeenIsVisible
<1> QED
  BY <1>1, ReadsInvariant, PTL

(***************************************************************************)
(* Successive answers to one reader never go back, since the target never  *)
(* changes and never forgets (readClient).                                 *)
(***************************************************************************)
THEOREM ReadsAreMonotonic == ReadSpec => MonotonicReads
<1>1. ReadInv /\ [ReadNext]_allVars => [\A r \in Readers : seen[r] \subseteq seen'[r]]_allVars
  <2> SUFFICES ASSUME ReadInv, ReadNext, NEW r \in Readers
               PROVE  seen[r] \subseteq seen'[r]
    BY DEF allVars
  <2>1. CASE Next /\ UNCHANGED readVars
    BY <2>1 DEF readVars
  <2>2. ASSUME NEW q \in Readers, ReadStart(q) \/ ReadFail(q)
        PROVE  seen[r] \subseteq seen'[r]
    BY <2>2 DEF ReadStart, ReadFail
  <2>3. ASSUME NEW q \in Readers, ReadAnswer(q)
        PROVE  seen[r] \subseteq seen'[r]
    <3>1. seen' = [seen EXCEPT ![q] = Visible(readClient)]
      BY <2>3 DEF ReadAnswer, Answered
    <3> QED
      BY <3>1 DEF ReadInv, ReadTypes, SeenIsVisible
  <2> QED
    BY <2>1, <2>2, <2>3 DEF ReadNext
<1> QED
  BY <1>1, ReadsInvariant, PTL DEF ReadSpec, MonotonicReads
=============================================================================

------------------------- MODULE OutboxFaultsProofs -------------------------
(***************************************************************************)
(* What survives crashes, torn writes and failing file operations, for any *)
(* number of entries and faults.  FInv is what is left of the outbox's own *)
(* invariant: NoLoss until a fault exposes the entries in memory, and one  *)
(* copy of each entry until a truncation fails.                            *)
(***************************************************************************)
EXTENDS OutboxFaults, OutboxProofs

FTypes ==
    /\ pc \in [Entries -> SubmitStates \union {"crashed"}]
    /\ file \in Seq(Entries)
    /\ batch \in Seq(Entries)
    /\ failed \in Seq(Entries)
    /\ delivered \in [Entries -> 0 .. 2]

\* A caller in one of these states has its answer, or will never have one.
Final == {"accepted", "rejected", "crashed"}

\* Every line is whole and every accepted entry is kept or applied.
Kept == torn = "none" /\ NoLoss

FinalStored == \A e \in Stored : pc[e] \in Final

\* As NotYetApplied, but a line whose append failed half way may be applied
\* though its caller got an error.
FNotYet ==
    \A e \in Entries \ lost :
        /\ delivered[e] <= 1
        /\ pc[e] \notin Final /\ pc[e] # "ok" => delivered[e] = 0
        /\ e \in Stored => delivered[e] = 0 \/ (dpc = "ok" /\ e = Head(batch))

Single == OneCopy /\ FinalStored /\ FNotYet

FInv ==
    /\ FTypes
    /\ Phases
    /\ AppliedWhenOk
    /\ ~exposed => Kept
    /\ ~untruncated => Single

(***************************************************************************)
(* The file                                                                *)
(***************************************************************************)
\* Gluing costs at most the last line, and nothing when it has its newline.
LEMMA GluedHolds ==
    ASSUME file \in Seq(Entries)
    PROVE  /\ Glued \in Seq(Entries)
           /\ Range(Glued) \subseteq Range(file)
           /\ IsInjective(file) => IsInjective(Glued)
           /\ \A x \in Range(file) \ Range(Glued) : torn = "whole" /\ x = file[Len(file)]
<1>1. Len(file) \in Nat /\ DOMAIN file = 1 .. Len(file)
  BY LenProperties
<1>0. /\ \A m \in Nat : \A k \in 1 .. m : k \notin 1 .. m - 1 => k = m
      /\ \A m \in Nat : \A k \in 1 .. m - 1 : k \in 1 .. m
      /\ \A m \in Nat \ {0} : (IF 1 <= m - 1 THEN m - 1 - 1 + 1 ELSE 0) = m - 1
      /\ \A m \in Nat : \A i \in 1 .. m - 1 : i \in 1 .. m - 1 - 1 + 1 /\ 1 + i - 1 = i
  BY SMT
<1>2. CASE torn = "whole" /\ Len(file) = 0
  <2>1. Range(file) = {}
    BY <1>2, EmptySeq, EmptyHolds
  <2>2. SubSeq(file, 1, Len(file) - 1) = << >>
    BY <1>1, <1>2, SMT
  <2>3. Glued = << >>
    BY <1>2, <2>2 DEF Glued
  <2> QED
    BY <2>1, <2>3, EmptyHolds
<1>3. CASE torn = "whole" /\ Len(file) # 0
  <2>1. \A i \in 1 .. Len(file) - 1 : file[i] \in Entries
    <3>1. \A i \in 1 .. Len(file) : file[i] \in Entries
      BY ElementOfSeq
    <3> QED
      BY <1>1, <3>1, SMT
  <2>2. \A k \in 1 .. Len(file) : k \notin 1 .. Len(file) - 1 => k = Len(file)
    BY <1>0, <1>1
  <2>3. \A k \in 1 .. Len(file) - 1 : k \in 1 .. Len(file)
    BY <1>0, <1>1
  <2>4. PICK s : s = SubSeq(file, 1, Len(file) - 1)
    OBVIOUS
  <2>5. /\ s \in Seq(Entries)
        /\ Len(s) = IF 1 <= Len(file) - 1 THEN Len(file) - 1 - 1 + 1 ELSE 0
        /\ \A i \in 1 .. Len(file) - 1 - 1 + 1 : s[i] = file[1 + i - 1]
    BY <1>1, <2>1, <2>4, SubSeqProperties, SMT
  <2>6. Len(s) = Len(file) - 1
    BY <1>0, <1>1, <1>3, <2>5
  <2>7. \A i \in 1 .. Len(file) - 1 : i \in 1 .. Len(file) - 1 - 1 + 1 /\ 1 + i - 1 = i
    BY <1>0, <1>1
  <2>8. DOMAIN s = 1 .. Len(file) - 1 /\ \A i \in 1 .. Len(file) - 1 : s[i] = file[i]
    BY <2>5, <2>6, <2>7, LenProperties
  <2>9. Glued = s
    BY <1>3, <2>4 DEF Glued
  <2>10. Range(s) \subseteq Range(file)
    BY <1>1, <2>3, <2>8, Zenon DEF Range
  <2>11. IsInjective(file) => IsInjective(s)
    BY <1>1, <2>3, <2>8, Zenon DEF IsInjective
  <2>12. ASSUME NEW k \in 1 .. Len(file), file[k] \notin Range(s)
         PROVE  file[k] = file[Len(file)]
    BY <2>2, <2>8, <2>12, Zenon DEF Range
  <2>13. \A x \in Range(file) \ Range(s) : x = file[Len(file)]
    BY <1>1, <2>12, Zenon DEF Range
  <2> QED
    BY <1>3, <2>5, <2>9, <2>10, <2>11, <2>13
<1>4. CASE torn # "whole"
  BY <1>4 DEF Glued
<1> QED
  BY <1>2, <1>3, <1>4

\* A line that is written, whole or not, is the only new one.
LEMMA WrittenHolds ==
    ASSUME file \in Seq(Entries), NEW e \in Entries, WriteLine(e) \/ WriteFails(e)
    PROVE  /\ file' \in Seq(Entries)
           /\ Range(file') \subseteq Range(file) \union {e}
           /\ IsInjective(file) /\ e \notin Range(file) => IsInjective(file')
           /\ \A x \in Range(file) \ Range(file') : torn = "whole" /\ x = file[Len(file)]
<1>1. CASE file' = file
  BY <1>1
<1>2. CASE file' = Glued
  BY <1>2, GluedHolds
<1>3. CASE file' = Append(file, e)
  BY <1>3, AppendHolds
<1> QED
  BY <1>1, <1>2, <1>3, Zenon DEF WriteLine, WriteFails

\* A line that is written after a newline is there, and so are the others.
LEMMA WholeLine ==
    ASSUME file \in Seq(Entries), NEW e \in Entries, WriteLine(e), torn = "none"
    PROVE  torn' = "none" /\ Range(file') = Range(file) \union {e}
BY AppendHolds DEF WriteLine

(***************************************************************************)
(* Submit                                                                  *)
(***************************************************************************)
\* An entry that is applied once more, or not, is one of those applied.
LEMMA AppliesOne ==
    ASSUME FTypes, NEW e \in Entries, delivered' = delivered \/ delivered' = Applied(e)
    PROVE  /\ delivered' \in [Entries -> 0 .. 2]
           /\ \A d \in Entries : d # e => delivered'[d] = delivered[d]
           /\ \A d \in Entries : delivered[d] > 0 => delivered'[d] > 0
           /\ delivered' = Applied(e) => delivered'[e] > 0
           /\ delivered' = Applied(e) /\ delivered[e] = 0 => delivered'[e] = 1
<1>1. delivered \in [Entries -> 0 .. 2]
  BY DEF FTypes
<1>2. CASE delivered' = Applied(e)
  <2>1. delivered' = [delivered EXCEPT ![e] = IF delivered[e] = 2 THEN 2 ELSE delivered[e] + 1]
    BY <1>2 DEF Applied
  <2>2. delivered[e] \in 0 .. 2
    BY <1>1
  <2>3. /\ delivered'[e] = IF delivered[e] = 2 THEN 2 ELSE delivered[e] + 1
        /\ \A d \in Entries : d # e => delivered'[d] = delivered[d]
    BY <1>1, <2>1
  <2>4. /\ delivered'[e] > 0 /\ delivered'[e] \in 0 .. 2
        /\ delivered[e] = 0 => delivered'[e] = 1
    BY <2>2, <2>3, SMT
  <2>5. delivered' \in [Entries -> 0 .. 2]
    BY <1>1, <2>1, <2>2, SMT
  <2> QED
    BY <1>1, <2>3, <2>4, <2>5
<1>3. CASE delivered' = delivered /\ delivered' # Applied(e)
  BY <1>1, <1>3
<1> QED
  BY <1>2, <1>3

\* The steps of Submit before the append.
SubmitSteps(e) ==
    \/ SubmitAllow(e) \/ SubmitDivert(e) \/ SubmitWriteOk(e) \/ SubmitWriteErr(e)
    \/ SubmitSucceed(e) \/ SubmitFail(e) \/ SubmitCheck(e) \/ SubmitAppendFail(e)

\* What they do: the caller moves on, and at its Write the upstream may apply
\* the entry.
LEMMA SubmitStepsDo ==
    ASSUME FTypes, NEW e \in Entries, SubmitSteps(e)
    PROVE  /\ UNCHANGED <<file, dpc, batch, failed>>
           /\ lost \subseteq lost'
           /\ pc[e] \notin Final
           /\ \E s \in SubmitStates :
                 /\ Goto(e, s)
                 /\ s = "accepted" => pc[e] = "ok" /\ UNCHANGED delivered
                 /\ s = "ok" => delivered' = Applied(e)
                 /\ pc[e] = "ok" => s = "accepted"
                 /\ \/ UNCHANGED delivered
                    \/ /\ delivered' = Applied(e)
                       /\ pc[e] = "write" /\ s \in {"ok", "err"}
                       /\ s = "ok" \/ e \in lost'
<1> USE DEF Final, SubmitStates
<1>1. CASE SubmitAllow(e) \/ SubmitDivert(e)
  BY <1>1, SMT DEF SubmitAllow, SubmitDivert, drainVars
<1>2. CASE SubmitWriteOk(e)
  BY <1>2, SMT DEF SubmitWriteOk, drainVars
<1>3. CASE SubmitWriteErr(e)
  <2>1. /\ pc[e] = "write" /\ Goto(e, "err")
        /\ UNCHANGED <<file, dpc, batch, failed>>
    BY <1>3, Zenon DEF SubmitWriteErr, drainVars
  <2>2. \/ UNCHANGED <<delivered, lost>>
        \/ delivered' = Applied(e) /\ lost' = lost \union {e}
    BY <1>3, Zenon DEF SubmitWriteErr, AnswerLost
  <2>3. /\ lost \subseteq lost'
        /\ UNCHANGED delivered \/ (delivered' = Applied(e) /\ e \in lost')
    BY <2>2, Zenon
  <2> QED
    BY <2>1, <2>3, SMT
<1>4. CASE SubmitSucceed(e) \/ SubmitFail(e)
  BY <1>4, SMT DEF SubmitSucceed, SubmitFail, drainVars
<1>5. CASE SubmitCheck(e) \/ SubmitAppendFail(e)
  BY <1>5, SMT DEF SubmitCheck, SubmitAppendFail, drainVars
<1> QED
  BY <1>1, <1>2, <1>3, <1>4, <1>5 DEF SubmitSteps

LEMMA SubmitStepsKeep ==
    ASSUME FInv, NEW e \in Entries, SubmitSteps(e), UNCHANGED faultVars
    PROVE  FInv'
<1>0. /\ FTypes /\ UNCHANGED <<file, dpc, batch, failed>> /\ pc[e] \notin Final
      /\ lost \subseteq lost'
      /\ UNCHANGED <<torn, exposed, untruncated>>
  BY SubmitStepsDo DEF FInv, faultVars
<1>1. PICK s \in SubmitStates :
        /\ Goto(e, s)
        /\ s = "accepted" => pc[e] = "ok" /\ UNCHANGED delivered
        /\ s = "ok" => delivered' = Applied(e)
        /\ pc[e] = "ok" => s = "accepted"
        /\ \/ UNCHANGED delivered
           \/ /\ delivered' = Applied(e)
              /\ pc[e] = "write"
              /\ s = "ok" \/ e \in lost'
  BY SubmitStepsDo DEF FInv
<1>2. /\ pc' \in [Entries -> SubmitStates \union {"crashed"}]
      /\ \A d \in Entries : pc'[d] = IF d = e THEN s ELSE pc[d]
  BY <1>0, <1>1, SMT DEF FTypes, Goto
<1>3. /\ delivered' \in [Entries -> 0 .. 2]
      /\ \A d \in Entries : d # e => delivered'[d] = delivered[d]
      /\ \A d \in Entries : delivered[d] > 0 => delivered'[d] > 0
      /\ delivered' = Applied(e) => delivered'[e] > 0
      /\ delivered' = Applied(e) /\ delivered[e] = 0 => delivered'[e] = 1
  BY <1>0, <1>1, AppliesOne DEF FTypes
<1>4. Stored' = Stored
  BY <1>0, Zenon DEF Stored
<1>5. FTypes'
  BY <1>0, <1>2, <1>3 DEF FTypes
<1>6. Phases'
  BY <1>0, Zenon DEF FInv, Phases
<1>7. AppliedWhenOk'
  <2>1. ASSUME NEW d \in Entries, pc'[d] = "ok" PROVE delivered'[d] > 0
    BY <2>1, <1>1, <1>2, <1>3 DEF FInv, AppliedWhenOk
  <2>2. dpc = "ok" => Head(batch) \in Entries
    BY <1>0, TailHolds DEF FInv, Phases, FTypes
  <2>3. dpc' = "ok" => delivered'[Head(batch')] > 0
    BY <1>0, <1>3, <2>2 DEF FInv, AppliedWhenOk
  <2> QED
    BY <2>1, <2>3 DEF AppliedWhenOk
<1>8. ASSUME Kept PROVE Kept'
  <2>1. ASSUME NEW d \in Entries, pc'[d] = "accepted"
        PROVE  delivered'[d] > 0 \/ d \in Stored
    <3>1. CASE d = e
      BY <2>1, <3>1, <1>1, <1>2 DEF FInv, AppliedWhenOk
    <3>2. CASE d # e
      BY <2>1, <3>2, <1>2, <1>3, <1>8 DEF Kept, NoLoss
    <3> QED
      BY <3>1, <3>2
  <2> QED
    BY <2>1, <1>0, <1>4, <1>8, Zenon DEF Kept, NoLoss
<1>9. ASSUME Single PROVE Single'
  <2>1. e \notin Stored
    BY <1>0, <1>9 DEF Single, FinalStored
  <2>2. OneCopy'
    BY <1>0, <1>9, Zenon DEF Single, OneCopy
  <2>3. Stored \subseteq Entries
    BY <1>0, HoldsEntries DEF FTypes, Stored
  <2>4. FinalStored'
    BY <1>2, <1>4, <1>9, <2>1, <2>3 DEF Single, FinalStored
  <2>5. ASSUME NEW d \in Entries \ lost'
        PROVE  /\ delivered'[d] <= 1
               /\ pc'[d] \notin Final /\ pc'[d] # "ok" => delivered'[d] = 0
               /\ d \in Stored' => delivered'[d] = 0 \/ (dpc' = "ok" /\ d = Head(batch'))
    <3>1. /\ delivered[d] <= 1
          /\ pc[d] \notin Final /\ pc[d] # "ok" => delivered[d] = 0
          /\ d \in Stored => delivered[d] = 0 \/ (dpc = "ok" /\ d = Head(batch))
      BY <1>0, <1>9 DEF Single, FNotYet
    <3>2. CASE d # e
      BY <3>1, <3>2, <1>0, <1>2, <1>3, <1>4
    <3>3. CASE d = e /\ UNCHANGED delivered
      BY <3>1, <3>3, <1>0, <1>1, <1>2, <1>4, <2>1 DEF Final
    <3>4. CASE d = e /\ delivered' # delivered
      BY <3>1, <3>4, <1>1, <1>2, <1>3, <1>4, <2>1 DEF Final
    <3> QED
      BY <3>2, <3>3, <3>4
  <2> QED
    BY <2>2, <2>4, <2>5 DEF Single, FNotYet
<1> QED
  BY <1>0, <1>5, <1>6, <1>7, <1>8, <1>9 DEF FInv

\* The line may be torn, and then the caller gets the error.
LEMMA AppendKeeps ==
    ASSUME FInv, NEW e \in Entries, FaultySubmitAppend(e)
    PROVE  FInv'
<1>0. /\ FTypes /\ pc[e] = "append" /\ ~Locked
      /\ UNCHANGED <<delivered, lost, dpc, batch, failed, untruncated>>
  BY DEF FInv, FaultySubmitAppend, drainVars
<1>1. PICK s \in {"accepted", "rejected"} :
        /\ Goto(e, s)
        /\ WriteLine(e) \/ WriteFails(e)
        /\ ~exposed' => ~exposed /\ WriteLine(e)
  <2>1. CASE WriteLine(e) /\ Goto(e, "accepted") /\ UNCHANGED <<faults, exposed>>
    BY <2>1
  <2>2. CASE WriteFails(e) /\ Goto(e, "rejected") /\ exposed' = TRUE
    BY <2>2
  <2> QED
    BY <2>1, <2>2, Zenon DEF FaultySubmitAppend
<1>2. /\ pc' \in [Entries -> SubmitStates \union {"crashed"}]
      /\ \A d \in Entries : pc'[d] = IF d = e THEN s ELSE pc[d]
  BY <1>0, <1>1, SMT DEF FTypes, Goto, SubmitStates
<1>3. /\ file' \in Seq(Entries)
      /\ Range(file') \subseteq Range(file) \union {e}
      /\ IsInjective(file) /\ e \notin Range(file) => IsInjective(file')
  BY <1>0, <1>1, WrittenHolds DEF FTypes
<1>4. FTypes'
  BY <1>0, <1>2, <1>3 DEF FTypes
<1>5. Phases'
  BY <1>0, SMT DEF FInv, Phases, Locked
<1>6. AppliedWhenOk'
  BY <1>0, <1>1, <1>2 DEF FInv, AppliedWhenOk
<1>7. Stored' \subseteq Stored \union {e}
  BY <1>0, <1>3, Zenon DEF Stored
<1>8. ASSUME ~exposed' PROVE Kept'
  <2>1. WriteLine(e) /\ Kept
    BY <1>1, <1>8 DEF FInv
  <2>2. torn' = "none" /\ Range(file') = Range(file) \union {e}
    BY <2>1, <1>0, WholeLine DEF FTypes, Kept
  <2>3. Stored' = Stored \union {e}
    BY <2>2, <1>0, SMT DEF Stored
  <2>4. NoLoss'
    BY <2>1, <2>3, <1>0, <1>2 DEF Kept, NoLoss
  <2> QED
    BY <2>2, <2>4 DEF Kept
<1>9. ASSUME Single PROVE Single'
  <2>1. e \notin Stored
    BY <1>0, <1>9 DEF Single, FinalStored, Final
  <2>2. OneCopy'
    <3>1. e \notin Range(file) /\ e \notin Range(batch) /\ e \notin Range(failed)
      BY <2>1 DEF Stored
    <3>2. dpc # "truncate"
      BY <1>0 DEF Locked
    <3> QED
      BY <1>0, <1>3, <1>9, <3>1, <3>2, SMT DEF Single, OneCopy
  <2>3. Stored \subseteq Entries
    BY <1>0, HoldsEntries DEF FTypes, Stored
  <2>4. FinalStored'
    BY <1>1, <1>2, <1>7, <1>9, <2>1, <2>3 DEF Single, FinalStored, Final
  <2>5. FNotYet'
    <3>1. e \in Entries \ lost => delivered[e] = 0
      BY <1>0, <1>9 DEF Single, FNotYet, Final
    <3> QED
      BY <3>1, <1>0, <1>1, <1>2, <1>7, <1>9, SMT DEF Single, FNotYet, Final
  <2> QED
    BY <2>2, <2>4, <2>5 DEF Single
<1> QED
  BY <1>0, <1>4, <1>5, <1>6, <1>8, <1>9 DEF FInv

(***************************************************************************)
(* The drain goroutine                                                     *)
(***************************************************************************)
\* A step of the drain that applies nothing: what it drops was applied, unless
\* a fault exposes it, and it makes no second copy, unless a truncation fails.
LEMMA HandsKeep ==
    ASSUME FInv, FTypes', Phases', dpc' # "ok",
           UNCHANGED <<pc, delivered, lost>>,
           Stored' \subseteq Stored,
           ~exposed' =>
               /\ ~exposed
               /\ Kept => torn' = "none" /\ \A e \in Stored \ Stored' : delivered[e] > 0,
           ~untruncated' =>
               /\ ~untruncated
               /\ OneCopy => OneCopy' /\ (dpc = "ok" => Head(batch) \notin Stored')
    PROVE  FInv'
<1>1. AppliedWhenOk'
  BY DEF FInv, AppliedWhenOk
<1>2. ASSUME ~exposed' PROVE Kept'
  BY <1>2, Zenon DEF FInv, Kept, NoLoss
<1>3. ASSUME ~untruncated' PROVE Single'
  <2>1. Single /\ OneCopy' /\ (dpc = "ok" => Head(batch) \notin Stored')
    BY <1>3 DEF FInv, Single
  <2>2. FinalStored'
    BY <2>1, Zenon DEF Single, FinalStored
  <2>3. FNotYet'
    BY <2>1, Zenon DEF Single, FNotYet
  <2> QED
    BY <2>1, <2>2, <2>3 DEF Single
<1> QED
  BY <1>1, <1>2, <1>3 DEF FInv

\* The drain's program counter moves and nothing else; a failed truncation is
\* the case in which it leaves "truncate".
LEMMA MovesOn ==
    ASSUME FInv, Phases', dpc' # "ok", dpc # "ok",
           UNCHANGED <<pc, delivered, lost, file, batch, failed, torn, exposed>>,
           ~untruncated' => ~untruncated /\ dpc # "truncate"
    PROVE  FInv'
<1>1. FTypes'
  BY DEF FInv, FTypes
<1>2. Stored' = Stored
  BY Zenon DEF Stored
<1>3. ~untruncated' /\ OneCopy => OneCopy'
  BY Zenon DEF OneCopy
<1>4. Kept => torn' = "none"
  BY DEF Kept
<1> QED
  BY <1>1, <1>2, <1>3, <1>4, HandsKeep

LEMMA StillKeeps ==
    ASSUME FInv, UNCHANGED <<pc, delivered, lost, file, dpc, batch, failed, torn, exposed, untruncated>>
    PROVE  FInv'
BY SMT DEF FInv, FTypes, Phases, AppliedWhenOk, Kept, NoLoss, Stored, Single,
   OneCopy, FinalStored, FNotYet

\* The steps that hold no line in their hands, the clock and Close.
LEMMA DrainMoves ==
    ASSUME FInv,
           \/ DrainTick \/ DrainExit \/ DrainCall \/ DrainLoopEnd
           \/ DrainRead /\ dpc' = "idle",
           UNCHANGED faultVars
    PROVE  FInv'
<1>1. /\ UNCHANGED <<pc, delivered, lost, file, batch, failed, torn, exposed, untruncated>>
      /\ dpc \in {"idle", "read", "loop"} /\ dpc' # "ok"
      /\ Phases'
  <2>1. CASE DrainTick \/ DrainExit
    BY <2>1, SMT DEF DrainTick, DrainExit, FInv, Phases, subVars, faultVars
  <2>2. CASE DrainCall \/ DrainLoopEnd
    BY <2>2, SMT DEF DrainCall, DrainLoopEnd, FInv, Phases, subVars, faultVars
  <2>3. CASE DrainRead /\ dpc' = "idle"
    BY <2>3, SMT DEF DrainRead, FInv, Phases, subVars, faultVars
  <2> QED
    BY <2>1, <2>2, <2>3
<1> QED
  BY <1>1, MovesOn

\* The batch is the file's image, then the file is empty.
LEMMA ReadKeeps ==
    ASSUME FInv, DrainRead, dpc' # "idle", UNCHANGED faultVars
    PROVE  FInv'
<1>1. /\ dpc = "read" /\ dpc' = "truncate" /\ batch' = file /\ file # <<>>
      /\ batch = <<>> /\ failed = <<>>
      /\ UNCHANGED <<pc, delivered, lost, file, failed, torn, exposed, untruncated>>
  BY SMT DEF DrainRead, FInv, Phases, subVars, faultVars
<1>2. FTypes' /\ Phases'
  BY <1>1, SMT DEF FInv, FTypes, Phases
<1>3. Stored' = Stored
  BY <1>1, EmptyHolds DEF Stored
<1>4. OneCopy => OneCopy'
  BY <1>1, EmptyHolds DEF OneCopy
<1> QED
  BY <1>1, <1>2, <1>3, <1>4, HandsKeep DEF Kept

LEMMA TruncateKeeps ==
    ASSUME FInv, FaultyDrainTruncate
    PROVE  FInv'
<1>1. /\ dpc = "truncate" /\ dpc' = "loop"
      /\ batch = file /\ batch # <<>> /\ failed = <<>>
      /\ UNCHANGED <<pc, delivered, lost, batch, failed, exposed>>
  BY SMT DEF FaultyDrainTruncate, FInv, Phases, subVars
<1>2. Phases'
  BY <1>1 DEF Phases
<1>3. CASE file' = <<>> /\ torn' = "none" /\ UNCHANGED untruncated
  <2>1. FTypes'
    BY <1>1, <1>3, SMT DEF FInv, FTypes
  <2>2. Stored' = Stored
    BY <1>1, <1>3, EmptyHolds DEF Stored
  <2>3. OneCopy => OneCopy'
    BY <1>1, <1>3, EmptyHolds DEF OneCopy
  <2> QED
    BY <1>1, <1>2, <1>3, <2>1, <2>2, <2>3, HandsKeep DEF Kept
<1>4. CASE UNCHANGED <<file, torn>> /\ untruncated' = TRUE
  BY <1>1, <1>2, <1>4, MovesOn
<1> QED
  BY <1>3, <1>4, Zenon DEF FaultyDrainTruncate

\* The head of the batch becomes the last of the failed, or is finished with.
LEMMA HeadKeeps ==
    ASSUME FInv, DrainSkip \/ DrainFail \/ DrainSucceed, UNCHANGED faultVars
    PROVE  FInv'
<1>1. /\ dpc \in {"loop", "ok", "err"} /\ dpc' = "loop" /\ batch # <<>>
      /\ batch' = Tail(batch)
      /\ UNCHANGED <<pc, delivered, lost, file, torn, exposed, untruncated>>
      /\ \/ dpc = "ok" /\ failed' = failed
         \/ dpc # "ok" /\ failed' = Append(failed, Head(batch))
  <2>1. CASE DrainSkip
    BY <2>1, SMT DEF DrainSkip, subVars, faultVars
  <2>2. CASE DrainFail \/ DrainSucceed
    BY <2>2, SMT DEF DrainFail, DrainSucceed, FInv, Phases, subVars, faultVars
  <2> QED
    BY <2>1, <2>2
<1>2. /\ Head(batch) \in Entries
      /\ batch' \in Seq(Entries)
      /\ Range(batch) = {Head(batch)} \union Range(batch')
      /\ IsInjective(batch) => IsInjective(batch') /\ Head(batch) \notin Range(batch')
  BY <1>1, TailHolds DEF FInv, FTypes
<1>3. Phases'
  BY <1>1 DEF Phases
<1>4. CASE dpc = "ok" /\ failed' = failed
  <2>1. FTypes'
    BY <1>1, <1>2, <1>4 DEF FInv, FTypes
  <2>2. Stored' \subseteq Stored /\ Stored \subseteq Stored' \union {Head(batch)}
    BY <1>1, <1>2, <1>4 DEF Stored
  <2>3. delivered[Head(batch)] > 0
    BY <1>4 DEF FInv, AppliedWhenOk
  <2>4. OneCopy => OneCopy' /\ Head(batch) \notin Stored'
    BY <1>1, <1>2, <1>4 DEF OneCopy, Stored
  <2>5. \A e \in Stored \ Stored' : delivered[e] > 0
    BY <2>2, <2>3
  <2> QED
    BY <1>1, <1>3, <2>1, <2>2, <2>4, <2>5, HandsKeep DEF Kept
<1>5. CASE dpc # "ok" /\ failed' = Append(failed, Head(batch))
  <2>1. /\ failed' \in Seq(Entries)
        /\ Range(failed') = Range(failed) \union {Head(batch)}
        /\ IsInjective(failed) /\ Head(batch) \notin Range(failed) => IsInjective(failed')
    BY <1>2, <1>5, AppendHolds DEF FInv, FTypes
  <2>2. FTypes'
    BY <1>1, <1>2, <2>1 DEF FInv, FTypes
  <2>3. Stored' = Stored
    BY <1>1, <1>2, <2>1 DEF Stored
  <2>4. OneCopy => OneCopy'
    <3>1. dpc # "truncate"
      BY <1>1
    <3> QED
      BY <1>1, <1>2, <2>1, <3>1, SMT DEF OneCopy
  <2> QED
    BY <1>1, <1>3, <1>5, <2>2, <2>3, <2>4, HandsKeep DEF Kept
<1> QED
  BY <1>1, <1>4, <1>5

\* The drain's Write applies the head of the batch, or an error hides that it
\* did.
LEMMA WriteKeeps ==
    ASSUME FInv, DrainWriteOk \/ DrainWriteErr, UNCHANGED faultVars
    PROVE  FInv'
<1> DEFINE h == Head(batch)
<1>1. /\ dpc = "call" /\ dpc' \in {"ok", "err"} /\ batch # <<>>
      /\ UNCHANGED <<pc, file, batch, failed, torn, exposed, untruncated>>
      /\ delivered' = delivered \/ delivered' = Applied(h)
      /\ dpc' = "ok" => delivered' = Applied(h)
      /\ lost \subseteq lost'
      /\ delivered' # delivered => dpc' = "ok" \/ h \in lost'
  <2>1. CASE DrainWriteOk
    BY <2>1, SMT DEF DrainWriteOk, FInv, Phases, faultVars
  <2>2. CASE DrainWriteErr
    <3>1. /\ dpc = "call" /\ dpc' = "err"
          /\ UNCHANGED <<pc, file, batch, failed, torn, exposed, untruncated>>
      BY <2>2, Zenon DEF DrainWriteErr, faultVars
    <3>2. \/ UNCHANGED <<delivered, lost>>
          \/ delivered' = Applied(h) /\ lost' = lost \union {h}
      BY <2>2, Zenon DEF DrainWriteErr, AnswerLost
    <3>3. batch # <<>>
      BY <3>1, SMT DEF FInv, Phases
    <3>4. /\ lost \subseteq lost'
          /\ UNCHANGED delivered \/ (delivered' = Applied(h) /\ h \in lost')
      BY <3>2, Zenon
    <3> QED
      BY <3>1, <3>3, <3>4, SMT
  <2> QED
    BY <2>1, <2>2
<1>2. h \in Entries /\ h \in Range(batch)
  BY <1>1, TailHolds DEF FInv, FTypes
<1> HIDE DEF h
<1>3. /\ delivered' \in [Entries -> 0 .. 2]
      /\ \A d \in Entries : d # h => delivered'[d] = delivered[d]
      /\ \A d \in Entries : delivered[d] > 0 => delivered'[d] > 0
      /\ delivered' = Applied(h) => delivered'[h] > 0
      /\ delivered' = Applied(h) /\ delivered[h] = 0 => delivered'[h] = 1
  BY <1>1, <1>2, AppliesOne DEF FInv
<1>4. Stored' = Stored /\ h \in Stored
  BY <1>1, <1>2 DEF Stored
<1>5. FTypes'
  BY <1>1, <1>3 DEF FInv, FTypes
<1>6. Phases'
  BY <1>1 DEF Phases
<1>7. AppliedWhenOk'
  BY <1>1, <1>3 DEF FInv, AppliedWhenOk, h
<1>8. ASSUME Kept PROVE Kept'
  BY <1>8, <1>1, <1>3, <1>4, Zenon DEF Kept, NoLoss
<1>9. ASSUME Single PROVE Single'
  <2>1. OneCopy'
    BY <1>1, <1>9, SMT DEF Single, OneCopy
  <2>2. FinalStored'
    BY <1>1, <1>4, <1>9, Zenon DEF Single, FinalStored
  <2>3. ASSUME NEW d \in Entries \ lost'
        PROVE  /\ delivered'[d] <= 1
               /\ pc'[d] \notin Final /\ pc'[d] # "ok" => delivered'[d] = 0
               /\ d \in Stored' => delivered'[d] = 0 \/ (dpc' = "ok" /\ d = Head(batch'))
    <3>1. /\ delivered[d] <= 1
          /\ pc[d] \notin Final /\ pc[d] # "ok" => delivered[d] = 0
          /\ d \in Stored => delivered[d] = 0
      BY <1>1, <1>9 DEF Single, FNotYet
    <3>2. CASE d # h \/ delivered' = delivered
      BY <3>1, <3>2, <1>1, <1>3, <1>4
    <3>3. CASE d = h /\ delivered' # delivered
      <4>1. pc[d] \in Final
        BY <3>3, <1>4, <1>9 DEF Single, FinalStored
      <4> QED
        BY <3>1, <3>3, <4>1, <1>1, <1>3, <1>4 DEF h
    <3> QED
      BY <3>2, <3>3
  <2> QED
    BY <2>1, <2>2, <2>3 DEF Single, FNotYet
<1> QED
  BY <1>1, <1>5, <1>6, <1>7, <1>8, <1>9 DEF FInv

\* The first of the failed entries goes back to the file, perhaps torn.
LEMMA RequeueKeeps ==
    ASSUME FInv, FaultyDrainRequeue
    PROVE  FInv'
<1>1. /\ dpc = "requeue" /\ batch = <<>> /\ failed # <<>>
      /\ failed' = Tail(failed)
      /\ dpc' = IF failed' = <<>> THEN "idle" ELSE "requeue"
      /\ UNCHANGED <<pc, delivered, lost, batch, untruncated>>
      /\ WriteLine(Head(failed)) \/ WriteFails(Head(failed))
      /\ ~exposed' => ~exposed /\ WriteLine(Head(failed))
  <2>1. dpc = "requeue" /\ batch = <<>> /\ failed # <<>>
    BY DEF FaultyDrainRequeue, FInv, Phases
  <2>2. CASE WriteLine(Head(failed)) /\ UNCHANGED <<faults, exposed>>
    BY <2>1, <2>2, Zenon DEF FaultyDrainRequeue, subVars
  <2>3. CASE WriteFails(Head(failed)) /\ exposed' = TRUE
    BY <2>1, <2>3, Zenon DEF FaultyDrainRequeue, subVars
  <2> QED
    BY <2>2, <2>3, Zenon DEF FaultyDrainRequeue
<1>2. /\ Head(failed) \in Entries
      /\ failed' \in Seq(Entries)
      /\ Range(failed) = {Head(failed)} \union Range(failed')
      /\ IsInjective(failed) => IsInjective(failed') /\ Head(failed) \notin Range(failed')
  BY <1>1, TailHolds DEF FInv, FTypes
<1>3. /\ file' \in Seq(Entries)
      /\ Range(file') \subseteq Range(file) \union {Head(failed)}
      /\ IsInjective(file) /\ Head(failed) \notin Range(file) => IsInjective(file')
  BY <1>1, <1>2, WrittenHolds DEF FInv, FTypes
<1>4. FTypes'
  BY <1>1, <1>2, <1>3 DEF FInv, FTypes
<1>5. Phases' /\ dpc' # "ok"
  BY <1>1, SMT DEF Phases
<1>6. Range(batch) = {} /\ Range(batch') = {}
  BY <1>1, EmptyHolds
<1>7. Stored' \subseteq Stored
  BY <1>2, <1>3, <1>6, Zenon DEF Stored
<1>8. ASSUME ~exposed'
      PROVE  /\ ~exposed
             /\ Kept => torn' = "none" /\ \A e \in Stored \ Stored' : delivered[e] > 0
  <2>1. ~exposed /\ WriteLine(Head(failed))
    BY <1>1, <1>8
  <2>2. ASSUME Kept PROVE torn' = "none" /\ Range(file') = Range(file) \union {Head(failed)}
    BY <2>1, <2>2, <1>2, WholeLine DEF FInv, FTypes, Kept
  <2>3. ASSUME Kept PROVE Stored' = Stored
    BY <2>2, <2>3, <1>2, <1>6 DEF Stored
  <2> QED
    BY <2>1, <2>2, <2>3
<1>9. OneCopy => OneCopy'
  <2>1. dpc # "truncate" /\ batch' = batch
    BY <1>1
  <2> QED
    BY <2>1, <1>2, <1>3, <1>6, SMT DEF OneCopy
<1> QED
  BY <1>1, <1>4, <1>5, <1>7, <1>8, <1>9, HandsKeep

(***************************************************************************)
(* The crash                                                               *)
(***************************************************************************)
\* The line a crash may cut: its caller, or the drain, still had it in hand.
LEMMA CutLine ==
    ASSUME FInv, NEW x \in Entries,
           \/ pc[x] = "append" /\ ~Locked
           \/ dpc = "requeue" /\ x = Head(failed)
    PROVE  /\ Single => pc[x] # "new"
           /\ Single => x \notin Range(file) /\ (x \in lost \/ delivered[x] = 0)
           /\ Single => ~(dpc = "ok" /\ x = Head(batch))
<1>1. CASE pc[x] = "append"
  <2>1. Single => x \notin Stored
    BY <1>1 DEF Single, FinalStored, Final
  <2>2. dpc = "ok" => Head(batch) \in Stored
    BY TailHolds DEF FInv, FTypes, Phases, Stored
  <2> QED
    BY <1>1, <2>1, <2>2 DEF Single, FNotYet, Final, Stored
<1>2. CASE dpc = "requeue" /\ x = Head(failed)
  <2>1. x \in Range(failed)
    BY <1>2, TailHolds DEF FInv, FTypes, Phases
  <2>2. x \in Stored
    BY <2>1 DEF Stored
  <2>3. Single => pc[x] \in Final
    BY <2>2 DEF Single, FinalStored
  <2> QED
    BY <1>2, <2>1, <2>2, <2>3 DEF Single, FNotYet, OneCopy, Final
<1> QED
  BY <1>1, <1>2

\* Of the crash, what it does to the file; a cut line exposes.
LEMMA CrashDoes ==
    ASSUME FInv, Crash
    PROVE  /\ UNCHANGED <<delivered, lost, untruncated>>
           /\ dpc' = "idle" /\ batch' = <<>> /\ failed' = <<>>
           /\ pc' \in [Entries -> SubmitStates \union {"crashed"}]
           /\ \A e \in Entries :
                 /\ pc'[e] = "accepted" => pc[e] = "accepted"
                 /\ pc'[e] # "new" => pc'[e] \in Final
                 /\ pc'[e] = "new" => pc[e] = "new"
           /\ \/ /\ UNCHANGED <<file, torn>>
                 /\ exposed' = (exposed \/ \E e \in Stored \ Range(file) : delivered[e] = 0)
              \/ /\ exposed' = TRUE
                 /\ \E x \in Entries :
                       /\ WriteFails(x)
                       /\ (pc[x] = "append" /\ ~Locked) \/ (dpc = "requeue" /\ x = Head(failed))
<1>1. /\ UNCHANGED <<delivered, lost, untruncated>>
      /\ dpc' = "idle" /\ batch' = <<>> /\ failed' = <<>>
      /\ pc' = [e \in Entries |->
                   IF pc[e] \in {"new", "accepted", "rejected"} THEN pc[e] ELSE "crashed"]
  BY DEF Crash
<1>2. /\ pc' \in [Entries -> SubmitStates \union {"crashed"}]
      /\ \A e \in Entries :
            /\ pc'[e] = "accepted" => pc[e] = "accepted"
            /\ pc'[e] # "new" => pc'[e] \in Final
            /\ pc'[e] = "new" => pc[e] = "new"
  <2>1. pc \in [Entries -> SubmitStates \union {"crashed"}]
    BY DEF FInv, FTypes
  <2> QED
    BY <1>1, <2>1, SMT DEF SubmitStates, Final
<1>3. CASE /\ UNCHANGED <<file, torn>>
           /\ exposed' = (exposed \/ \E e \in Stored \ Range(file) : delivered[e] = 0)
  BY <1>1, <1>2, <1>3, Zenon
<1>4. CASE /\ \E e \in Entries : pc[e] = "append" /\ ~Locked /\ WriteFails(e)
           /\ exposed' = TRUE
  <2>1. \E x \in Entries :
            /\ WriteFails(x)
            /\ (pc[x] = "append" /\ ~Locked) \/ (dpc = "requeue" /\ x = Head(failed))
    <3>1. PICK x \in Entries : pc[x] = "append" /\ ~Locked /\ WriteFails(x)
      BY <1>4
    <3>2. /\ WriteFails(x)
          /\ (pc[x] = "append" /\ ~Locked) \/ (dpc = "requeue" /\ x = Head(failed))
      BY <3>1
    <3> QED
      BY <3>2
  <2> QED
    BY <1>1, <1>2, <1>4, <2>1
<1>5. CASE dpc = "requeue" /\ WriteFails(Head(failed)) /\ exposed' = TRUE
  <2>1. Head(failed) \in Entries
    BY <1>5, TailHolds DEF FInv, FTypes, Phases
  <2> QED
    BY <1>1, <1>2, <1>5, <2>1, Zenon
<1> QED
  BY <1>3, <1>4, <1>5, Zenon DEF Crash

LEMMA CrashKeeps ==
    ASSUME FInv, Crash
    PROVE  FInv'
<1>1. /\ UNCHANGED <<delivered, lost, untruncated>>
      /\ dpc' = "idle" /\ batch' = <<>> /\ failed' = <<>>
      /\ pc' \in [Entries -> SubmitStates \union {"crashed"}]
      /\ \A e \in Entries :
            /\ pc'[e] = "accepted" => pc[e] = "accepted"
            /\ pc'[e] # "new" => pc'[e] \in Final
            /\ pc'[e] = "new" => pc[e] = "new"
  BY CrashDoes
<1>2. Stored' = Range(file') /\ Range(batch') = {} /\ Range(failed') = {}
  BY <1>1, EmptyHolds DEF Stored
<1>3. Phases' /\ AppliedWhenOk'
  BY <1>1, SMT DEF Phases, AppliedWhenOk, Final
<1>4. ASSUME Single, file' \in Seq(Entries), IsInjective(file'),
             \A e \in Range(file') :
                /\ pc[e] # "new"
                /\ e \in lost \/ delivered[e] = 0
      PROVE  Single'
  <2>1. OneCopy'
    BY <1>1, <1>2, <1>4, EmptyHolds DEF OneCopy
  <2>2. Range(file') \subseteq Entries
    BY <1>4, HoldsEntries
  <2>3. FinalStored'
    BY <1>1, <1>2, <1>4, <2>2 DEF FinalStored
  <2>4. FNotYet'
    BY <1>1, <1>2, <1>4, SMT DEF Single, FNotYet, Final
  <2> QED
    BY <2>1, <2>3, <2>4 DEF Single
<1>5. Range(file) \subseteq Stored /\ Range(file) \subseteq Entries
  BY HoldsEntries DEF Stored, FInv, FTypes
<1>6. ASSUME Single, NEW e \in Range(file)
      PROVE  pc[e] # "new" /\ (e \in lost \/ delivered[e] = 0)
  <2>1. dpc = "ok" => Head(batch) \notin Range(file)
    <3>1. dpc = "ok" => Head(batch) \in Range(batch)
      BY TailHolds DEF FInv, FTypes, Phases
    <3> QED
      BY <3>1, <1>6 DEF Single, OneCopy
  <2> QED
    BY <1>5, <1>6, <2>1 DEF Single, FinalStored, FNotYet, Final
<1>7. CASE /\ UNCHANGED <<file, torn>>
           /\ exposed' = (exposed \/ \E e \in Stored \ Range(file) : delivered[e] = 0)
  <2>1. FTypes'
    BY <1>1, <1>7, SMT DEF FInv, FTypes
  <2>2. ASSUME ~exposed' PROVE Kept'
    <3>1. Kept /\ \A e \in Stored \ Range(file) : delivered[e] # 0
      BY <2>2, <1>7, Zenon DEF FInv
    <3>2. \A e \in Entries : delivered[e] # 0 => delivered[e] > 0
      BY SMT DEF FInv, FTypes
    <3>3. ASSUME NEW e \in Entries, pc'[e] = "accepted"
          PROVE  delivered[e] > 0 \/ e \in Range(file)
      BY <3>1, <3>2, <3>3, <1>1 DEF Kept, NoLoss
    <3> QED
      BY <3>1, <3>3, <1>1, <1>2, <1>7 DEF Kept, NoLoss
  <2>3. ~untruncated' => Single'
    <3>1. ~untruncated' => Single /\ IsInjective(file)
      BY <1>1 DEF FInv, Single, OneCopy
    <3> QED
      BY <3>1, <1>4, <1>6, <1>7 DEF FInv, FTypes
  <2> QED
    BY <2>1, <2>2, <2>3, <1>3 DEF FInv
<1>8. CASE /\ exposed' = TRUE
           /\ \E x \in Entries :
                 /\ WriteFails(x)
                 /\ (pc[x] = "append" /\ ~Locked) \/ (dpc = "requeue" /\ x = Head(failed))
  <2>1. PICK x \in Entries :
            /\ WriteFails(x)
            /\ (pc[x] = "append" /\ ~Locked) \/ (dpc = "requeue" /\ x = Head(failed))
    BY <1>8
  <2>2. /\ file' \in Seq(Entries)
        /\ Range(file') \subseteq Range(file) \union {x}
        /\ IsInjective(file) /\ x \notin Range(file) => IsInjective(file')
    BY <2>1, WrittenHolds DEF FInv, FTypes
  <2>3. FTypes'
    BY <1>1, <2>2, SMT DEF FInv, FTypes
  <2>4. ~untruncated' => Single'
    <3>1. Single => pc[x] # "new" /\ x \notin Range(file) /\ (x \in lost \/ delivered[x] = 0)
      BY <2>1, CutLine
    <3>2. ASSUME Single PROVE Single'
      <4>1. IsInjective(file')
        BY <2>2, <3>1, <3>2 DEF Single, OneCopy
      <4>2. \A e \in Range(file') : pc[e] # "new" /\ (e \in lost \/ delivered[e] = 0)
        BY <1>6, <2>2, <3>1, <3>2
      <4> QED
        BY <1>4, <2>2, <3>2, <4>1, <4>2
    <3> QED
      BY <1>1, <3>2 DEF FInv
  <2> QED
    BY <1>8, <2>3, <2>4, <1>3 DEF FInv
<1> QED
  BY <1>7, <1>8, CrashDoes

(***************************************************************************)
(* The behaviours                                                          *)
(***************************************************************************)
LEMMA FaultStart == FaultInit => FInv
<1> SUFFICES ASSUME FaultInit PROVE FInv
  OBVIOUS
<1>1. TypeOK /\ IndInv
  BY InitIndInv DEF FaultInit
<1>2. Stored = {}
  BY EmptyHolds, Zenon DEF FaultInit, Init, Stored
<1>3. FTypes
  BY <1>1, SMT DEF TypeOK, FTypes
<1>4. Kept
  BY <1>1, Zenon DEF IndInv, FaultInit, Kept
<1>5. Single
  <2>1. \A e \in Entries : pc[e] = "new" /\ delivered[e] = 0
    BY DEF FaultInit, Init
  <2> QED
    BY <1>1, <1>2, <2>1, SMT DEF IndInv, Single, FinalStored, FNotYet
<1> QED
  BY <1>1, <1>3, <1>4, <1>5 DEF IndInv, FInv

LEMMA FaultInductive == FInv /\ [FaultNext]_allVars => FInv'
<1> SUFFICES ASSUME FInv, [FaultNext]_allVars PROVE FInv'
  OBVIOUS
<1>1. ASSUME NEW e \in Entries, FaultySubmit(e) PROVE FInv'
  <2>1. CASE SubmitSteps(e) /\ UNCHANGED faultVars
    BY <2>1, SubmitStepsKeep
  <2>2. CASE FaultySubmitAppend(e)
    BY <2>2, AppendKeeps
  <2> QED
    BY <1>1, <2>1, <2>2 DEF FaultySubmit, SubmitSteps
<1>2. CASE FaultyTryDrain
  <2>1. CASE (DrainRead \/ DrainCall \/ DrainLoopEnd) /\ UNCHANGED faultVars
    BY <2>1, DrainMoves, ReadKeeps
  <2>2. CASE (DrainSkip \/ DrainFail \/ DrainSucceed) /\ UNCHANGED faultVars
    BY <2>2, HeadKeeps
  <2>3. CASE (DrainWriteOk \/ DrainWriteErr) /\ UNCHANGED faultVars
    BY <2>3, WriteKeeps
  <2>4. CASE FaultyDrainRead
    <3>1. /\ UNCHANGED <<pc, delivered, lost, file, batch, failed, torn, exposed, untruncated>>
          /\ dpc = "read" /\ dpc' = "idle"
      BY <2>4 DEF FaultyDrainRead, subVars
    <3>2. Phases'
      BY <3>1, SMT DEF FInv, Phases
    <3> QED
      BY <3>1, <3>2, MovesOn
  <2>5. CASE FaultyDrainTruncate
    BY <2>5, TruncateKeeps
  <2>6. CASE FaultyDrainRequeue
    BY <2>6, RequeueKeeps
  <2> QED
    BY <1>2, <2>1, <2>2, <2>3, <2>4, <2>5, <2>6, Zenon DEF FaultyTryDrain
<1>3. CASE Crash
  BY <1>3, CrashKeeps
<1>4. CASE (DrainTick \/ DrainExit) /\ UNCHANGED faultVars
  BY <1>4, DrainMoves
<1>5. CASE \/ (Close \/ CircuitState \/ Pass \/ Flip) /\ UNCHANGED faultVars
           \/ UNCHANGED allVars
  <2>1. UNCHANGED <<pc, delivered, lost, file, dpc, batch, failed, torn, exposed, untruncated>>
    BY <1>5, SMT DEF Close, CircuitState, Pass, Flip, subVars, drainVars, faultVars,
       allVars, vars
  <2> QED
    BY <2>1, StillKeeps
<1> QED
  BY <1>1, <1>2, <1>3, <1>4, <1>5, Zenon DEF FaultNext

(***************************************************************************)
(* What crashes, torn writes and disk errors leave of NoLoss, OneCopy and  *)
(* NotYetApplied (Submit, tryDrain, New on a file that exists).            *)
(***************************************************************************)
THEOREM FaultInvariant == FaultSpec => []FInv
<1>1. FaultInit => FInv
  BY FaultStart
<1>2. FInv /\ [FaultNext]_allVars => FInv'
  BY FaultInductive
<1> QED
  BY <1>1, <1>2, PTL DEF FaultSpec

(***************************************************************************)
(* However often the process is killed, an accepted entry is lost only if  *)
(* tryDrain held it in memory, or after an append failed half way.         *)
(***************************************************************************)
THEOREM OnlyTheDrainLoses == FaultSpec => []LossNeedsExposure
<1>1. FInv => LossNeedsExposure
  BY DEF FInv, LossNeedsExposure, Kept
<1> QED
  BY <1>1, FaultInvariant, PTL

(***************************************************************************)
(* However often the process is killed, and whatever appends fail, nothing *)
(* is delivered twice unless os.Truncate failed or an acknowledgement was  *)
(* lost.                                                                   *)
(***************************************************************************)
THEOREM OnlyTruncateDoubles == FaultSpec => []TwiceNeedsFailedTruncate
<1>1. FInv => TwiceNeedsFailedTruncate
  BY Zenon DEF FInv, TwiceNeedsFailedTruncate, Single, FNotYet, AtMostOnce
<1> QED
  BY <1>1, FaultInvariant, PTL

\* The steps that write to the file.
LEMMA FileSteps ==
    ASSUME FInv, [FaultNext]_allVars, file' # file
    PROVE  \/ dpc = "truncate" /\ batch = file
           \/ \E e \in Entries : WriteLine(e) \/ WriteFails(e)
<1>1. ASSUME NEW e \in Entries, FaultySubmit(e)
      PROVE  WriteLine(e) \/ WriteFails(e)
  <2>1. ~SubmitSteps(e)
    BY SubmitStepsDo DEF FInv
  <2> QED
    BY <1>1, <2>1, Zenon DEF FaultySubmit, SubmitSteps, FaultySubmitAppend
<1>2. CASE FaultyDrainRequeue
  <2>1. Head(failed) \in Entries
    BY <1>2, TailHolds DEF FaultyDrainRequeue, FInv, FTypes, Phases
  <2> QED
    BY <1>2, <2>1, Zenon DEF FaultyDrainRequeue
<1>3. CASE FaultyDrainTruncate
  BY <1>3 DEF FaultyDrainTruncate, FInv, Phases
<1>4. CASE Crash
  BY <1>4, CrashDoes, Zenon
<1>5. CASE /\ \/ DrainRead \/ DrainSkip \/ DrainCall \/ DrainWriteOk \/ DrainWriteErr
              \/ DrainSucceed \/ DrainFail \/ DrainLoopEnd \/ FaultyDrainRead
  BY <1>5, SMT DEF DrainRead, DrainSkip, DrainCall, DrainWriteOk, DrainWriteErr,
     DrainSucceed, DrainFail, DrainLoopEnd, FaultyDrainRead
<1>6. CASE \/ DrainTick \/ DrainExit \/ Close \/ CircuitState \/ Pass \/ Flip
           \/ UNCHANGED allVars
  BY <1>6, SMT DEF DrainTick, DrainExit, Close, CircuitState, Pass, Flip, allVars, vars
<1> QED
  BY <1>1, <1>2, <1>3, <1>4, <1>5, <1>6, Zenon DEF FaultNext, FaultyTryDrain

(***************************************************************************)
(* A readable line leaves the file only with the batch that tryDrain has   *)
(* read, or because it had no newline and the next write was glued to it.  *)
(***************************************************************************)
THEOREM NoLineIsDiscarded == FaultSpec => LineLeavesForAReason
<1> DEFINE Reason == \A e \in Range(file) \ Range(file') :
                        \/ dpc = "truncate" /\ e \in Range(batch)
                        \/ torn = "whole" /\ e = file[Len(file)]
<1>1. FInv /\ [FaultNext]_allVars => Reason
  <2> SUFFICES ASSUME FInv, [FaultNext]_allVars PROVE Reason
    OBVIOUS
  <2>1. CASE file' = file
    BY <2>1
  <2>2. CASE dpc = "truncate" /\ batch = file
    BY <2>2
  <2>3. CASE \E e \in Entries : WriteLine(e) \/ WriteFails(e)
    <3>1. PICK e \in Entries : WriteLine(e) \/ WriteFails(e)
      BY <2>3
    <3> QED
      BY <3>1, WrittenHolds DEF FInv, FTypes
  <2> QED
    BY <2>1, <2>2, <2>3, FileSteps
<1>2. FInv /\ [FaultNext]_allVars => [Reason]_allVars
  BY <1>1
<1> QED
  BY <1>2, FaultInvariant, PTL DEF FaultSpec, LineLeavesForAReason
(***************************************************************************)
(* The promise                                                             *)
(***************************************************************************)
\* A step that tells callers nothing and applies nothing lets go of what was
\* applied, if of anything.
LEMMA LetsGo ==
    ASSUME FTypes, Verdict' = Verdict, UNCHANGED delivered, Stored' \subseteq Stored,
           \A e \in Stored \ Stored' : delivered[e] > 0
    PROVE  Promise!PromiseNext
<1>1. Stored \subseteq Entries
  BY HoldsEntries DEF FTypes, Stored
<1>2. AppliedSet' = AppliedSet
  BY Zenon DEF AppliedSet
<1>3. PICK es \in SUBSET Stored : es = Stored \ Stored'
  BY Zenon
<1>4. es \subseteq Stored \intersect AppliedSet /\ Stored' = Stored \ es
  BY <1>1, <1>3, Zenon DEF AppliedSet
<1>5. Promise!Release(es)
  BY <1>2, <1>4, Zenon DEF Promise!Release, AppliedSet
<1> QED
  BY <1>5, Zenon DEF Promise!PromiseNext

\* A step of Submit is one of the promise: a line that is written whole is
\* held.
LEMMA FaultySubmitPromises ==
    ASSUME FInv, ~exposed, ~exposed', NEW e \in Entries, FaultySubmit(e)
    PROVE  Promise!PromiseNext \/ UNCHANGED Promise!promiseVars
<1> USE DEF Promise!promiseVars, Promise!PromiseNext
<1>1. /\ FTypes /\ DOMAIN pc = Entries /\ delivered \in [Entries -> 0 .. 2]
      /\ torn = "none"
  BY DEF FInv, FTypes, Kept
<1>2. UNCHANGED delivered => AppliedSet' = AppliedSet
  BY Zenon DEF AppliedSet
<1>3. CASE SubmitSteps(e)
  <2>1. /\ UNCHANGED <<file, dpc, batch, failed>> /\ pc[e] \notin Final
        /\ \E s \in SubmitStates :
              /\ Goto(e, s)
              /\ s = "accepted" => pc[e] = "ok" /\ UNCHANGED delivered
              /\ UNCHANGED delivered \/ (delivered' = Applied(e) /\ s \in {"ok", "err"})
    BY <1>1, <1>3, SubmitStepsDo, Zenon
  <2>2. PICK s \in SubmitStates :
            /\ Goto(e, s)
            /\ s = "accepted" => pc[e] = "ok" /\ UNCHANGED delivered
            /\ UNCHANGED delivered \/ (delivered' = Applied(e) /\ s \in {"ok", "err"})
    BY <2>1
  <2>3. Stored' = Stored
    BY <2>1, Zenon DEF Stored
  <2>4. /\ Verdict[e] = "pending"
        /\ Verdict' = IF s \in {"accepted", "rejected"}
                         THEN [Verdict EXCEPT ![e] = s] ELSE Verdict
    BY <1>1, <2>1, <2>2, VerdictOf, Zenon DEF Final
  <2>5. CASE s = "accepted"
    <3>1. UNCHANGED delivered /\ delivered[e] > 0
      BY <2>2, <2>5, Zenon DEF FInv, AppliedWhenOk
    <3>2. e \in AppliedSet /\ AppliedSet' = AppliedSet
      BY <1>2, <3>1, Zenon DEF AppliedSet
    <3>3. Verdict' = [Verdict EXCEPT ![e] = "accepted"]
      BY <2>4, <2>5, Zenon
    <3>4. Promise!Accept(e)
      BY <2>3, <2>4, <3>2, <3>3, Zenon DEF Promise!Accept, AppliedSet
    <3> QED
      BY <3>4
  <2>6. CASE s = "rejected"
    <3>1. UNCHANGED delivered
      BY <2>2, <2>6
    <3>2. Verdict' = [Verdict EXCEPT ![e] = "rejected"]
      BY <2>4, <2>6, Zenon
    <3>3. Promise!Reject(e)
      BY <1>2, <2>3, <2>4, <3>1, <3>2, Zenon DEF Promise!Reject, AppliedSet
    <3> QED
      BY <3>3
  <2>7. CASE s \notin {"accepted", "rejected"} /\ UNCHANGED delivered
    <3>1. Verdict' = Verdict
      BY <2>4, <2>7, Zenon
    <3> QED
      BY <1>2, <2>3, <2>7, <3>1, Zenon DEF AppliedSet
  <2>8. CASE delivered' = Applied(e) /\ s \in {"ok", "err"}
    <3>1. Verdict' = Verdict
      BY <2>4, <2>8, SMT
    <3>2. AppliedSet' = AppliedSet \union {e}
      BY <1>1, <2>8, AppliedOf
    <3>3. Promise!Apply(e)
      BY <2>3, <2>4, <3>1, <3>2, Zenon DEF Promise!Apply, AppliedSet
    <3> QED
      BY <3>3
  <2> QED
    BY <2>2, <2>5, <2>6, <2>7, <2>8, Zenon
<1>4. CASE FaultySubmitAppend(e)
  <2>1. /\ WriteLine(e) /\ Goto(e, "accepted") /\ pc[e] = "append"
        /\ UNCHANGED <<delivered, batch, failed>>
    BY <1>4, Zenon DEF FaultySubmitAppend, drainVars
  <2>2. Stored' = Stored \union {e}
    <3>1. Range(file') = Range(file) \union {e}
      BY <1>1, <2>1, WholeLine DEF FTypes
    <3> QED
      BY <2>1, <3>1, Zenon DEF Stored
  <2>3. Verdict[e] = "pending" /\ Verdict' = [Verdict EXCEPT ![e] = "accepted"]
    BY <1>1, <2>1, VerdictOf, SMT DEF SubmitStates
  <2>4. Promise!Accept(e)
    BY <1>2, <2>1, <2>2, <2>3, Zenon DEF Promise!Accept, AppliedSet
  <2> QED
    BY <2>4
<1> QED
  BY <1>3, <1>4, Zenon DEF FaultySubmit, SubmitSteps

\* So is a step of tryDrain: what leaves its hands was applied.
LEMMA FaultyDrainPromises ==
    ASSUME FInv, ~exposed, ~exposed', FaultyTryDrain
    PROVE  Promise!PromiseNext
<1>1. FTypes /\ torn = "none"
  BY DEF FInv, Kept
<1>2. pc' = pc => Verdict' = Verdict
  BY Zenon DEF Verdict
<1>3. batch # <<>> => /\ Head(batch) \in Entries
                      /\ Range(batch) = {Head(batch)} \union Range(Tail(batch))
                      /\ Range(Append(failed, Head(batch))) = Range(failed) \union {Head(batch)}
  <2>1. batch # <<>> => /\ Head(batch) \in Entries
                        /\ Range(batch) = {Head(batch)} \union Range(Tail(batch))
    BY <1>1, TailHolds DEF FTypes
  <2> QED
    BY <1>1, <2>1, AppendHolds DEF FTypes
<1>4. ASSUME UNCHANGED <<pc, delivered, file, batch, failed>>
      PROVE  Promise!PromiseNext
  <2>1. Stored' = Stored
    BY <1>4, Zenon DEF Stored
  <2> QED
    BY <1>1, <1>2, <1>4, <2>1, LetsGo, Zenon
<1>5. CASE DrainCall \/ DrainLoopEnd \/ FaultyDrainRead
  <2>1. UNCHANGED <<pc, delivered, file, batch, failed>>
    BY <1>5, SMT DEF DrainCall, DrainLoopEnd, FaultyDrainRead, subVars
  <2> QED
    BY <1>4, <2>1
<1>6. CASE DrainRead
  <2>1. /\ UNCHANGED <<pc, delivered, file, failed>>
        /\ batch = <<>> /\ (batch' = batch \/ batch' = file)
    BY <1>6, SMT DEF DrainRead, FInv, Phases, subVars
  <2>2. Stored' = Stored
    BY <2>1, EmptyHolds, Zenon DEF Stored
  <2> QED
    BY <1>1, <1>2, <2>1, <2>2, LetsGo, Zenon
<1>7. CASE FaultyDrainTruncate
  <2>1. /\ UNCHANGED <<pc, delivered, batch, failed>> /\ batch = file
        /\ file' = <<>> \/ file' = file
    BY <1>7, SMT DEF FaultyDrainTruncate, FInv, Phases, subVars
  <2>2. Stored' = Stored
    BY <2>1, EmptyHolds, Zenon DEF Stored
  <2> QED
    BY <1>1, <1>2, <2>1, <2>2, LetsGo, Zenon
<1>8. CASE DrainSkip \/ DrainFail
  <2>1. /\ UNCHANGED <<pc, delivered, file>> /\ batch # <<>> /\ batch' = Tail(batch)
        /\ failed' = Append(failed, Head(batch))
    <3>1. CASE DrainSkip
      BY <3>1, SMT DEF DrainSkip, subVars
    <3>2. CASE DrainFail
      BY <3>2, SMT DEF DrainFail, subVars, FInv, Phases
    <3> QED
      BY <1>8, <3>1, <3>2
  <2>2. Stored' = Stored
    BY <1>3, <2>1, Zenon DEF Stored
  <2> QED
    BY <1>1, <1>2, <2>1, <2>2, LetsGo, Zenon
<1>9. CASE DrainSucceed
  <2>1. /\ UNCHANGED <<pc, delivered, file, failed>> /\ batch # <<>> /\ batch' = Tail(batch)
        /\ delivered[Head(batch)] > 0
    BY <1>9, SMT DEF DrainSucceed, subVars, FInv, Phases, AppliedWhenOk
  <2>2. Stored' \subseteq Stored /\ \A e \in Stored \ Stored' : delivered[e] > 0
    BY <1>3, <2>1, Zenon DEF Stored
  <2> QED
    BY <1>1, <1>2, <2>1, <2>2, LetsGo, Zenon
<1>10. CASE DrainWriteOk \/ DrainWriteErr
  <2>1. /\ UNCHANGED <<pc, file, batch, failed>> /\ batch # <<>>
        /\ delivered' = delivered \/ delivered' = Applied(Head(batch))
    <3>1. CASE DrainWriteOk
      BY <3>1, SMT DEF DrainWriteOk, FInv, Phases
    <3>2. CASE DrainWriteErr
      <4>1. dpc = "call" /\ UNCHANGED <<pc, file, batch, failed>>
        BY <3>2, SMT DEF DrainWriteErr
      <4>2. delivered' = delivered \/ delivered' = Applied(Head(batch))
        BY <3>2, Zenon DEF DrainWriteErr, AnswerLost
      <4> QED
        BY <4>1, <4>2, SMT DEF FInv, Phases
    <3> QED
      BY <1>10, <3>1, <3>2
  <2>2. CASE delivered' = delivered
    BY <1>4, <2>1, <2>2
  <2>3. CASE delivered' = Applied(Head(batch))
    <3>1. PICK h \in Entries : h = Head(batch) /\ h \in Stored
      BY <1>3, <2>1, Zenon DEF Stored
    <3>2. AppliedSet' = AppliedSet \union {h}
      BY <1>1, <2>3, <3>1, AppliedOf DEF FTypes
    <3>3. Stored' = Stored /\ Verdict' = Verdict
      BY <1>2, <2>1, Zenon DEF Stored
    <3>4. Promise!Apply(h)
      BY <3>1, <3>2, <3>3, Zenon DEF Promise!Apply, AppliedSet
    <3> QED
      BY <3>4, Zenon DEF Promise!PromiseNext
  <2> QED
    BY <2>1, <2>2, <2>3
<1>11. CASE FaultyDrainRequeue
  <2>1. /\ UNCHANGED <<pc, delivered, batch>> /\ failed # <<>> /\ failed' = Tail(failed)
        /\ WriteLine(Head(failed))
    <3>1. failed # <<>>
      BY <1>11, SMT DEF FaultyDrainRequeue, FInv, Phases
    <3> QED
      BY <1>11, <3>1, Zenon DEF FaultyDrainRequeue, subVars
  <2>2. /\ Head(failed) \in Entries
        /\ Range(failed) = {Head(failed)} \union Range(Tail(failed))
    BY <1>1, <2>1, TailHolds DEF FTypes
  <2>3. Range(file') = Range(file) \union {Head(failed)}
    BY <1>1, <2>1, <2>2, WholeLine DEF FTypes
  <2>4. Stored' = Stored
    BY <2>1, <2>2, <2>3, Zenon DEF Stored
  <2> QED
    BY <1>1, <1>2, <2>1, <2>4, LetsGo, Zenon
<1> QED
  BY <1>5, <1>6, <1>7, <1>8, <1>9, <1>10, <1>11, Zenon DEF FaultyTryDrain

\* A crash tells nobody anything, and what only memory held was applied.
LEMMA CrashPromises ==
    ASSUME FInv, ~exposed', Crash
    PROVE  Promise!PromiseNext
<1>1. /\ UNCHANGED <<delivered, file>> /\ batch' = <<>> /\ failed' = <<>>
      /\ ~\E e \in Stored \ Range(file) : delivered[e] = 0
  BY CrashDoes, Zenon
<1>2. FTypes /\ Stored \subseteq Entries
  BY HoldsEntries DEF FInv, FTypes, Stored
<1>3. Stored' = Range(file)
  BY <1>1, EmptyHolds, Zenon DEF Stored
<1>4. \A e \in Stored \ Stored' : delivered[e] > 0
  BY <1>1, <1>2, <1>3, SMT DEF FTypes
<1>5. Verdict' = Verdict
  <2>1. pc' = [e \in Entries |->
                  IF pc[e] \in {"new", "accepted", "rejected"} THEN pc[e] ELSE "crashed"]
    BY Zenon DEF Crash
  <2>2. \A e \in Entries : /\ pc'[e] \in {"accepted", "rejected"}
                               <=> pc[e] \in {"accepted", "rejected"}
                           /\ pc'[e] \in {"accepted", "rejected"} => pc'[e] = pc[e]
    BY <2>1, SMT
  <2> QED
    BY <2>2, Zenon DEF Verdict
<1>6. Stored' \subseteq Stored
  BY <1>3, Zenon DEF Stored
<1> QED
  BY <1>1, <1>2, <1>4, <1>5, <1>6, LetsGo, Zenon

(***************************************************************************)
(* However often the process is killed and started again, the outbox keeps *)
(* the promise of SubmitPromise until the drain is killed with entries in  *)
(* memory only, or an append fails (New, Submit, tryDrain).                *)
(***************************************************************************)
THEOREM PromiseSurvivesCrashes == FaultSpec => PromiseUntilExposed
<1>1. FaultInit => Promise!PromiseInit
  BY PromiseStart, Zenon DEF FaultInit
<1>2. FInv /\ [FaultNext]_allVars =>
          [\/ exposed' \/ Promise!PromiseNext \/ UNCHANGED Promise!promiseVars]_allVars
  <2> SUFFICES ASSUME FInv, [FaultNext]_allVars, ~exposed'
               PROVE  Promise!PromiseNext \/ UNCHANGED Promise!promiseVars
    BY Zenon
  <2>1. ASSUME NEW e \in Entries, FaultySubmit(e), ~exposed
        PROVE  Promise!PromiseNext \/ UNCHANGED Promise!promiseVars
    BY <2>1, FaultySubmitPromises
  <2>2. CASE FaultyTryDrain /\ ~exposed
    BY <2>2, FaultyDrainPromises
  <2>3. CASE Crash
    BY <2>3, CrashPromises
  <2>4. CASE \/ DrainTick \/ DrainExit \/ Close \/ CircuitState \/ Pass \/ Flip
             \/ UNCHANGED allVars
    <3>1. \/ DrainTick \/ DrainExit \/ Close \/ CircuitState \/ Pass \/ Flip
          \/ UNCHANGED vars
      BY <2>4, Zenon DEF allVars
    <3> QED
      BY <3>1, QuietRefines
  <2>5. (\E e \in Entries : FaultySubmit(e)) \/ FaultyTryDrain => ~exposed
    BY Zenon DEF FaultySubmit, FaultySubmitAppend, FaultyTryDrain, FaultyDrainRead,
       FaultyDrainTruncate, FaultyDrainRequeue, faultVars
  <2> QED
    BY <2>1, <2>2, <2>3, <2>4, <2>5, Zenon DEF FaultNext
<1> QED
  BY <1>1, <1>2, FaultInvariant, PTL DEF FaultSpec, PromiseUntilExposed
(***************************************************************************)
(* Without faults                                                          *)
(***************************************************************************)
\* Only faults leave a torn line.
Unharmed == faults \in Nat /\ (faults = 0 => torn = "none")

\* Until the first fault each step is one of the outbox.
AsOutbox == Init /\ [][ faults' = 0 => [Next]_vars ]_allVars

LEMMA UnharmedStep ==
    ASSUME Unharmed, [FaultNext]_allVars
    PROVE  Unharmed' /\ (faults' = 0 => [Next]_vars)
<1>1. Fault => faults' \in Nat /\ faults' # 0
  BY SMT DEF Fault, Unharmed
<1>2. ASSUME UNCHANGED faultVars PROVE Unharmed'
  BY <1>2, Zenon DEF faultVars, Unharmed
<1>3. ASSUME NEW e \in Entries, WriteLine(e) PROVE torn' = "none"
  BY <1>3, Zenon DEF WriteLine
<1>4. ASSUME torn = "none", NEW e, WriteLine(e) PROVE file' = Append(file, e)
  BY <1>4, Zenon DEF WriteLine
<1>5. ASSUME UNCHANGED faults, torn' = "none" PROVE Unharmed'
  BY <1>5, Zenon DEF Unharmed
<1>6. ASSUME UNCHANGED faults, faults' = 0 PROVE torn = "none"
  BY <1>6, Zenon DEF Unharmed
<1>7. ASSUME NEW e \in Entries, FaultySubmit(e)
      PROVE  Unharmed' /\ (faults' = 0 => Next)
  <2>1. CASE SubmitSteps(e) /\ UNCHANGED faultVars
    BY <1>2, <2>1, Zenon DEF SubmitSteps, Submit, Next
  <2>2. CASE FaultySubmitAppend(e) /\ Fault
    BY <1>1, <2>2, Zenon DEF Unharmed
  <2>3. CASE FaultySubmitAppend(e) /\ ~Fault
    <3>1. WriteLine(e) /\ Goto(e, "accepted") /\ UNCHANGED faults
      BY <2>3, Zenon DEF FaultySubmitAppend
    <3>2. Unharmed'
      BY <1>3, <1>5, <3>1, Zenon
    <3>3. faults' = 0 => SubmitAppend(e)
      BY <1>4, <1>6, <2>3, <3>1, Zenon DEF FaultySubmitAppend, SubmitAppend
    <3> QED
      BY <3>2, <3>3, Zenon DEF Submit, Next
  <2> QED
    BY <1>7, <2>1, <2>2, <2>3, Zenon DEF FaultySubmit, SubmitSteps
<1>8. CASE FaultyTryDrain
  <2>1. CASE /\ \/ DrainRead \/ DrainSkip \/ DrainCall \/ DrainWriteOk \/ DrainWriteErr
                \/ DrainSucceed \/ DrainFail \/ DrainLoopEnd
             /\ UNCHANGED faultVars
    BY <1>2, <2>1, Zenon DEF TryDrain, Next
  <2>2. CASE (FaultyDrainRead \/ FaultyDrainTruncate \/ FaultyDrainRequeue) /\ Fault
    BY <1>1, <2>2, Zenon DEF Unharmed
  <2>3. CASE FaultyDrainTruncate /\ ~Fault
    <3>1. DrainTruncate /\ torn' = "none" /\ UNCHANGED faults
      BY <2>3, Zenon DEF FaultyDrainTruncate, DrainTruncate
    <3> QED
      BY <1>5, <3>1, Zenon DEF TryDrain, Next
  <2>4. CASE FaultyDrainRequeue /\ ~Fault
    <3>1. WriteLine(Head(failed)) /\ UNCHANGED faults
      BY <2>4, Zenon DEF FaultyDrainRequeue
    <3>2. torn' = "none"
      BY <3>1, Zenon DEF WriteLine
    <3>3. faults' = 0 => DrainRequeue
      BY <1>4, <1>6, <2>4, <3>1, Zenon DEF FaultyDrainRequeue, DrainRequeue
    <3> QED
      BY <1>5, <3>1, <3>2, <3>3, Zenon DEF TryDrain, Next
  <2>5. FaultyDrainRead => Fault
    BY Zenon DEF FaultyDrainRead
  <2> QED
    BY <1>8, <2>1, <2>2, <2>3, <2>4, <2>5, Zenon DEF FaultyTryDrain
<1>9. CASE Crash
  BY <1>1, <1>9, Zenon DEF Crash, Unharmed
<1>10. CASE /\ DrainTick \/ DrainExit \/ Close \/ CircuitState \/ Pass \/ Flip
            /\ UNCHANGED faultVars
  BY <1>2, <1>10, Zenon DEF Next
<1>11. CASE UNCHANGED allVars
  BY <1>2, <1>11, Zenon DEF allVars
<1> QED
  BY <1>7, <1>8, <1>9, <1>10, <1>11, Zenon DEF FaultNext

(***************************************************************************)
(* The outbox with faults is the outbox until the first of them: faults    *)
(* are all that the one model adds to the other.                           *)
(***************************************************************************)
THEOREM FaultsAreTheDifference == FaultSpec => AsOutbox
<1>1. FaultInit => Init /\ Unharmed
  BY SMT DEF FaultInit, Unharmed
<1>2. Unharmed /\ [FaultNext]_allVars => Unharmed'
  BY UnharmedStep
<1>3. Unharmed /\ [FaultNext]_allVars => [faults' = 0 => [Next]_vars]_allVars
  BY UnharmedStep
<1> QED
  BY <1>1, <1>2, <1>3, PTL DEF FaultSpec, AsOutbox
=============================================================================

---------------------------- MODULE OutboxFaults ----------------------------
(***************************************************************************)
(* The outbox with a process that is killed and started again on the same  *)
(* file, and with a disk whose operations fail.  The code returns the      *)
(* error of an append to Submit's caller, and ignores the errors of        *)
(* os.Truncate and of the re-queue in tryDrain.                            *)
(*                                                                         *)
(* A write that stops half way leaves a line with no newline at the end of *)
(* the file: the next line is glued to it and readAllLocked skips both.    *)
(* The variable file keeps the lines that parse, torn says how it ends.    *)
(***************************************************************************)
EXTENDS Outbox

CONSTANT MaxFaults  \* bound on the crashes and disk errors of a behaviour

ASSUME FaultAssumption == MaxFaults \in Nat

VARIABLES
    torn,         \* how the file ends: "none" (with a newline), "part" (bytes
                  \* that do not parse), "whole" (file's last line, unended)
    faults,       \* crashes and disk errors so far
    exposed,      \* a crash hit the drain with entries in memory only, or an
                  \* append failed: the cases in which entries may be lost
    untruncated   \* os.Truncate has failed

faultVars == <<torn, faults, exposed, untruncated>>
allVars == <<vars, faultVars>>

FaultInit ==
    /\ Init
    /\ torn = "none"
    /\ faults = 0
    /\ exposed = FALSE
    /\ untruncated = FALSE

Fault ==
    /\ faults < MaxFaults
    /\ faults' = faults + 1

\* The lines that still parse once more bytes follow the last one.
Glued == IF torn = "whole" THEN SubSeq(file, 1, Len(file) - 1) ELSE file

\* One line reaches the disk: it is lost if it was glued to a torn one.
WriteLine(e) ==
    /\ file' = IF torn = "none" THEN Append(file, e) ELSE Glued
    /\ torn' = "none"

\* OpenFile fails and nothing is written, or the write stops half way, or it
\* stops just before the newline.
WriteFails(e) ==
    \/ UNCHANGED <<file, torn>>
    \/ file' = Glued /\ torn' = "part"
    \/ torn = "none" /\ file' = Append(file, e) /\ torn' = "whole"

\* A bug the properties must see: the line is written without o.mu.
FaultySubmitAppendUnlocked(e) ==
    /\ pc[e] = "append"
    /\ e \notin Unencodable
    /\ WriteLine(e)
    /\ Goto(e, "accepted")
    /\ UNCHANGED <<cbVars, delivered, lost, drainVars, cancelled, up, faults, exposed, untruncated>>

FaultySubmitAppend(e) ==
    /\ pc[e] = "append"
    /\ ~Locked
    /\ e \notin Unencodable
    /\ \/ /\ WriteLine(e)
          /\ Goto(e, "accepted")
          /\ UNCHANGED <<faults, exposed>>
       \/ /\ Fault
          /\ WriteFails(e)
          /\ Goto(e, "rejected")
          /\ exposed' = TRUE
    /\ UNCHANGED <<cbVars, delivered, lost, drainVars, cancelled, up, untruncated>>

\* The file cannot be opened: tryDrain gives up until the next tick.
FaultyDrainRead ==
    /\ dpc = "read"
    /\ Fault
    /\ dpc' = "idle"
    /\ UNCHANGED <<cbVars, subVars, file, batch, failed, cancelled, up, torn,
                   exposed, untruncated>>

\* A bug the properties must see: the file is not truncated.
FaultyDrainTruncateForgotten ==
    /\ dpc = "truncate"
    /\ dpc' = "loop"
    /\ UNCHANGED <<cbVars, subVars, file, batch, failed, cancelled, up, faultVars>>

FaultyDrainTruncate ==
    /\ dpc = "truncate"
    /\ dpc' = "loop"
    /\ \/ /\ file' = <<>>
          /\ torn' = "none"
          /\ UNCHANGED <<faults, untruncated>>
       \/ /\ Fault
          /\ untruncated' = TRUE
          /\ UNCHANGED <<file, torn>>
    /\ UNCHANGED <<cbVars, subVars, batch, failed, cancelled, up, exposed>>

FaultyDrainRequeue ==
    /\ dpc = "requeue"
    /\ \/ WriteLine(Head(failed)) /\ UNCHANGED <<faults, exposed>>
       \/ Fault /\ WriteFails(Head(failed)) /\ exposed' = TRUE
    /\ failed' = Tail(failed)
    /\ dpc' = IF failed' = <<>> THEN "idle" ELSE "requeue"
    /\ UNCHANGED <<cbVars, subVars, batch, cancelled, up, untruncated>>

\* The process is killed, perhaps in the middle of a write, and New is called
\* on the same file: what was in memory is gone, the breaker with it.
Crash ==
    /\ Fault
    /\ \/ UNCHANGED <<file, torn>>
          /\ exposed' = (exposed \/ \E e \in Stored \ Range(file) : delivered[e] = 0)
       \/ /\ \/ \E e \in Entries : pc[e] = "append" /\ ~Locked /\ WriteFails(e)
             \/ dpc = "requeue" /\ WriteFails(Head(failed))
          /\ exposed' = TRUE
    /\ pc' = [e \in Entries |->
                 IF pc[e] \in {"new", "accepted", "rejected"} THEN pc[e] ELSE "crashed"]
    /\ cbState' = "closed" /\ failureCount' = 0 /\ age' = Reset
    /\ dpc' = "idle" /\ batch' = <<>> /\ failed' = <<>> /\ cancelled' = FALSE
    /\ UNCHANGED <<delivered, lost, up, untruncated>>

FaultySubmit(e) ==
    \/ /\ \/ SubmitAllow(e) \/ SubmitDivert(e) \/ SubmitWriteOk(e) \/ SubmitWriteErr(e)
          \/ SubmitSucceed(e) \/ SubmitFail(e) \/ SubmitCheck(e) \/ SubmitAppendFail(e)
       /\ UNCHANGED faultVars
    \/ FaultySubmitAppend(e)

\* A bug the properties must see: a line that does not parse ends the read
\* with an error, as an oversize line does.
StrictDrainSteps ==
    \/ /\ \/ (DrainRead /\ torn # "part") \/ DrainSkip \/ DrainCall \/ DrainWriteOk
          \/ DrainWriteErr \/ DrainSucceed \/ DrainFail \/ DrainLoopEnd
          \/ (dpc = "read" /\ torn = "part" /\ dpc' = "idle"
              /\ UNCHANGED <<cbVars, subVars, file, batch, failed, cancelled, up>>)
       /\ UNCHANGED faultVars
    \/ FaultyDrainRead \/ FaultyDrainTruncate \/ FaultyDrainRequeue

FaultyTryDrain ==
    \/ /\ \/ DrainRead \/ DrainSkip \/ DrainCall \/ DrainWriteOk \/ DrainWriteErr
          \/ DrainSucceed \/ DrainFail \/ DrainLoopEnd
       /\ UNCHANGED faultVars
    \/ FaultyDrainRead \/ FaultyDrainTruncate \/ FaultyDrainRequeue

FaultNext ==
    \/ \E e \in Entries : FaultySubmit(e)
    \/ FaultyTryDrain
    \/ Crash
    \/ /\ DrainTick \/ DrainExit \/ Close \/ CircuitState \/ Pass \/ Flip
       /\ UNCHANGED faultVars

FaultSpec == FaultInit /\ [][FaultNext]_allVars

\* As in Outbox: goroutines are scheduled, ticks come, Close is nobody's duty.
FaultFairSpec ==
    /\ FaultSpec
    /\ \A e \in Entries : WF_allVars(pc[e] # "new" /\ FaultySubmit(e))
    /\ WF_allVars(FaultyTryDrain)
    /\ WF_allVars(DrainTick /\ UNCHANGED faultVars)
    /\ WF_allVars(Pass /\ UNCHANGED faultVars)

(***************************************************************************)
(* A process may be killed at any point and no accepted entry is lost,     *)
(* except when the drain holds entries it has truncated from the file (or  *)
(* has not yet written back), or when an append failed half way: tryDrain  *)
(* is the only window.                                                     *)
(***************************************************************************)
LossNeedsExposure == ~exposed => NoLoss

(***************************************************************************)
(* At-most-once delivery survives crashes and failed appends: but for a    *)
(* lost answer of its own, only a truncation whose error was ignored makes *)
(* the upstream see an entry twice (tryDrain, os.Truncate).                *)
(***************************************************************************)
TwiceNeedsFailedTruncate == ~untruncated => AtMostOnce

(***************************************************************************)
(* What is readable in the file leaves it only after the drain has read    *)
(* it, or when it has no newline and the next line is glued to it: no      *)
(* crash, re-queue or concurrent Submit discards a line.                   *)
(***************************************************************************)
LineLeavesForAReason ==
    [][ \A e \in Range(file) \ Range(file') :
            \/ dpc = "truncate" /\ e \in Range(batch)
            \/ torn = "whole" /\ e = file[Len(file)] ]_allVars

(***************************************************************************)
(* The promise of SubmitPromise survives crashes: until one of the unsafe  *)
(* cases happens, each step is one that the promise allows, the crashes    *)
(* and the starts on the old file included, and whatever truncations fail  *)
(* (New, Submit, tryDrain).                                                *)
(***************************************************************************)
PromiseUntilExposed ==
    /\ Promise!PromiseInit
    /\ [][ \/ exposed'
           \/ Promise!PromiseNext
           \/ UNCHANGED Promise!promiseVars ]_allVars

(***************************************************************************)
(* A backlog left in the file, by this process or by one that was killed,  *)
(* is eventually read once the upstream stays up and nobody closes the     *)
(* outbox, whatever unreadable bytes the file contains.                    *)
(***************************************************************************)
BacklogDrains ==
    (<>[]up /\ []~cancelled) =>
        \A e \in Entries : (e \in Range(file)) ~> (e \notin Range(file))
=============================================================================

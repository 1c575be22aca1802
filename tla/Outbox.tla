------------------------------- MODULE Outbox -------------------------------
(***************************************************************************)
(* The store-and-forward outbox of internal/outbox/outbox.go: goroutines   *)
(* in Submit, the drain goroutine started by New, Close, and the readers   *)
(* of the breaker's state, interleaved between the critical sections of    *)
(* o.mu and of the breaker's own lock.                                     *)
(*                                                                         *)
(* The disk does what it is told and the process does not crash here:      *)
(* OutboxFaults has both.  An entry is submitted once and stands for its   *)
(* NDJSON line.                                                            *)
(***************************************************************************)
EXTENDS CircuitBreaker, Sequences, Functions, FiniteSets

CONSTANTS
    Entries,      \* the entries callers submit
    Oversize,     \* entries whose line is longer than bufio.Scanner accepts
    Unencodable,  \* entries json.Marshal refuses
    Poison,       \* entries the upstream always answers with an error
    AckLoss       \* entries whose Write may be applied and return an error

ASSUME OutboxAssumption ==
    /\ Oversize \subseteq Entries
    /\ Unencodable \subseteq Entries
    /\ Poison \subseteq Entries
    /\ AckLoss \subseteq Entries

VARIABLES
    pc,         \* pc[e]: where the goroutine that submits e is
    file,       \* the lines of the file at o.filePath
    dpc,        \* where the drain goroutine is
    batch,      \* tryDrain's entries, those its loop has not finished with
    failed,     \* tryDrain's failed
    cancelled,  \* Close has called o.cancel
    delivered,  \* delivered[e]: times the upstream applied e, counted to 2
    lost,       \* entries applied by a Write that returned an error (history)
    up          \* the upstream answers (the environment's choice)

subVars == <<pc, delivered, lost>>
drainVars == <<dpc, batch, failed>>
vars == <<cbVars, pc, file, dpc, batch, failed, cancelled, delivered, lost, up>>

SubmitStates ==
    {"new", "write", "ok", "err", "check", "append", "accepted", "rejected"}

DrainStates ==
    {"idle", "read", "truncate", "loop", "call", "ok", "err", "requeue", "exited"}

TypeOK ==
    /\ CBTypeOK
    /\ pc \in [Entries -> SubmitStates]
    /\ file \in Seq(Entries)
    /\ dpc \in DrainStates
    /\ batch \in Seq(Entries)
    /\ failed \in Seq(Entries)
    /\ cancelled \in BOOLEAN
    /\ delivered \in [Entries -> 0 .. 2]
    /\ lost \subseteq AckLoss
    /\ up \in BOOLEAN

Init ==
    /\ CBInit
    /\ pc = [e \in Entries |-> "new"]
    /\ file = <<>>
    /\ dpc = "idle"
    /\ batch = <<>>
    /\ failed = <<>>
    /\ cancelled = FALSE
    /\ delivered = [e \in Entries |-> 0]
    /\ lost = {}
    /\ up \in BOOLEAN

\* o.mu is held over these steps of the drain goroutine; every other critical
\* section of o.mu is one action.
Locked == dpc \in {"truncate", "requeue"}

Applied(e) == [delivered EXCEPT ![e] = IF @ = 2 THEN 2 ELSE @ + 1]

\* A Write that was applied although it returned an error.
AnswerLost(e) ==
    /\ e \in AckLoss
    /\ delivered' = Applied(e)
    /\ lost' = lost \union {e}

Goto(e, s) == pc' = [pc EXCEPT ![e] = s]

(***************************************************************************)
(* Submit                                                                  *)
(***************************************************************************)
SubmitAllow(e) ==
    /\ pc[e] = "new"
    /\ Allow
    /\ Goto(e, "write")
    /\ UNCHANGED <<delivered, lost, file, drainVars, cancelled, up>>

\* The breaker is open: straight to the file.
SubmitDivert(e) ==
    /\ pc[e] = "new"
    /\ Deny
    /\ Goto(e, "append")
    /\ UNCHANGED <<delivered, lost, file, drainVars, cancelled, up>>

SubmitWriteOk(e) ==
    /\ pc[e] = "write"
    /\ up
    /\ e \notin Poison
    /\ Goto(e, "ok")
    /\ delivered' = Applied(e)
    /\ UNCHANGED <<cbVars, lost, file, drainVars, cancelled, up>>

\* Possible while the upstream is healthy too: the caller's context may end.
SubmitWriteErr(e) ==
    /\ pc[e] = "write"
    /\ Goto(e, "err")
    /\ AnswerLost(e) \/ UNCHANGED <<delivered, lost>>
    /\ UNCHANGED <<cbVars, file, drainVars, cancelled, up>>

SubmitSucceed(e) ==
    /\ pc[e] = "ok"
    /\ RecordSuccess
    /\ Goto(e, "accepted")
    /\ UNCHANGED <<delivered, lost, file, drainVars, cancelled, up>>

SubmitFail(e) ==
    /\ pc[e] = "err"
    /\ RecordFailure
    /\ Goto(e, "check")
    /\ UNCHANGED <<delivered, lost, file, drainVars, cancelled, up>>

\* A bug the properties must see: the line is written before the state is read.
SubmitCheckSaved(e) ==
    /\ pc[e] = "check"
    /\ ~Locked
    /\ State
    /\ file' = Append(file, e)
    /\ Goto(e, IF Settled = "open" THEN "accepted" ELSE "rejected")
    /\ UNCHANGED <<delivered, lost, drainVars, cancelled, up>>

\* The state is read after the failure was recorded and the lock released:
\* another call may have closed the breaker, and the caller gets the error.
SubmitCheck(e) ==
    /\ pc[e] = "check"
    /\ State
    /\ Goto(e, IF Settled = "open" THEN "append" ELSE "rejected")
    /\ UNCHANGED <<delivered, lost, file, drainVars, cancelled, up>>

\* A bug the properties must see: the line is written without o.mu.
SubmitAppendUnlocked(e) ==
    /\ pc[e] = "append"
    /\ e \notin Unencodable
    /\ file' = Append(file, e)
    /\ Goto(e, "accepted")
    /\ UNCHANGED <<cbVars, delivered, lost, drainVars, cancelled, up>>

\* appendToFile, one critical section of o.mu.
SubmitAppend(e) ==
    /\ pc[e] = "append"
    /\ ~Locked
    /\ e \notin Unencodable
    /\ file' = Append(file, e)
    /\ Goto(e, "accepted")
    /\ UNCHANGED <<cbVars, delivered, lost, drainVars, cancelled, up>>

\* appendToFile returns json.Marshal's error.
SubmitAppendFail(e) ==
    /\ pc[e] = "append"
    /\ ~Locked
    /\ e \in Unencodable
    /\ Goto(e, "rejected")
    /\ UNCHANGED <<cbVars, delivered, lost, file, drainVars, cancelled, up>>

(***************************************************************************)
(* The drain goroutine                                                     *)
(***************************************************************************)
\* A bug the properties must see: only a closed breaker lets the drain run.
DrainTickClosedOnly ==
    /\ dpc = "idle"
    /\ State
    /\ dpc' = IF Settled = "closed" THEN "read" ELSE "idle"
    /\ UNCHANGED <<subVars, file, batch, failed, cancelled, up>>

\* select took the ticker and tryDrain read the breaker's state.
DrainTick ==
    /\ dpc = "idle"
    /\ State
    /\ dpc' = IF Settled = "open" THEN "idle" ELSE "read"
    /\ UNCHANGED <<subVars, file, batch, failed, cancelled, up>>

\* scanner.Err is set by the first line that is too long.
Unreadable == \E e \in Range(file) : e \in Oversize

\* readAllLocked; o.mu stays locked when there is something to drain.
DrainRead ==
    /\ dpc = "read"
    /\ IF Unreadable \/ file = <<>>
          THEN dpc' = "idle" /\ UNCHANGED batch
          ELSE dpc' = "truncate" /\ batch' = file
    /\ UNCHANGED <<cbVars, subVars, file, failed, cancelled, up>>

\* A bug the properties must see: the file is not truncated.
DrainTruncateForgotten ==
    /\ dpc = "truncate"
    /\ dpc' = "loop"
    /\ UNCHANGED <<cbVars, subVars, file, batch, failed, cancelled, up>>

DrainTruncate ==
    /\ dpc = "truncate"
    /\ file' = <<>>
    /\ dpc' = "loop"
    /\ UNCHANGED <<cbVars, subVars, batch, failed, cancelled, up>>

\* The loop found its context cancelled.
DrainSkip ==
    /\ dpc = "loop"
    /\ batch # <<>>
    /\ cancelled
    /\ failed' = Append(failed, Head(batch))
    /\ batch' = Tail(batch)
    /\ UNCHANGED <<cbVars, subVars, file, dpc, cancelled, up>>

DrainCall ==
    /\ dpc = "loop"
    /\ batch # <<>>
    /\ ~cancelled
    /\ dpc' = "call"
    /\ UNCHANGED <<cbVars, subVars, file, batch, failed, cancelled, up>>

DrainWriteOk ==
    /\ dpc = "call"
    /\ up
    /\ Head(batch) \notin Poison
    /\ dpc' = "ok"
    /\ delivered' = Applied(Head(batch))
    /\ UNCHANGED <<cbVars, pc, lost, file, batch, failed, cancelled, up>>

DrainWriteErr ==
    /\ dpc = "call"
    /\ ~up \/ cancelled \/ Head(batch) \in Poison
    /\ dpc' = "err"
    /\ AnswerLost(Head(batch)) \/ UNCHANGED <<delivered, lost>>
    /\ UNCHANGED <<cbVars, pc, file, batch, failed, cancelled, up>>

DrainSucceed ==
    /\ dpc = "ok"
    /\ RecordSuccess
    /\ dpc' = "loop"
    /\ batch' = Tail(batch)
    /\ UNCHANGED <<subVars, file, failed, cancelled, up>>

\* A bug the properties must see: the entry that failed is not kept.
DrainFailForget ==
    /\ dpc = "err"
    /\ RecordFailure
    /\ dpc' = "loop"
    /\ batch' = Tail(batch)
    /\ UNCHANGED <<subVars, file, failed, cancelled, up>>

\* The loop as the comment on its continue describes it: the entries after
\* the one that failed are kept without being attempted.
DrainFailStop ==
    /\ dpc = "err"
    /\ RecordFailure
    /\ dpc' = "loop"
    /\ failed' = failed \o batch
    /\ batch' = <<>>
    /\ UNCHANGED <<subVars, file, cancelled, up>>

DrainFail ==
    /\ dpc = "err"
    /\ RecordFailure
    /\ dpc' = "loop"
    /\ failed' = Append(failed, Head(batch))
    /\ batch' = Tail(batch)
    /\ UNCHANGED <<subVars, file, cancelled, up>>

\* A bug the properties must see: a cancelled drain ends without its re-queue.
DrainLoopEndCancelled ==
    /\ dpc = "loop"
    /\ batch = <<>>
    /\ dpc' = IF failed = <<>> \/ cancelled THEN "idle" ELSE "requeue"
    /\ failed' = IF cancelled THEN <<>> ELSE failed
    /\ UNCHANGED <<cbVars, subVars, file, batch, cancelled, up>>

\* The loop is over; o.mu is taken again when something failed.
DrainLoopEnd ==
    /\ dpc = "loop"
    /\ batch = <<>>
    /\ dpc' = IF failed = <<>> THEN "idle" ELSE "requeue"
    /\ UNCHANGED <<cbVars, subVars, file, batch, failed, cancelled, up>>

\* appendToFileLocked for one failed entry; o.mu is released after the last.
DrainRequeue ==
    /\ dpc = "requeue"
    /\ file' = Append(file, Head(failed))
    /\ failed' = Tail(failed)
    /\ dpc' = IF failed' = <<>> THEN "idle" ELSE "requeue"
    /\ UNCHANGED <<cbVars, subVars, batch, cancelled, up>>

\* A bug the properties must see: Close waits for the file to be empty.
DrainExitWhenEmpty ==
    /\ dpc = "idle"
    /\ cancelled
    /\ file = <<>>
    /\ dpc' = "exited"
    /\ UNCHANGED <<cbVars, subVars, file, batch, failed, cancelled, up>>

\* drainLoop's select took ctx.Done; Close is released.
DrainExit ==
    /\ dpc = "idle"
    /\ cancelled
    /\ dpc' = "exited"
    /\ UNCHANGED <<cbVars, subVars, file, batch, failed, cancelled, up>>

(***************************************************************************)
(* Close, CircuitState, the clock and the upstream                         *)
(***************************************************************************)
Close ==
    /\ ~cancelled
    /\ cancelled' = TRUE
    /\ UNCHANGED <<cbVars, subVars, file, drainVars, up>>

CircuitState ==
    /\ State
    /\ UNCHANGED <<subVars, file, drainVars, cancelled, up>>

Pass == Tick /\ UNCHANGED <<subVars, file, drainVars, cancelled, up>>

Flip ==
    /\ up' = ~up
    /\ UNCHANGED <<cbVars, subVars, file, drainVars, cancelled>>

Submit(e) ==
    \/ SubmitAllow(e) \/ SubmitDivert(e)
    \/ SubmitWriteOk(e) \/ SubmitWriteErr(e)
    \/ SubmitSucceed(e) \/ SubmitFail(e) \/ SubmitCheck(e)
    \/ SubmitAppend(e) \/ SubmitAppendFail(e)

TryDrain ==
    \/ DrainRead \/ DrainTruncate
    \/ DrainSkip \/ DrainCall \/ DrainWriteOk \/ DrainWriteErr
    \/ DrainSucceed \/ DrainFail
    \/ DrainLoopEnd \/ DrainRequeue

Next ==
    \/ \E e \in Entries : Submit(e)
    \/ DrainTick
    \/ TryDrain
    \/ DrainExit
    \/ Close
    \/ CircuitState
    \/ Pass
    \/ Flip

Spec == Init /\ [][Next]_vars

(***************************************************************************)
(* A goroutine that has entered Submit or tryDrain is scheduled and its    *)
(* Write returns; the ticker fires and time passes.  select chooses at     *)
(* random between two ready channels, so ctx.Done is taken eventually even *)
(* if the ticker is always ready (strong fairness of DrainExit).  Nobody   *)
(* has to submit, close, or repair the upstream.                           *)
(***************************************************************************)
Fairness ==
    /\ \A e \in Entries : WF_vars(pc[e] # "new" /\ Submit(e))
    /\ WF_vars(TryDrain)
    /\ WF_vars(DrainTick)
    /\ SF_vars(DrainExit)
    /\ WF_vars(Pass)

FairSpec == Spec /\ Fairness

(***************************************************************************)
(* Where an entry is kept                                                  *)
(***************************************************************************)
Stored == Range(file) \union Range(batch) \union Range(failed)

(***************************************************************************)
(* No accepted entry is lost while the process runs: it was applied by the *)
(* upstream, or is in the file or in the drain goroutine's hands (Submit,  *)
(* tryDrain).                                                              *)
(***************************************************************************)
NoLoss ==
    \A e \in Entries : pc[e] = "accepted" => delivered[e] > 0 \/ e \in Stored

(***************************************************************************)
(* An entry whose caller was given an error is not kept and, unless an     *)
(* answer of its own was lost, was not applied: the caller may submit it   *)
(* again without making a duplicate (Submit's early returns).              *)
(***************************************************************************)
RejectedLeavesNoTrace ==
    \A e \in Entries :
        pc[e] = "rejected" => e \notin Stored /\ (e \in lost \/ delivered[e] = 0)

(***************************************************************************)
(* Only what the upstream applied and answered with an error is delivered  *)
(* again.  Neither truncate-then-requeue nor Submit racing with the drain  *)
(* makes a second copy of a line, and an entry whose answer was lost puts  *)
(* no other at risk, in the same batch or behind it (tryDrain lines        *)
(* 152-174, appendToFile).                                                 *)
(***************************************************************************)
AtMostOnce == \A e \in Entries : delivered[e] <= 1 \/ e \in lost

(***************************************************************************)
(* When Close returns, every accepted entry the upstream has not applied   *)
(* is on disk, even if Close found the drain in the middle of a batch.     *)
(***************************************************************************)
CloseKeepsEntries ==
    dpc = "exited" =>
        \A e \in Entries :
            pc[e] = "accepted" => delivered[e] > 0 \/ e \in Range(file)

(***************************************************************************)
(* The inductive invariant behind the safety properties above.             *)
(***************************************************************************)
\* What tryDrain's local variables hold at each of its steps.
Phases ==
    /\ dpc \in {"idle", "read", "exited"} => batch = <<>> /\ failed = <<>>
    /\ dpc = "truncate" => batch = file /\ batch # <<>> /\ failed = <<>>
    /\ dpc \in {"call", "ok", "err"} => batch # <<>>
    /\ dpc = "requeue" => batch = <<>> /\ failed # <<>>

OnlyAcceptedStored == \A e \in Stored : pc[e] = "accepted"

\* A Write that returned nil was applied, though not yet recorded.
AppliedWhenOk ==
    /\ \A e \in Entries : pc[e] = "ok" => delivered[e] > 0
    /\ dpc = "ok" => delivered[Head(batch)] > 0

\* Every stored entry has one copy; while the file has been read and not yet
\* truncated the batch is its image and not a second one.
OneCopy ==
    /\ IsInjective(file)
    /\ IsInjective(batch)
    /\ IsInjective(failed)
    /\ dpc # "truncate" => Range(file) \intersect Range(batch) = {}
    /\ Range(file) \intersect Range(failed) = {}
    /\ Range(batch) \intersect Range(failed) = {}

\* Lost answers aside, the upstream has not seen what is stored, but
\* for the head of the batch between its Write and its Tail, nor what a Submit
\* that did not succeed holds.
NotYetApplied ==
    \A e \in Entries \ lost :
        /\ delivered[e] <= 1
        /\ pc[e] \notin {"ok", "accepted"} => delivered[e] = 0
        /\ e \in Stored => delivered[e] = 0 \/ (dpc = "ok" /\ e = Head(batch))

IndInv ==
    /\ Phases
    /\ OnlyAcceptedStored
    /\ AppliedWhenOk
    /\ NoLoss
    /\ OneCopy
    /\ NotYetApplied

(***************************************************************************)
(* Once the upstream stays up and nobody closes the outbox, every accepted *)
(* entry is delivered, except those the upstream refuses: such an entry    *)
(* trips the breaker again and again but does not block the ones behind it *)
(* in the file (tryDrain's continue after a failure).                      *)
(***************************************************************************)
EventualDelivery ==
    (<>[]up /\ []~cancelled) =>
        \A e \in Entries \ Poison : (pc[e] = "accepted") ~> (delivered[e] > 0)

(***************************************************************************)
(* Close returns: the drain goroutine ends even if the upstream is down,   *)
(* callers keep appending and the breaker flaps.                           *)
(***************************************************************************)
CloseReturns == cancelled ~> (dpc = "exited")

(***************************************************************************)
(* What PendingCount returns: the lines before the first one that is too   *)
(* long, where the scanner stops.                                          *)
(***************************************************************************)
PendingCount ==
    IF Unreadable
        THEN (CHOOSE i \in 1 .. Len(file) :
                /\ file[i] \in Oversize
                /\ \A j \in 1 .. i - 1 : file[j] \notin Oversize) - 1
        ELSE Len(file)

(***************************************************************************)
(* The count is no false alarm: it never exceeds the accepted entries that *)
(* the upstream has not applied, or has and answered with an error, nor    *)
(* counts one twice (PendingCount against tryDrain's re-queue).            *)
(***************************************************************************)
NoFalseAlarm ==
    ~Locked =>
        PendingCount <= Cardinality({e \in Entries :
            pc[e] = "accepted" /\ (delivered[e] = 0 \/ e \in lost)})

(***************************************************************************)
(* What the soak test says: all accepted entries are accounted for, either *)
(* delivered or still pending, whenever PendingCount gets the lock.        *)
(***************************************************************************)
AccountedFor ==
    ~Locked =>
        Cardinality({e \in Entries : pc[e] = "accepted"})
            <= Cardinality({e \in Entries : delivered[e] > 0}) + PendingCount

(***************************************************************************)
(* What the comment in tryDrain says: after a failure the remaining        *)
(* entries are queued again without being attempted.                       *)
(***************************************************************************)
NoAttemptAfterFailure == [][ dpc' = "call" => failed = <<>> ]_vars

(***************************************************************************)
(* What the comment on Outbox says: the background goroutine drains the    *)
(* file when the upstream is back.                                         *)
(***************************************************************************)
DrainsFile == (<>[]up /\ []~cancelled) => <>[](file = <<>>)

(***************************************************************************)
(* The outbox keeps the promise of SubmitPromise.                          *)
(***************************************************************************)
Verdict ==
    [e \in Entries |->
        IF pc[e] \in {"accepted", "rejected"} THEN pc[e] ELSE "pending"]

Promise ==
    INSTANCE SubmitPromise WITH
        verdict <- Verdict,
        held <- Stored,
        applied <- {e \in Entries : delivered[e] > 0}

KeepsPromise == Promise!PromiseSpec
=============================================================================

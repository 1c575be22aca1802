------------------------------- MODULE Quota -------------------------------
(***************************************************************************)
(* Checker.Check of internal/quota/quota.go: one request for the memories  *)
(* of a user and app, the length of its answer, and the level.             *)
(***************************************************************************)
EXTENDS Integers

CONSTANTS
    WarnThreshold,
    CritThreshold,
    Page            \* what the service lists when no limit is asked for

ASSUME QuotaAssumption == {WarnThreshold, CritThreshold, Page} \subseteq Nat

VARIABLE
    quota  \* a Check: where it is, the memories listed and, as a history, the
           \* fewest and the most there were since it began; or its level

QuotaInit == quota = [pc |-> "idle", level |-> "none"]

\* A bug the properties must see: the lower threshold is tried first.
LevelOfWarnFirst(count) ==
    IF count >= WarnThreshold THEN "warn"
    ELSE IF count >= CritThreshold THEN "critical" ELSE "ok"

LevelOf(count) ==
    IF count >= CritThreshold THEN "critical"
    ELSE IF count >= WarnThreshold THEN "warn" ELSE "ok"

AtMost(m, n) == IF m <= n THEN m ELSE n

\* Check sends its request; there are n memories.
Ask(n) ==
    /\ quota.pc = "idle"
    /\ quota' = [pc |-> "asked", low |-> n, peak |-> n]

\* The service lists them.
List(n) ==
    /\ quota.pc = "asked"
    /\ quota' = [pc |-> "listed", low |-> quota.low, peak |-> quota.peak,
                 count |-> AtMost(n, Page)]

\* Others add and delete memories while it runs.
Notice(n) ==
    quota' = [quota EXCEPT !.low = AtMost(@, n), !.peak = IF n > @ THEN n ELSE @]

Done(level) == quota' = [pc |-> "idle", level |-> level]

\* Check returns the level of a results array.
Judge ==
    /\ quota.pc = "listed"
    /\ Done(LevelOf(quota.count))

\* The answer is an object without that array: zero memories.
JudgeOther ==
    /\ quota.pc = "listed"
    /\ Done(LevelOf(0))

\* The service is not reached, its status is an error's, or its text is no
\* object: an array, or one longer than the reader's 16 MiB.
CheckFails ==
    /\ quota.pc \in {"asked", "listed"}
    /\ Done("error")

(***************************************************************************)
(* A level is right of some moment while Check ran, whatever was added and *)
(* deleted meanwhile: never above that of the most memories there were     *)
(* and, when they were a page at most and came in a results array, never   *)
(* below that of the fewest (Check, fetchCount).                           *)
(***************************************************************************)
QuotaIsHonest ==
    [][ (quota.pc = "listed" /\ quota'.pc = "idle" /\ quota'.level # "error") =>
            LET level == quota'.level
                least == AtMost(quota.low, Page)
            IN  /\ level = "critical" => quota.peak >= CritThreshold
                /\ level = "warn" => quota.peak >= WarnThreshold
                /\ Judge => /\ level # "critical" => least < CritThreshold
                            /\ level = "ok" => least < WarnThreshold ]_quota
=============================================================================

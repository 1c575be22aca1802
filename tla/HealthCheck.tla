---------------------------- MODULE HealthCheck ----------------------------
(***************************************************************************)
(* Checker.Check of internal/health/health.go over a running outbox.  The  *)
(* ping, the count and the breaker's state are read one after the other,   *)
(* so the outbox moves between them, and the last read may itself turn an  *)
(* open breaker half-open.  A Checker may be made without any of the three *)
(* (an empty URL, nil callbacks); what it was made with does not change.   *)
(***************************************************************************)
EXTENDS Outbox

CONSTANT Wirings  \* the configurations a Checker is made with

ASSUME WiringsAssumption == Wirings \subseteq SUBSET {"url", "counter", "circuit"}

VARIABLES
    wired,   \* what the CheckerConfig gives, of "url", "counter", "circuit"
    hpc,     \* where Check is: "idle", "count" or "circuit"
    result,  \* the Result that Check is filling in
    report,  \* the last Result it returned
    seen     \* what was so at some moment of the Check (history), of
             \* "up", "down", "pending" and "clear"

healthVars == <<wired, hpc, result, report, seen>>
checkVars == <<vars, healthVars>>

\* A Result before anything is asked.
Fresh == [status |-> "ok", upstream |-> "ok", pending |-> 0, circuit |-> "unread"]

HealthInit ==
    /\ Init
    /\ wired \in Wirings
    /\ hpc = "idle"
    /\ result = Fresh
    /\ report = Fresh
    /\ seen = {}

\* Whether the upstream is up and lines are pending.
Conditions(isUp, isPending) ==
    {IF isUp THEN "up" ELSE "down", IF isPending THEN "pending" ELSE "clear"}

Degrade(r, cond) == IF cond THEN [r EXCEPT !.status = "degraded"] ELSE r

\* The upstream as pingUpstream finds it: with no URL nobody is asked.
Answers == up /\ "url" \in wired

\* pingUpstream: a 2xx answer, or else the upstream is reported down.
Ping ==
    /\ hpc = "idle"
    /\ result' = Degrade([Fresh EXCEPT !.upstream = IF Answers THEN "ok" ELSE "down"],
                         ~Answers)
    /\ hpc' = "count"
    /\ seen' = Conditions(up, PendingCount > 0)
    /\ UNCHANGED <<vars, wired, report>>

\* A bug the properties must see: the status is that of the last question.
CountOverwrites ==
    /\ hpc = "count"
    /\ \/ /\ "counter" \in wired
          /\ ~Locked
          /\ result' = [result EXCEPT !.pending = PendingCount,
                                      !.status = IF PendingCount > 0 THEN "degraded" ELSE "ok"]
       \/ "counter" \notin wired /\ UNCHANGED result
    /\ hpc' = "circuit"
    /\ UNCHANGED <<vars, wired, report, seen>>

\* PendingCount, under o.mu, if there is a counter.
Count ==
    /\ hpc = "count"
    /\ \/ /\ "counter" \in wired
          /\ ~Locked
          /\ result' = Degrade([result EXCEPT !.pending = PendingCount], PendingCount > 0)
       \/ "counter" \notin wired /\ UNCHANGED result
    /\ hpc' = "circuit"
    /\ UNCHANGED <<vars, wired, report, seen>>

\* CircuitState, if it was given, is reported and leaves the status alone.
Circuit ==
    /\ hpc = "circuit"
    /\ \/ /\ "circuit" \in wired
          /\ State
          /\ report' = [result EXCEPT !.circuit = Settled]
       \/ "circuit" \notin wired /\ report' = result /\ UNCHANGED cbVars
    /\ hpc' = "idle"
    /\ seen' = {}
    /\ UNCHANGED <<wired, subVars, file, drainVars, cancelled, up, result>>

Check == Ping \/ Count \/ Circuit

HealthNext ==
    \/ /\ Next
       /\ seen' = IF hpc = "idle" THEN {}
                  ELSE seen \union Conditions(up', PendingCount' > 0)
       /\ UNCHANGED <<wired, hpc, result, report>>
    \/ Ping
    \/ Count
    \/ Circuit

HealthSpec == HealthInit /\ [][HealthNext]_checkVars

\* The endpoint is polled and its steps are scheduled, beside the outbox.
HealthFairSpec == HealthSpec /\ Fairness /\ WF_checkVars(Check)

\* What a Check that answers st must have come across.
Earns(st) ==
    IF st = "ok"
        THEN /\ "url" \in wired /\ "up" \in seen
             /\ "counter" \in wired => "clear" \in seen
        ELSE \/ "url" \notin wired \/ "down" \in seen
             \/ "counter" \in wired /\ "pending" \in seen

(***************************************************************************)
(* Each part of an answer was so at some moment while Check ran: "ok"      *)
(* means that the upstream was asked and up and, perhaps at another        *)
(* moment, that nothing was pending, if anybody counts; "degraded" means   *)
(* that the upstream was down or not asked, or something was pending       *)
(* (Check, pingUpstream, PendingCount).                                    *)
(***************************************************************************)
AnswerIsEarned ==
    [][ (hpc = "circuit" /\ hpc' = "idle") => Earns(report'.status) ]_checkVars

(***************************************************************************)
(* Once the upstream stays up the endpoint ends up answering "ok" for      *)
(* good, if it asks the upstream at all: the backlog drains without any    *)
(* new Submit, because the drain itself probes a half-open breaker, with   *)
(* or without the checker's reads of it (drainLoop, tryDrain, Check).      *)
(***************************************************************************)
HealthClears ==
    ("url" \in wired /\ <>[]up /\ []~cancelled) => <>[](report.status = "ok")
=============================================================================

------------------------------ MODULE Metrics ------------------------------
(***************************************************************************)
(* The collector of internal/metrics/metrics.go.  Its mutex makes Record   *)
(* and Snapshot one atomic step each; WriteTo takes one snapshot and then  *)
(* writes a line for each operation, without the mutex.                    *)
(***************************************************************************)
EXTENDS Integers, FiniteSets, Sequences, Functions

CONSTANTS
    Ops,       \* the operations' names, the strings that timed passes
    Latencies  \* what a call may take

ASSUME LatenciesAssumption == Latencies \subseteq Nat

VARIABLES
    buckets,  \* buckets[op]: the opBucket of op, empty when it has none
    dump      \* a WriteTo: whether it runs, its snapshot, its lines and, as a
              \* history, the buckets at its moment

metricsVars == <<buckets, dump>>

NoReport == [pc |-> "idle", snap |-> <<>>, lines |-> <<>>, at |-> <<>>]

NoCalls == [count |-> 0, errors |-> 0, latencies |-> <<>>]

MetricsInit ==
    /\ buckets = [op \in Ops |-> NoCalls]
    /\ dump = NoReport

Record(op, latency, failed) ==
    /\ buckets' = [buckets EXCEPT ![op] =
           [count     |-> @.count + 1,
            errors    |-> IF failed THEN @.errors + 1 ELSE @.errors,
            latencies |-> Append(@.latencies, latency)]]
    /\ UNCHANGED dump

\* A copy of s in ascending order.
Sorted(s) ==
    LET order == CHOOSE p \in Bijection(DOMAIN s, DOMAIN s) :
                     \A i, j \in DOMAIN s : i < j => s[p[i]] <= s[p[j]]
    IN  [i \in DOMAIN s |-> s[order[i]]]

\* int(p * float64(n)) for p = pct / 100, at most the last index.
PercentileIndex(n, pct) ==
    LET idx == (pct * n) \div 100 IN IF idx >= n THEN n - 1 ELSE idx

Percentile(sorted, pct) ==
    IF sorted = <<>> THEN 0 ELSE sorted[PercentileIndex(Len(sorted), pct) + 1]

\* The OpStats of a bucket.
Stats(b) ==
    LET sorted == Sorted(b.latencies) IN
    [count |-> b.count, errors |-> b.errors,
     p50 |-> Percentile(sorted, 50),
     p95 |-> Percentile(sorted, 95),
     p99 |-> Percentile(sorted, 99)]

\* The snapshot holds the operations that were ever recorded.
Snapshot ==
    [op \in {o \in Ops : buckets[o] # NoCalls} |-> Stats(buckets[op])]

WriteTo ==
    /\ dump.pc = "idle"
    /\ dump' = [pc |-> "writing", snap |-> Snapshot, lines |-> <<>>, at |-> buckets]
    /\ UNCHANGED buckets

\* A bug the properties must see: a line is made from the bucket as it is now.
WriteLineLive ==
    /\ dump.pc = "writing"
    /\ \E op \in DOMAIN dump.snap \ DOMAIN dump.lines :
          dump' = [dump EXCEPT !.lines = [o \in DOMAIN @ \union {op} |->
                      IF o = op THEN Stats(buckets[op]) ELSE @[o]]]
    /\ UNCHANGED buckets

\* One line; the code's order is that of the names, here it is any.
WriteLine ==
    /\ dump.pc = "writing"
    /\ \E op \in DOMAIN dump.snap \ DOMAIN dump.lines :
          dump' = [dump EXCEPT !.lines = [o \in DOMAIN @ \union {op} |->
                      IF o = op THEN dump.snap[op] ELSE @[o]]]
    /\ UNCHANGED buckets

AllWritten == dump.pc = "writing" /\ DOMAIN dump.lines = DOMAIN dump.snap

\* WriteTo returns: all lines are written, or the writer failed.
WriteEnd ==
    /\ dump.pc = "writing"
    /\ dump' = NoReport
    /\ UNCHANGED buckets

MetricsStep == WriteTo \/ WriteLine \/ WriteEnd

Covered(b, value, pct) ==
    LET under == {i \in DOMAIN b.latencies : b.latencies[i] <= value} IN
    100 * Cardinality(under) >= pct * b.count

\* The line s describes the calls of b.
Describes(s, b) ==
    /\ s.count = b.count /\ s.errors = b.errors
    /\ {s.p50, s.p95, s.p99} \subseteq Range(b.latencies)
    /\ Covered(b, s.p50, 50) /\ Covered(b, s.p95, 95) /\ Covered(b, s.p99, 99)
    /\ s.p50 <= s.p95 /\ s.p95 <= s.p99

(***************************************************************************)
(* The lines of a report all describe one moment, though calls are         *)
(* recorded while it is written.  Each operation called until then has     *)
(* one, with its calls and errors and percentiles that are latencies which *)
(* were recorded, that at least their share of the calls took no longer    *)
(* than, and that are in order, whatever the order the latencies came in   *)
(* (WriteTo, Snapshot, percentile).                                        *)
(***************************************************************************)
ReportIsTrue ==
    AllWritten =>
        /\ DOMAIN dump.lines = {op \in Ops : dump.at[op].count > 0}
        /\ \A op \in DOMAIN dump.lines : Describes(dump.lines[op], dump.at[op])
=============================================================================

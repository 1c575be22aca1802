# mem0-mcp-go: TLA+ models, checks and proofs

TLA+ specifications of mem0-mcp-go: the store-and-forward outbox, its circuit breaker
and the health check over them; the dual writer; the search cache; the tools with their
client, metrics, quota check and namespace keys; and the process around them, from its
arguments and configuration to its exit code. TLC checks the models on small instances.
TLAPS proves their safety for every value of the constants.

    tlc -workers 2 -config Outbox.cfg OutboxMC.tla     # one run
    tlapm OutboxProofs.tla                             # one proof module

Line numbers are those of the source files at this commit. `PROJECT.json` has the
exact correspondence of every definition, the mutants, hazards and findings.

## 1. The system

A Go program that offers a mem0 memory service as MCP tools, and a command-line
client for the same service. Most of it is in `internal/`.

| Component (source) | State | Operations | Called by | Makes it correct |
| --- | --- | --- | --- | --- |
| Circuit breaker (`outbox/circuit_breaker.go`) | `state`, `failureCount`, `lastFailure`, under `cb.mu` | `State` (also moves open to half-open), `AllowRequest`, `RecordSuccess`, `RecordFailure`, `Do` | outbox, any goroutine | The count decides the state; open is left for a reason; a failed probe reopens; it follows the service in the end |
| Outbox (`outbox/outbox.go`) | the NDJSON file under `o.mu`; the breaker; `tryDrain`'s `entries` and `failed`; the cancelled context | `Submit`, the drain goroutine (`drainLoop`, `tryDrain`), `PendingCount`, `CircuitState`, `Close` | any number of goroutines | Nothing accepted is lost, nothing rejected is kept, nothing is delivered twice without a cause, everything is delivered in the end, `Close` returns |
| Health checker (`health/health.go`) | none kept; a `Result` filled in three steps | `Check`, `Handler` | HTTP requests | Each part of the answer was so while it was made; it settles on `ok` when the system has recovered |
| Dual writer (`mem0/dualwriter.go`) | `stats` under `dw.mu`; one goroutine per mirror and write | `Add`, `Update`, `Delete`; `Search`, `Get`, `GetAll`, `History`, `ListEntities`, `Doctor`; `Stats`, `ReadSource` | MCP tools | Mirrors never get ahead of the primary; the counters can be trusted; a mirror never blocks a caller; reads see what they should |
| mem0 client (`mem0/client.go`) | the search cache; the hook of the collector | one HTTP request per call; `Add` with `infer` and `Doctor` try twice | dual writer, CLI | "ok" means done; every timed call is recorded once |
| Search cache (`cache/cache.go`) | map and LRU list under `c.mu` | `Get`, `Set`, `Invalidate` (no caller), `Stats` | `Client.Search` | Map and list agree; eviction follows use; staleness is bounded |
| MCP tools (`tools/`) | none | ten tools: check the arguments, one call, a result | server | The user falls back to the default; errors reach the caller |
| Metrics (`metrics/metrics.go`) | count, errors and latencies per operation under `c.mu` | `Record`, `Snapshot`, `WriteTo` | the client's hook | A report is of one moment and its percentiles are right |
| Quota (`quota/quota.go`) | none | `Check` | nobody in this repository | A level is earned by some moment of the check |
| Namespace (`namespace/namespace.go`) | none | `String`, `Parse`, `Matches` | nobody in this repository | Runs cannot see each other's memories |
| Configuration (`config/`, `cliconfig/`) | none | environment, file, defaults | main, CLI | Precedence |
| Command line (`clicmd/`) | none | one request per process | `main` | The exit code tells what happened |
| Server (`server/server.go`) | the listener and its closing goroutine | `Run`, `runSSE`, `handleHealth` | `main` | A signal stops it, a failed listen ends it, `/health` reports the wiring |
| Program (`cmd/mem0-mcp-go/main.go`) | wiring, the signal's context | `main`, `run` | OS | Dispatch, exit codes |
| Middleware (`middleware/`) | none | none: a package comment | nobody | |

How they interact: `main` dispatches to the command line or to `run`, which wires one to
three `Client`s into a `DualWriter`, registers the tools and runs the server; on a signal
`run` returns and the fan-out's goroutines die with the process. Each client passes what
its calls took to a collector, if it has one. The outbox owns a breaker and an
`UpstreamWriter`; the health checker reads the outbox through two callbacks. The outbox,
health, quota and namespace packages are libraries: `main` does not wire them in.

What is hard: the locks are released around every call of the upstream, so results are
recorded in a state other than the one that admitted the call; the file is emptied
before its entries are delivered; `select` chooses at random; a process may be killed
between two file operations whose errors are partly ignored; a lost answer looks like a
failure, and a retry repeats what was done; each write's fan-out has goroutines of its
own that nobody waits for; a search stores an answer some time after it was computed; a
report is written while calls are recorded; a signal may come at any moment of a start.

## 2. Modules

    CircuitBreaker ── BreakerCalls ── BreakerCallsMC
          │   └─ CircuitBreakerProofs ── BreakerCallsProofs
          └── Outbox ── OutboxMC          Outbox ── INSTANCE SubmitPromise
                │  ├─ OutboxFaults ── OutboxFaultsMC
                │  └─ HealthCheck ── HealthCheckMC
                │        └─ OutboxProofs ── OutboxFaultsProofs (also EXTENDS OutboxFaults)
    DualWriter ── DualReads ── DualReadsMC
                       └─ DualWriterProofs
    Cache ── SearchCache ── SearchCacheMC
                  └─ SearchCacheProofs
    Metrics, Quota, Namespace ── Requests ── RequestsMC
                                     └─ RequestsProofs
    Settings ── Program ── ProgramMC
                   └─ ProgramProofs

**CircuitBreaker** models the breaker's methods. Each holds `cb.mu` throughout and is one
action over `cbState`, `failureCount` and `age`; callers conjoin it with their own
change. `age` is `time.Since(lastFailure)` in ticks and stops at the timeout, since the
code only compares it. The code's `failureCount` has no bound; the model's stops at
`CountCap`, which the assumption keeps at or above the threshold, the only number it is
compared with, and `CapIsHarmless` proves that no comparison can tell. `AllowRequest` is split
by its answer into `Allow` and `Deny`; `Settled` is what `State()` returns and stores.

**BreakerCalls** is `Do` called by several goroutines: `Begin` or `Refused`, `Return` from
`fn` outside the lock, `Record`. `healthy` is the service, which changes at will.

**Outbox** interleaves any number of `Submit`s (`pc[e]`), the drain goroutine (`dpc`, with
`batch` and `failed` for `tryDrain`'s locals), `Close` (`cancelled`), `CircuitState`, the
clock and the upstream. The unit of interleaving is a critical section of `o.mu` or
`cb.mu` or one `Write`. The two longer sections of the drain (read and truncate;
re-queue) are several steps during which `Locked` keeps the other users of the file out;
this is where a missing lock would show. An entry is a model value standing for its
line. `Oversize` entries exceed `bufio.Scanner`'s limit, `Unencodable` ones are refused
by `json.Marshal`, `Poison` ones are always refused by the upstream, and a `Write` of an
`AckLoss` entry may be applied and still return an error, which the history variable `lost`
remembers of that entry. `PendingCount` is an operator: it reads the file under the lock
and changes nothing.

**SubmitPromise** is what a caller may rely on, without breaker, file or goroutine: an
accepted entry is applied or held, held ones are released only once applied, a rejected
one is never held. `Outbox!Promise` is the refinement mapping; `held` is the union of the
file and the drain's two local slices. Several are released at once when a process is
killed that holds a batch of which the upstream has everything.

**OutboxFaults** adds what `Outbox` leaves out: a process killed at any step and started
again on the same file, and file operations that fail, at most `MaxFaults` of both in a
behaviour. A write may stop half way, and then the next line is glued to the torn one
and `readAllLocked` skips both. The error of an append reaches `Submit`'s caller; those of
`os.Truncate` and of the re-queue are ignored, as in the code. `exposed` and
`untruncated` record that one of the unsafe cases has happened; until `exposed`, the outbox
with faults is held to the same `SubmitPromise`.

**HealthCheck** runs `Check` beside the outbox as the three reads it is made of: ping,
count, state. The last one may move the breaker. `wired` says which of the URL, the counter
and the breaker's callback the `Checker` was given; with no URL the ping fails, and what
was not given is not asked. `seen` is a history of what was so since the ping.

**DualWriter** models a write as a `Client` call at the primary and, after its success, one
at each mirror, with the state of each in `req[t][w]`. `Fail` may or may not have applied
the write; it leads to the backoff when the write is an `Add` with `infer` on its first
attempt. `Record` is the end of `asyncWrite` under `dw.mu`. `Exit` is `main` returning.

**DualReads** adds goroutines that read from the target `readClient` chooses. What they see
is abstracted to the set of writes that target had applied.

**Cache** keeps `items` (the map) and `order` (the list) apart, as the code does, so that
a method that changes only one would be seen. **SearchCache** is `Client.Search`: `Get`,
the request and `Set` are separate steps. The upstream's memories are a version number
and an answer is the version and the limit it was computed for.

**Requests** is concurrent callers of the tools over one `Client`. `Tools` says what each
tool calls and which arguments its schema requires; `Checked` says which of them the
handler itself looks for, since nothing else refuses a call that lacks one. A call goes
from its handler to the service (`Serve` carries it out, and its answer arrives, arrives
garbled or is lost; `Refuse` does not, though something in between may answer 2xx with a
page of its own), through the client's second try (`TryAgain`, `BackoffEnds`,
`BackoffCancelled`) to `Return` and, in `Reply`, to `timed`'s record. A 2xx answer that does
not decode reaches the caller as `raw` (`Told`), which `doJSON` labels `ok` all the same. A
memory is an id with the namespace key its writer tagged it with. **Metrics** has the
collector and `WriteTo`, whose lines are written one by one without the lock; **Quota** has
`Check` as request, listing and level; **Namespace** has the three functions of a key as
functions of character sequences, since what a slash in a part does to them is the
question. `MaxCalls` bounds the calls started.

**Settings** is `config.Load`, `cliconfig.Load` and `Validate` as functions of the
environment and the file. **Program** is one run of the process: its arguments, environment
and file are chosen at the start; a signal may come at any moment and kills it until
`NotifyContext`; a subcommand sends one request; a server is wired, binds, serves, is
closed by its goroutine, or fails later, and returns. `ToolCall` is the ten tools. What the
process sends is kept as the last `request`: what it asks of which targets, for which user
or id, with which timeout.

Operators whose comment begins "A bug the properties must see" are deliberate mutations
used to show that each property can fail; no next-state relation contains them.

## 3. Runs

| Run | Instance | What it shows |
| --- | --- | --- |
| `breaker` | 3 callers, default threshold 3, timeout 2 ticks; fair | state and count agree under late results; a failed probe reopens; open is left by timeout or success only; it ends closed over a service that stays up, not closed over one that stays down |
| `outbox` | 3 entries (`e1` poison and with acknowledgements that may be lost, `e3` unencodable), threshold 2; fair | no loss, at most once, entries on disk after `Close`, the pending count is no false alarm, a rejected entry leaves no trace; everything but poison is delivered; `Close` returns; `SubmitPromise` is implemented |
| `faults` | 2 entries, one whose acknowledgements may be lost, 2 faults; fair | the promise of `SubmitPromise` is kept through crashes and restarts until a crash takes what the drain held in memory or an append fails; a second delivery needs a failed truncation; lines leave the file for a reason; a backlog is read after a restart, torn bytes included |
| `health` | 2 entries, 4 configurations of the checker; fair | each part of an answer was so while it was made; the endpoint ends up answering `ok` for good once the upstream stays up |
| `dual_writer` | 2 writes, one with `infer`, primary and shadow, 1 reader of either target; fair | the properties of writes and reads listed in section 4 |
| `search_cache` | 3 keys, 2 searchers, default capacity 2, default TTL 2 ticks, fetch 1 tick, 1 write | map and list agree, order is recency, a hit is no staler than its age in the cache plus one fetch |
| `requests` | 3 callers, two whose run ids hold a slash and one whose key has its slash elsewhere and the text of another's, 2 calls, 6 tools and `list-entities`, 3 memory ids, 2 latencies, quota thresholds 1 and 2 with a page of 2 | what callers are told, what is counted and reported, whose memories an agent finds, which level a quota check gives |
| `program` | 25 command lines, 520 environments, 13 files that are missing, good, readable by others or unparsable, blank values among all of them; fair | what is configured is what is wired, reported and sent; exit codes; a signal or a failed listen ends the process |
| `outbox_pending`, `outbox_reattempt`, `outbox_oversize`, `search_limit` | small | violations: section 5 |

Bounds, and why they suffice. Three entries let one be in the file, one in the drain's
hands and one in `Submit` at once, and put an entry before and behind a poison one. A
threshold of 2 or 3 keeps "below the threshold" apart from "at it"; a threshold of 1 is
used where the breaker should trip often. Timeouts of one or two ticks let steps fall
before and after them. `delivered` and `applied` count to 2, because no property
distinguishes more. Two faults allow a fault during the recovery from another. One
searcher's slow answer can land over another's newer one with two searchers and one
write. Two calls in `requests` are two tries to do the same, or a write and the read that
finds it, each with its retry, while a report and a quota check run; the six tools have
every kind of argument check and retry, and the four others call operations that differ
from theirs in nothing the properties see. The environments set the variables that are
read together in every combination, and at most two at a time otherwise; a value that is
blank but not empty tells `TrimSpace` from a comparison with the empty text.

Symmetry is used in `search_cache` (keys and searchers) and `requests` (memory ids), which
check invariants and one action property, no liveness. Every disjunct of every
next-state relation fires in some passing run. Deadlock checking is on except in
`dual_writer`, whose process may exit and then stops; `Program` says the same with a
stuttering step of its own, `Stop`.

### Fairness

Everything assumed is something the Go runtime or the code's own timers provide.

* A goroutine inside `Do`, `Submit`, `tryDrain`, `Check` or a client call is scheduled and
  its `Write` or request returns (`http.Client.Timeout`, the context). Starting a call is
  never assumed of `Submit`, nor are `Close` and a repair of the upstream. `BreakerCalls`
  does assume that goroutines keep calling `Do`: a breaker nobody calls cannot recover.
* The ticker fires (`DrainTick`) and time passes (`Pass`).
* `drainLoop`'s `select` picks at random between two ready channels, so with the context
  cancelled it cannot pick the ticker for ever: strong fairness of `DrainExit`.
* `PrimaryFairness` schedules the caller's own goroutine and ends the primary's call.
  Nothing is assumed of the mirrors, so that `NeverBlocks` means what the README of the
  repository says; `MirrorFairness` is a premise inside `FanOutEnds` only.
* `Program` schedules `main`, the goroutine of `runSSE` and a subcommand's request, which
  has the client's timeout. That mcp-go's stdio server returns is assumed only once the
  context is done, which is what it is given the context for. Signals are nobody's duty.
* Properties about recovery have it as their premise (`<>[]up`, `[]~cancelled`).

## 4. Properties

*Breaker.* `CountMatchesState`: closed exactly while the count is below the threshold. The
code never says so, and never resets the count on the way to half-open; this is why one
failed probe reopens it. `FailedProbeReopens`, `LeavesOpenForAReason` (action properties);
`FollowsService` (liveness).

*Outbox.* `NoLoss`; `AtMostOnce` (an entry is delivered again only after a lost answer of its
own: the outbox cannot tell that from a failure, and one entry's bad luck must not
double another); `RejectedLeavesNoTrace` (an entry whose caller got an error is not kept,
nor applied unless its answer was lost); `CloseKeepsEntries`, `NoFalseAlarm`;
`EventualDelivery`, `CloseReturns`; `KeepsPromise` (refinement).

*Outbox with faults.* `PromiseUntilExposed`: whatever is killed and started again and
whatever truncations fail, each step is one that `SubmitPromise` allows; the only windows
in which an accepted entry can be lost are the drain's, between truncation and re-queue,
and a failed append (`LossNeedsExposure`, which follows from it and is proved).
`TwiceNeedsFailedTruncate`, `LineLeavesForAReason`, `BacklogDrains`.

*Health.* `AnswerIsEarned`: "ok" does not say that the upstream was up and nothing pending
at the same moment, and cannot; and nothing pending is only meant where there is a
counter. `HealthClears`: no new `Submit` is needed, since the drain itself probes, and
nobody need read the breaker's state. A checker without a URL answers "degraded" for ever.

*Dual writer.* `MirrorsFollowPrimary`, `StatsTellTheTruth`, `TwiceOnlyByInferRetry`,
`PacedTargetsAgree` (callers that wait find the same last write everywhere; the history
variable `overlap` tells whether they did; writes that overlap may end in another order at
a mirror, and nothing in the code prevents it), `ReadsYourWrites`, `MonotonicReads`,
`NeverBlocks`, `FanOutEnds`.

*Cache.* `SearchCacheInv`, `OrderIsRecency`, `StalenessBounded`.

*Requests.* `CollectorTellsTheTruth` (each timed call once, however many tries),
`ReportIsTrue` (one moment, right percentiles), `OkIsTrue` (a lost answer is an error of
something done, never the converse; a 2xx answer that does not decode, a page of a proxy
or a body cut at 16 MiB, comes with the status `ok` too and promises nothing),
`RunsAreIsolated` (for any keys: a slash in a run id does no harm; a key with one in
another part can share its text with another key, and that is the only way two runs find
each other's memories; a filter with an empty part is a wildcard by design and
exempt), `QuotaIsHonest` (the
level lies between the fewest and the most memories while it ran, up to the page that the
service lists; an answer without a results array counts as none).

*Program.* `HealthTellsWiring`, `ServerRequestsAreScoped` (what adds, searches or lists is for a
single user; what names neither user nor id is `Doctor`, or an update, deletion or history
whose caller left the id out, which `tools.go:181-204` send as they are), `Precedence`,
`ExitCodeTells`,
`SignalStops`, `FailedListenEnds` (though the closing goroutine goes on waiting).

## 5. Where the code and its words disagree

| Run | The code | What is said |
| --- | --- | --- |
| `outbox_pending` | between truncation and re-queue the batch is in memory only and `PendingCount` (`outbox.go:88`) does not see it | `outbox_soak_test.go:108`: "All accepted entries must be accounted for (delivered or still pending)." |
| `outbox_reattempt` | after a failed `Write` the loop attempts the next entry (`outbox.go:173`) | `outbox.go:172`: "Re-queue remaining entries without attempting them." |
| `outbox_oversize` | a line longer than `bufio.Scanner`'s limit makes every read of the file fail, for ever (`outbox.go:205`) | `outbox.go:34`: "A background goroutine drains the file when the circuit transitions back to closed/half-open." |
| `search_limit` | the cache key leaves out `Limit` (`client.go:148`) | `tools.go:87` describes limit as "Maximum results." |

The second one is also why `EventualDelivery` holds: its mutant `DrainFailStop` does what
the comment says, and a poison entry then starves those behind it.

Noticed while modelling, each plain from one line and without a run: `README.md:70` of the
repository gives `MEM0_TIMEOUT` the default `30s` and allows plain seconds, where the server
defaults to 120 s (`config.go:43`) and the command line does not read plain seconds
(`cliconfig.go:91`); `namespace.go:42` speaks of exactly four segments, where `Parse` takes
any text with three slashes or more.

## 6. Proofs

Every safety invariant, action property and refinement that a run checks is proved, for
every set of entries, callers, writes, ids, keys, mirrors, environments and files, and
every threshold, timeout, capacity, lifetime and cap, that satisfies the named assumptions
(`BreakerAssumption`, `OutboxAssumption`, `FaultAssumption`, `DualWriterAssumption`,
`CacheAssumption`, `SearchAssumption`, `CallersAssumption`, `OpsAssumption`,
`LatenciesAssumption`, `QuotaAssumption`, `FilesAssumption`, `WiringsAssumption`). TLC
evaluates each of them on
some run.

* `CircuitBreakerProofs`: any step of the breaker preserves its types and
  `CountMatchesState` (`CBStepInv`). It is stated over the breaker's variables alone, so
  both users cite it. `CapIsHarmless`: the capped count and the code's own agree on every
  comparison.
* `BreakerCallsProofs`: `BreakerInvariant` (types and count), and from it `TypeCorrect`,
  `ClosedByCount`, `ProbeFailureReopens`, `OpenIsLeftForAReason`. The third is the interesting
  one: half-open implies that the count is at the threshold, so one more failure reaches it
  again.
* `OutboxProofs`: `OutboxInvariant`, and from it `TypeCorrect`, `NothingLost`,
  `RejectedIsClean`, `NothingTwice`, `CloseLeavesAllOnDisk`, `CountIsNoFalseAlarm`,
  `CountIsExactAtRest`, the refinement `OutboxKeepsPromise`, `Spec => Promise!PromiseSpec`,
  and, of the health checker over the outbox, `AnswersAreEarned`.
* `OutboxFaultsProofs`: `FaultInvariant`, and from it `OnlyTheDrainLoses`,
  `OnlyTruncateDoubles`, `NoLineIsDiscarded` and `PromiseSurvivesCrashes`, for any number of
  crashes and disk errors; `FaultsAreTheDifference`: until the first fault each step is one
  of `Outbox`.
* `DualWriterProofs`: `DualWriterInvariant`, and from it `MirrorsNeverAhead`, `StatsAreTrue`,
  `TwiceNeedsInfer`, `PacedAgree`, for any finite set of writes and any mirrors;
  `ReadsInvariant`, and from it `ReadTypesCorrect`, `ReadsAreComplete`, `ReadsNeverAhead`,
  `ReadsAreMonotonic`, for any readers.
* `SearchCacheProofs`: `CacheConsistent`, `HitsAreFresh`, `ListIsRecency`, for any keys,
  searchers, capacity and lifetime.
* `RequestsProofs`: `RequestsInvariant`, and from it `TypeCorrect`, `CollectorTruth`, `OkTruth`,
  `QuotaHonesty`, `Isolation`, `ReportTruth`, for any callers, keys and numbers of calls; and,
  of the functions alone, `PercentileCovers`, `StatsDescribe`, `AnyKeyParses` and `KeysAndTexts`.
* `ProgramProofs`: `ProgramInvariant`, and from it `TypeCorrect`, `HealthTruth`,
  `ScopedRequests`, `CliPrecedence`, `ExitCodes`, for any environments, files and commands.

### Outbox

The inductive invariant is `TypeOK /\ IndInv`. `NoLoss` alone is not inductive:
`DrainTruncate` empties the file, and loses nothing only because the batch is still the
image of the file, which `Phases` says. `DrainSucceed` drops the head of the batch, and
keeps `NoLoss` only because a `Write` that returned nil was applied (`AppliedWhenOk`).
`AtMostOnce` needs that a stored entry has not been applied but for an answer of its own
that was lost (`NotYetApplied`), which after
`DrainSucceed` needs that no second copy is stored (`OneCopy`), which after `SubmitAppend`
needs that an entry still in `Submit` is not stored (`OnlyAcceptedStored`). Each conjunct has
a lemma with one step per action. The refinement proof maps each action to `Apply`,
`Accept`, `Reject`, `Release` or a stutter under the invariant; `DrainTruncate` and
`DrainRequeue` stutter because `held` is the union of file, batch and failed.

`CountIsNoFalseAlarm` compares a position in the file with a cardinality. The lines before
the first oversize one are distinct (`OneCopy`) and each is an accepted entry that was not
applied, but for lost acknowledgements (`OnlyAcceptedStored`, `NotYetApplied`), so they inject
into the set (`DistinctFit`), which is finite because a step accepts at most one entry more
(`FinitelyAccepted`): the set of all entries need not be. `CountIsExactAtRest` is the other
direction: between two batches the file is all that is stored, so with no line too long
every accepted entry that was not applied is counted. It bounds what the run
`outbox_pending` shows: `PendingCount` is short only during `tryDrain` or behind a long line.

The health checker takes three steps while the outbox takes any of its own. `HealthInv` says
that what the answer claims so far is in `seen`, and that `seen` holds the conditions of this
moment; the outbox's steps keep it because `seen` grows with every change of them.

With faults the outbox's invariant is no longer inductive, and `FInv` is what is left of it.
`Phases` and `AppliedWhenOk` survive everything. `NoLoss` holds, and the file ends with its
newline, until `exposed`; both are needed, because a line written behind a torn one is lost
with it. `OneCopy` holds until `untruncated`, and with it `FNotYet`, which weakens
`NotYetApplied`: a line cut just before its newline is stored though its caller got an error.
`GluedHolds` and `WrittenHolds` say once what a torn file makes of a write. The drain's steps
that apply nothing go through one lemma, `HandsKeep`, whose hypotheses are what each of
them must show; a crash is reduced to its effect on the file (`CrashDoes`, `CutLine`).
`PromiseSurvivesCrashes` cannot cite `OutboxKeepsPromise`, whose invariant is gone, but its
steps are of the same shapes: a step that drops from memory or file only what was applied
is a `Release` (`LetsGo`), and a crash or a failed operation that drops anything else sets
`exposed`.

### Dual writer

`DualInv` ties the three views of a write together: a
mirror is called exactly for the writes whose caller was told "ok", and then the
primary's call is over (`MirrorsCalledOnOk`); a call that is "ok" has been applied, and
what has been applied has been called (`CallsTell`); without `infer` there is one attempt
(`OneAttempt`); the two counters add up to the calls recorded (`Counted`) and a recorded
call that was not applied is an error (`ErrorsCounted`). `MirrorsFollowPrimary` is the chain
applied at a mirror, so called, so "ok", so applied at the primary. `ClientStep` reduces
`Answer`, `Fail` and `Backoff` to one shape, so that each conjunct is argued once. For
reads, `ReadInv` adds that the target of a running read has what it must show and what a
reader has seen its target still has; both survive because `Visible` only grows
(`VisibleGrows`), and `StatsTellTheTruth` is what makes a clean shadow complete when the read
begins.

`PacedAgree` has an invariant of its own, `PacedInv`: as long as nothing overlaps, one write
is at work (`OneAtATime`), it is the primary's last one, and a mirror at rest without errors
has the primary's last write as its own (`LastWrites`).

### Search cache

`CacheInv` is the types, `ListInv` and `Fresh`. `ListInv` has the list free of repetitions,
with the keys of the map, and ordered as the history of uses; what taking an element out
of such a sequence and putting one in front does to its elements and its order are lemmas
about sequences, stated once for `Get`, `Set` and the eviction. `StalenessBounded` is
inductive together with what a search has in hand: the answer it is about to store was
superseded no longer ago than the search has been running (`FillsAreYoung`), and the
current version is not superseded (`CurrentIsFresh`).

### Requests

`RequestsInv` says that what is at the service or in a listing is tagged with the key of its
writer (`Tagged`); that an answered success was carried out, and what a delete removed does
not come back, since ids are given once (`Obeyed`); that the collector lags by the calls
between their return and their record (`Counted`, where a record moves one caller out of a
finite set); and that a quota check's bounds enclose the number of memories (`QuotaInv`).
`Isolation` is for any keys, since any key's text parses (`AnyKeyParses`) and putting together
what `Parse` gives makes the text again (`StringOfParse`). A full key matches only itself
(`FullMatches`), so what it finds has the text of the agent's key; and if the writer's key
has no slash before the run id then it is that key, because `Parse` undoes `String` there
(`ParseOfString`, from `SplitAtSlash`: the first slash of `a / b` ends `a` if `a` has none).
`KeysAndTexts` puts both together (`StringOfParse` is from `JoinAtSlash`): the two functions are
a bijection between those keys and the texts that parse.

`ReportTruth` has three parts. `ReportInv` keeps the lines written so far equal to those of
the snapshot, and the snapshot to the stats of the buckets of its moment, however many
calls are recorded meanwhile. `StatsDescribe` is about any bucket. It rests on
`PercentileCovers`, a fact about indices of an ascending sequence, and on
`SortedFacts`: the sorted copy of the latencies is ascending and has the same elements.
`Sorted` chooses a permutation that orders them, so a proof has to show that one exists
(`OrderExists`). The library's induction cannot be used here, so the argument is by a
least counterexample: the well-foundedness of the naturals gives a least length
for which there is none (`LeastNumber`), and inserting the last latency into the order of
the others makes one (`InsertLast`).

### Program

`ProgramInv` ties the phase to the configuration and the last request and report to both.
`CliPrecedence` states the result of the merge as the first value of a list of sources that
is not blank; `LeastIndex` and `FirstOfList` show that the code's chain of conditions
computes it for any texts.

### Only model-checked

Every liveness property, since fairness and ENABLED are beyond the prover: `FollowsService`,
`EventualDelivery`, `CloseReturns`, `BacklogDrains`, `HealthClears`, `NeverBlocks`,
`FanOutEnds`, `SignalStops` and `FailedListenEnds`. The four violations of section 5 are
counterexamples that TLC finds.

## 7. Not modelled

* Power loss: the code never calls fsync, and the model's disk keeps what was written.
* A target that applies a write after the client gave up on it: `Apply` happens no later
  than the call's end.
* Two submitted entries with the same content; memory ids that differ between targets.
* `Stats`' hit, miss and eviction counters of the cache, and `Invalidate`, which is written
  down in `Cache` and is in no next-state relation, because nothing calls it.
* What texts say: log lines, JSON, schemas of the tools, the output formats of the command
  line, the expansion of `~` and the YAML of the file. A flag is good or bad.
* What the service does at the path of an empty id: `Refuse`, and nothing else, answers.
  `ServerRequestsAreScoped` says which requests have one.
* An order among writes that overlap, and the writes that `Exit` cuts off at the mirrors:
  the code promises nothing of either, and the properties exempt them by name.
* The sessions and the protocol of the mcp-go library: the model starts and stops it.
* `middleware`: a package comment; its test exercises the quota and metrics packages.

## 8. Plan

Done: every component of section 1 but the last, and the proofs of section 6.

Next: one process with both the fan-out of `DualWriter` and the exit of `Program`, to say
which writes a signal cuts off.

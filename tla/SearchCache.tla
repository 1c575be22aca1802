---------------------------- MODULE SearchCache ----------------------------
(***************************************************************************)
(* Client.Search of internal/mem0/client.go: concurrent searches over one  *)
(* cache, in front of an upstream whose memories change.  Get, the HTTP    *)
(* request and Set are three steps, with the clock, other searches and     *)
(* writes in between; nothing but time takes an answer out of the cache.   *)
(***************************************************************************)
EXTENDS Cache

CONSTANTS
    Searchers,   \* goroutines that call Search
    Limits,      \* the limits they ask for
    MaxWrites,   \* bound on the changes of the upstream's memories
    FetchTime    \* ticks from the request to the Set, at most (Timeout)

ASSUME SearchAssumption ==
    /\ Limits \subseteq Nat \ {0}
    /\ MaxWrites \in Nat
    /\ FetchTime \in Nat

Answers == [version : 0 .. MaxWrites, limit : Limits]

\* Past this age a superseded version is older than any bound below.
AgeCap == Lifetime + FetchTime + 2

VARIABLES
    version,  \* the upstream's memories, as a count of writes
    age,      \* age[v]: ticks since version v was superseded
    pc,       \* pc[s]: where searcher s is in Search
    asked,    \* asked[s]: its key and limit
    answer,   \* answer[s]: what the upstream answered it, or Search returned
    elapsed,  \* elapsed[s]: ticks since its request was sent
    recent    \* the keys used, most recent first (a history of the calls)

searchVars == <<pc, asked, answer, elapsed, recent>>
vars == <<cacheVars, version, age, searchVars>>

TypeOK ==
    /\ items \subseteq Keys
    /\ order \in Seq(Keys)
    /\ value \in [Keys -> Answers \union {NoValue}]
    /\ \A k \in items : value[k] \in Answers
    /\ left \in [Keys -> -1 .. Lifetime]
    /\ version \in 0 .. MaxWrites
    /\ age \in [0 .. MaxWrites -> 0 .. AgeCap]
    /\ pc \in [Searchers -> {"idle", "fetch", "store"}]
    /\ asked \in [Searchers -> [key : Keys, limit : Limits] \union {NoValue}]
    /\ answer \in [Searchers -> Answers \union {NoValue}]
    /\ elapsed \in [Searchers -> 0 .. FetchTime]
    /\ recent \in Seq(Keys)

Init ==
    /\ CacheInit
    /\ version = 0
    /\ age = [v \in 0 .. MaxWrites |-> 0]
    /\ pc = [s \in Searchers |-> "idle"]
    /\ asked = [s \in Searchers |-> NoValue]
    /\ answer = [s \in Searchers |-> NoValue]
    /\ elapsed = [s \in Searchers |-> 0]
    /\ recent = <<>>

Used(k) == recent' = <<k>> \o RemoveFirst(recent, k)

\* searchCacheKey hashes the query, the scope and the filters: the key.  The
\* limit is not part of it.
SearchHit(s, k, n) ==
    /\ pc[s] = "idle"
    /\ GetHit(k)
    /\ asked' = [asked EXCEPT ![s] = [key |-> k, limit |-> n]]
    /\ answer' = [answer EXCEPT ![s] = value[k]]
    /\ Used(k)
    /\ UNCHANGED <<version, age, pc, elapsed>>

SearchMiss(s, k, n) ==
    /\ pc[s] = "idle"
    /\ GetAbsent(k) \/ GetExpired(k)
    /\ asked' = [asked EXCEPT ![s] = [key |-> k, limit |-> n]]
    /\ answer' = [answer EXCEPT ![s] = NoValue]
    /\ pc' = [pc EXCEPT ![s] = "fetch"]
    /\ elapsed' = [elapsed EXCEPT ![s] = 0]
    /\ UNCHANGED <<version, age, recent>>

\* The upstream evaluates the query; the answer is on its way back.
Fetch(s) ==
    /\ pc[s] = "fetch"
    /\ answer' = [answer EXCEPT ![s] = [version |-> version, limit |-> asked[s].limit]]
    /\ pc' = [pc EXCEPT ![s] = "store"]
    /\ UNCHANGED <<cacheVars, version, age, asked, elapsed, recent>>

\* doJSON returned an error: nothing is cached.
FetchFail(s) ==
    /\ pc[s] = "fetch"
    /\ pc' = [pc EXCEPT ![s] = "idle"]
    /\ UNCHANGED <<cacheVars, version, age, asked, answer, elapsed, recent>>

Store(s) ==
    /\ pc[s] = "store"
    /\ Set(asked[s].key, answer[s])
    /\ Used(asked[s].key)
    /\ pc' = [pc EXCEPT ![s] = "idle"]
    /\ UNCHANGED <<version, age, asked, answer, elapsed>>

\* Add, Update or Delete, by this Client or by another: the cache of search
\* answers is not told.
Write ==
    /\ version < MaxWrites
    /\ version' = version + 1
    /\ UNCHANGED <<cacheVars, age, searchVars>>

\* The http.Client's timeout bounds how long a search may take.
Tick ==
    /\ \A s \in Searchers : pc[s] # "idle" => elapsed[s] < FetchTime
    /\ CacheTick
    /\ age' = [v \in 0 .. MaxWrites |->
                  IF v < version /\ age[v] < AgeCap THEN age[v] + 1 ELSE age[v]]
    /\ elapsed' = [s \in Searchers |-> IF pc[s] = "idle" THEN 0 ELSE elapsed[s] + 1]
    /\ UNCHANGED <<version, pc, asked, answer, recent>>

Next ==
    \/ \E s \in Searchers, k \in Keys, n \in Limits :
          SearchHit(s, k, n) \/ SearchMiss(s, k, n)
    \/ \E s \in Searchers : Fetch(s) \/ FetchFail(s) \/ Store(s)
    \/ Write
    \/ Tick

Spec == Init /\ [][Next]_vars

(***************************************************************************)
(* What a hit would return was superseded at most TTL, and the time one    *)
(* search may take, ago: hits do not prolong an entry, and a slow search   *)
(* that stores an old answer over a newer one cannot exceed the sum        *)
(* (Search, Get, Set).                                                     *)
(***************************************************************************)
StalenessBounded ==
    \A k \in items :
        left[k] >= 0 => age[value[k].version] <= (Lifetime - left[k]) + FetchTime

(***************************************************************************)
(* The types, and the map and the list of the cache holding the same keys, *)
(* each once, within the capacity (Get, Set, evictOldest).                 *)
(***************************************************************************)
SearchCacheInv == TypeOK /\ MapMatchesList

(***************************************************************************)
(* The list is in the order of use, so that what Set evicts is the least   *)
(* recently used key (Get's and Set's MoveToFront, evictOldest).           *)
(***************************************************************************)
OrderIsRecency ==
    \A i, j \in 1 .. Len(order) :
        /\ Contains(recent, order[i])
        /\ i < j => \E p, q \in 1 .. Len(recent) :
                        p < q /\ recent[p] = order[i] /\ recent[q] = order[j]

(***************************************************************************)
(* What the tool description says of limit: the maximum of the results     *)
(* that a search returns.                                                  *)
(***************************************************************************)
LimitIsMaximum ==
    \A s \in Searchers :
        (pc[s] = "idle" /\ answer[s] # NoValue) => answer[s].limit <= asked[s].limit
=============================================================================

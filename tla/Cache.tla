------------------------------- MODULE Cache -------------------------------
(***************************************************************************)
(* The LRU cache with a time to live of internal/cache/cache.go.  c.mu     *)
(* makes every method one atomic step; a method is an action over the      *)
(* cache's variables, conjoined with the caller's state change.  The map   *)
(* c.items and the list c.order are kept apart, as in the code, because    *)
(* each method must change both.  The hit, miss and eviction counters are  *)
(* only read by Stats and are left out.                                    *)
(***************************************************************************)
EXTENDS Integers, SequencesExt

CONSTANTS
    Keys,
    MaxEntries,  \* Options.MaxEntries as configured
    TTL,         \* Options.TTL as configured, in ticks
    DefaultMax,  \* the default of 1000 entries
    DefaultTTL,  \* the default of 5 minutes, in ticks
    NoValue      \* what is not an answer

Capacity == IF MaxEntries <= 0 THEN DefaultMax ELSE MaxEntries
Lifetime == IF TTL <= 0 THEN DefaultTTL ELSE TTL

ASSUME CacheAssumption ==
    /\ MaxEntries \in Int /\ TTL \in Int
    /\ DefaultMax \in Nat \ {0} /\ DefaultTTL \in Nat \ {0}

VARIABLES
    items,  \* the keys of c.items
    order,  \* c.order, the most recently used key first
    value,  \* value[k]: the value of the entry of k
    left    \* left[k]: ticks to the expiresAt of k's entry, -1 when past it

cacheVars == <<items, order, value, left>>

CacheInit ==
    /\ items = {}
    /\ order = <<>>
    /\ value = [k \in Keys |-> NoValue]
    /\ left = [k \in Keys |-> -1]

MovedToFront(k) == <<k>> \o RemoveFirst(order, k)

\* Get: the three outcomes.
GetAbsent(k) ==
    /\ k \notin items
    /\ UNCHANGED cacheVars

GetExpired(k) ==
    /\ k \in items
    /\ left[k] < 0
    /\ items' = items \ {k}
    /\ order' = RemoveFirst(order, k)
    /\ UNCHANGED <<value, left>>

\* A bug the properties must see: a hit does not renew the key's recency.
GetHitInPlace(k) ==
    /\ k \in items
    /\ left[k] >= 0
    /\ UNCHANGED cacheVars

\* A bug the properties must see: a hit extends the entry's life.
GetHitSliding(k) ==
    /\ k \in items
    /\ left[k] >= 0
    /\ order' = MovedToFront(k)
    /\ left' = [left EXCEPT ![k] = Lifetime]
    /\ UNCHANGED <<items, value>>

GetHit(k) ==
    /\ k \in items
    /\ left[k] >= 0
    /\ order' = MovedToFront(k)
    /\ UNCHANGED <<items, value, left>>

\* A bug the properties must see: an evicted entry stays in the map.
SetLeakingMap(k, v) ==
    /\ value' = [value EXCEPT ![k] = v]
    /\ left' = [left EXCEPT ![k] = Lifetime]
    /\ items' = items \union {k}
    /\ IF k \in items
          THEN order' = MovedToFront(k)
          ELSE order' = SubSeq(<<k>> \o order, 1,
                               IF Len(order) + 1 > Capacity THEN Capacity ELSE Len(order) + 1)

\* Set: an existing entry is renewed, a new one may push out the oldest.
Set(k, v) ==
    /\ value' = [value EXCEPT ![k] = v]
    /\ left' = [left EXCEPT ![k] = Lifetime]
    /\ \/ /\ k \in items
          /\ order' = MovedToFront(k)
          /\ UNCHANGED items
       \/ /\ k \notin items
          /\ Len(order) < Capacity
          /\ order' = <<k>> \o order
          /\ items' = items \union {k}
       \/ /\ k \notin items
          /\ Len(order) >= Capacity
          /\ order' = <<k>> \o Front(order)
          /\ items' = (items \union {k}) \ {Last(order)}

Invalidate(k) ==
    /\ IF k \in items
          THEN items' = items \ {k} /\ order' = RemoveFirst(order, k)
          ELSE UNCHANGED <<items, order>>
    /\ UNCHANGED <<value, left>>

\* The clock: an entry is past its expiresAt after Lifetime ticks and one.
CacheTick ==
    /\ left' = [k \in Keys |-> IF left[k] < 0 THEN -1 ELSE left[k] - 1]
    /\ UNCHANGED <<items, order, value>>

(***************************************************************************)
(* The map and the list hold the same keys, each once, and never more than *)
(* the capacity (Get, Set, Invalidate, evictOldest, removeLocked).         *)
(***************************************************************************)
MapMatchesList ==
    /\ items = ToSet(order)
    /\ IsInjective(order)
    /\ Len(order) <= Capacity
=============================================================================

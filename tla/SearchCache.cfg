\* MaxEntries and TTL are left at 0: the defaults apply.
SPECIFICATION Spec
CONSTANTS
    NoValue = NoValue
    k1 = k1
    k2 = k2
    k3 = k3
    s1 = s1
    s2 = s2
    Keys <- ThreeKeys
    Searchers <- TwoSearchers
    Limits <- OneLimit
    MaxEntries = 0
    TTL = 0
    DefaultMax = 2
    DefaultTTL = 2
    MaxWrites = 1
    FetchTime = 1
SYMMETRY CacheSymmetry
INVARIANTS
    StalenessBounded
    SearchCacheInv
    OrderIsRecency

SPECIFICATION Spec
CONSTANTS
    NoValue = NoValue
    k1 = k1
    k2 = k2
    k3 = k3
    s1 = s1
    s2 = s2
    Keys <- TwoKeys
    Searchers <- OneSearcher
    Limits <- TwoLimits
    MaxEntries = 2
    TTL = 1
    DefaultMax = 2
    DefaultTTL = 2
    MaxWrites = 0
    FetchTime = 1
INVARIANT LimitIsMaximum

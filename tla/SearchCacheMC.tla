--------------------------- MODULE SearchCacheMC ---------------------------
\* Instances of SearchCache for TLC.
EXTENDS SearchCache, TLC

CONSTANTS k1, k2, k3, s1, s2

ThreeKeys == {k1, k2, k3}
TwoKeys == {k1, k2}
TwoSearchers == {s1, s2}
OneSearcher == {s1}
OneLimit == {5}
TwoLimits == {5, 10}

\* Keys and searchers are interchangeable.
CacheSymmetry == Permutations({k1, k2, k3}) \union Permutations({s1, s2})
=============================================================================

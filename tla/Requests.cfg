SPECIFICATION Spec
CONSTANTS
    c1 = c1
    c2 = c2
    c3 = c3
    m1 = m1
    m2 = m2
    m3 = m3
    Chars <- SomeChars
    Callers <- ThreeCallers
    KeyOf <- ThreeKeys
    Used <- SomeTools
    Ids <- ThreeIds
    Ops <- ClientOps
    Latencies <- TwoLatencies
    MaxCalls = 2
    WarnThreshold = 1
    CritThreshold = 2
    Page = 2
SYMMETRY IdSymmetry
INVARIANTS
    CollectorTellsTheTruth
    ReportIsTrue
    OkIsTrue
    RunsAreIsolated
PROPERTIES
    QuotaIsHonest

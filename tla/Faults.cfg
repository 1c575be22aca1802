SPECIFICATION FaultFairSpec
CONSTANTS
    e1 = e1
    e2 = e2
    Entries <- TwoEntries
    Oversize <- NoEntries
    Unencodable <- NoEntries
    Poison <- NoEntries
    AckLoss <- OneEntry
    FailureThreshold = 1
    ResetTimeout = 1
    DefaultReset = 1
    CountCap = 2
    MaxFaults = 2
INVARIANTS
    TwiceNeedsFailedTruncate
PROPERTIES
    PromiseUntilExposed
    LineLeavesForAReason
    BacklogDrains

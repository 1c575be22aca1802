SPECIFICATION FairSpec
CONSTANTS
    e1 = e1
    e2 = e2
    e3 = e3
    Entries <- ThreeEntries
    Oversize <- NoEntries
    Unencodable <- LastEntry
    Poison <- OneEntry
    AckLoss <- OneEntry
    FailureThreshold = 2
    ResetTimeout = 1
    DefaultReset = 1
    CountCap = 2
INVARIANTS
    NoLoss
    RejectedLeavesNoTrace
    AtMostOnce
    CloseKeepsEntries
    NoFalseAlarm
PROPERTIES
    EventualDelivery
    CloseReturns
    KeepsPromise

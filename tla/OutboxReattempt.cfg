SPECIFICATION Spec
CONSTANTS
    e1 = e1
    e2 = e2
    e3 = e3
    Entries <- TwoEntries
    Oversize <- NoEntries
    Unencodable <- NoEntries
    Poison <- NoEntries
    AckLoss <- NoEntries
    FailureThreshold = 1
    ResetTimeout = 1
    DefaultReset = 1
    CountCap = 2
PROPERTY NoAttemptAfterFailure

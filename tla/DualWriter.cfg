\* The process may exit, and then stops.
SPECIFICATION ReadFairSpec
CONSTANTS
    w1 = w1
    w2 = w2
    r1 = r1
    Writes <- TwoWrites
    Infer <- OneInfer
    Mirrors <- ShadowOnly
    Readers <- OneReader
CHECK_DEADLOCK FALSE
INVARIANTS
    MirrorsFollowPrimary
    StatsTellTheTruth
    TwiceOnlyByInferRetry
    PacedTargetsAgree
    ReadsYourWrites
PROPERTIES
    MonotonicReads
    NeverBlocks
    FanOutEnds

CONSTANTS
    Environments <- SomeEnvironments
    Files <- SomeFiles
    Commands <- AllCommands

SPECIFICATION FairSpec

INVARIANTS
    HealthTellsWiring
    ServerRequestsAreScoped
    Precedence

PROPERTIES
    ExitCodeTells
    SignalStops
    FailedListenEnds

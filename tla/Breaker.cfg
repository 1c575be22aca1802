\* FailureThreshold is left at 0: the default of three failures applies.
SPECIFICATION FairSpec
CONSTANTS
    g1 = g1
    g2 = g2
    g3 = g3
    Callers <- ThreeCallers
    FailureThreshold = 0
    ResetTimeout = 2
    DefaultReset = 3
    CountCap = 4
INVARIANT CountMatchesState
PROPERTIES
    FailedProbeReopens
    LeavesOpenForAReason
    FollowsService

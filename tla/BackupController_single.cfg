CONSTANTS
    Members = {m1, m2}
    Workers = {w1}
    Preferences = {"PreferStandby", "StandbyOnly", "PrimaryOnly"}
    Refusals = {"none"}
    TargetWait = 2
    MissingWait = 1
    LogEndWait = 1
    ClusterWait = 1
    MaxRuns = 2
    Late = 0
    Forgets = TRUE
    None = None
SPECIFICATION FairSpec
INVARIANTS
    NothingRuns
PROPERTIES
    NeverStartedAgain
    StartWaitEnds
    OperationEndIsReported

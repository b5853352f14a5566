CONSTANTS
    Members = {m1, m2}
    Workers = {w1, w2}
    Preferences = {"PreferStandby"}
    Refusals = {"none", "spec", "destination"}
    TargetWait = 1
    MissingWait = 1
    LogEndWait = 1
    ClusterWait = 1
    MaxRuns = 1
    Late = 2
    Forgets = FALSE
    None = None
SYMMETRY OperatorSymmetry
SPECIFICATION Spec
INVARIANTS
    OneMember
    CompletedIsTrue
PROPERTIES
    EndIsFinal

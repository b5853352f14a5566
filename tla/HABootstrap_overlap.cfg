CONSTANTS
    m1 = m1
    m2 = m2
    m3 = m3
    Holder = m1
    Peers <- ThreeMembers
    Operators = {o1, o2}
    MaxAttempts = 1
    MaxFailovers = 1
    MaxForgets = 1
    MaxTroubles = 1
    MaxOverlaps = 2
    None = None
SYMMETRY OperatorSymmetry
CHECK_DEADLOCK FALSE
SPECIFICATION Spec
INVARIANTS
    SeededIsTrue
    RestoreIsRemembered
PROPERTIES
    SeededFromRecorded
    NeverStartedAgain

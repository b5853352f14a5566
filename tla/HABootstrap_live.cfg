CONSTANTS
    m1 = m1
    m2 = m2
    m3 = m3
    Holder = m1
    Peers <- TwoMembers
    Operators = {o1}
    MaxAttempts = 2
    MaxFailovers = 1
    MaxForgets = 1
    MaxTroubles = 1
    MaxOverlaps = 0
    None = None
CHECK_DEADLOCK FALSE
SPECIFICATION FairSpec
PROPERTIES
    BootstrapEnds

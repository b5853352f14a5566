CONSTANTS
    Members = {m1, m2}
    Operators = {o1}
    StaleKubelets = FALSE
    MaxRequests = 1
    MaxTampers = 1
    MaxFaults = 1
    Absent = Absent
CHECK_DEADLOCK FALSE
SPECIFICATION FairSpec
INVARIANTS
    MembersReachable
PROPERTIES
    RotationEnds
    RequestHandled

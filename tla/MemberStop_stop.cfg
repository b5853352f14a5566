CONSTANTS
    Containers = {this, next, old}
    Legacy = {old}
    This = this
    Ops = {o1}
    Troubles = {"unrecorded", "stopFails", "timeout", "crash", "kill"}
CHECK_DEADLOCK FALSE
SPECIFICATION FairSpec
INVARIANTS
    OneOwner
    StopIsFinal
    LeftStopped
PROPERTIES
    TakesLockFirst
    TerminationEnds
    GoneIsNoticed

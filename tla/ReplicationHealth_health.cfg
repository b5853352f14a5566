CONSTANTS
    Members = {a, s}
    Slaves = {s}
    Operators = {o1}
    CompareInterval = 1
    WriteInterval = 2
    StallWindow = 2
    None = None
SPECIFICATION FairSpec
INVARIANTS
    StallIsFounded
    HAReadyIsRecent
PROPERTIES
    HistoryIsKept
    StallIsReported

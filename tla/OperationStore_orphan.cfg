SPECIFICATION Spec
CONSTANTS
    Ids = {i1, i2}
    Requests <- SomeRequests
    NoRecord = NoRecord
    PowerLoss = FALSE
    RemoveFails = TRUE

SYMMETRY IdSymmetry
INVARIANT AnsweredOpenIsRunning

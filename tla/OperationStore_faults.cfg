SPECIFICATION Spec
CONSTANTS
    Ids = {i1, i2}
    Requests <- FewRequests
    NoRecord = NoRecord
    PowerLoss = TRUE
    RemoveFails = TRUE
SYMMETRY IdSymmetry
INVARIANT OneOperationPerDatabase
INVARIANT OneRunPerKey
INVARIANT CompletedWasDone
INVARIANT OpenIsNotOver
PROPERTY ImplementsLedger

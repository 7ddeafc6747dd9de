CONSTANTS
    Tables <- ThreeTables
    Size <- Sizes
    Batch = 2
    RowCap = 2
    Chunk = 1
    Steps = 1
    Setups <- AllSetups
    Faults = {"error", "lost", "cancel"}
SPECIFICATION FairSpec
INVARIANTS AcyclicParentsFirst DoneIsComplete NeverTwice CancelStopsInBatch FailureIsLocal
PROPERTY TransferEnds
CHECK_DEADLOCK FALSE

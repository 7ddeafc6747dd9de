CONSTANTS
    Tables <- ThreeTables
    Size <- Sizes
    Batch = 2
    RowCap = 2
    Chunk = 1
    Steps = 1
    Setups <- OneSetup
    Faults = {"error"}
SPECIFICATION Spec
INVARIANT FailureStopsTransfer
CHECK_DEADLOCK FALSE

CONSTANTS
    Tables <- ThreeTables
    Size <- Sizes
    Batch = 3
    RowCap = 2
    Chunk = 1
    Steps = 1
    Setups <- OneSetup
    Faults = {}
SPECIFICATION Spec
INVARIANT DoneIsComplete
CHECK_DEADLOCK FALSE

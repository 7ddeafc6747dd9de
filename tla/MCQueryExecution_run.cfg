SPECIFICATION FairSpec
CONSTANTS
    Queries = {1, 2}
    Setups <- AllSetups
    MaxPools = 2
    PoolSize = 1
    MaxSets = 2
    Faults = {"error", "lost", "timeout", "cancel"}
INVARIANTS
    TypeOK
    WriteOnce
    ResultsTrue
    TxAtomic
    
PROPERTIES
    EveryQueryEnds

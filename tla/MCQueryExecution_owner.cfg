SPECIFICATION Spec
CONSTANTS
    Queries = {1, 2}
    Setups <- SharedSetups
    MaxPools = 2
    PoolSize = 1
    MaxSets = 2
    Faults = {"error", "lost", "timeout", "cancel"}
INVARIANTS
    TxOwnsConnection

SPECIFICATION FairSpec
CONSTANTS
    c1 = c1  c2 = c2
    Clients = {c1, c2}
    Budget <- Uneven
    MaxRuntimes = 1
    Faults = {"crash", "timeout"}
CHECK_DEADLOCK FALSE
INVARIANTS TypeOK NoOrphanCall CountIsSessions AbandonedEntriesLeave
PROPERTIES CallsReturn IdleRuntimeEnds ImplementsChannel

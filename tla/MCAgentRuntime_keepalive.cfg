SPECIFICATION Spec
CONSTANTS
    c1 = c1  c2 = c2
    Clients = {c1, c2}
    Budget <- Uneven
    MaxRuntimes = 1
    Faults = {}
CHECK_DEADLOCK FALSE
PROPERTIES KillSparesOthers

SPECIFICATION FairSpec
CONSTANTS
    e1 = e1  e2 = e2  m1 = m1  x1 = x1
    Execs = {e1, e2}
    Metas = {m1}
    Shutdowns = {x1}
    Scenarios <- ShutdownScenarios
    Retries = 1
    Limit = 1
    MaxGen = 2
    MaxLimiters = 2
    NoCall = NoCall
CHECK_DEADLOCK FALSE
PROPERTIES CallsReturn

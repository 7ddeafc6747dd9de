SPECIFICATION FairSpec
CONSTANTS
    s1 = s1  e1 = e1  e2 = e2  c1 = c1  r1 = r1
    Sessions = {s1}
    Execs = {e1, e2}
    Commits = {c1}
    Rollbacks = {r1}
    Script <- MCScript
    Target <- MCTarget
    Timeout = 1
    NoTask = NoTask
INVARIANTS TypeOK SingleOwner OneExecutor IdleIsWatched ReturnedClean CommitKeepsStatements RolledBackIsGone
PROPERTIES EventuallyEnded

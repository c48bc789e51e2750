SPECIFICATION FairSpec
CONSTANTS
    Procs = {p1, p2, p3}
    Blocks = {b1, b2, b3, b4}
    Vals = {v0}
    LOGSIZE = 4
    MAXOPBLOCKS = 2
    NLOG = 4
    OpQuota = 1
    MayCrash = TRUE
    NoBlock = nob
INVARIANTS NoPanic
PROPERTIES SleepersWoken CommitEnds

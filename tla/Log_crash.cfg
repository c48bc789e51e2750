SPECIFICATION StorageSpec
CONSTANTS
    Procs = {p1, p2}
    Blocks = {b1, b2, b3}
    Vals = {v0, v1}
    LOGSIZE = 8
    MAXOPBLOCKS = 4
    NLOG = 8
    OpQuota = 2
    MayCrash = TRUE
    NoBlock = nob
    NBUF = 3
    DiskBlocks = {b0, b1, b2, b3}
    Writable = {b0}
    Words = {0, 1}
    Threads = {p1, p2}
    MaxPinned = 1
SYMMETRY Sym
INVARIANTS TypeOK CommitAlone UpdatesPinned EndedIsDurable
    BcacheTypeOK SleepersServed HoldsValid
PROPERTIES CrashAtomic WriteAhead CacheIsStore

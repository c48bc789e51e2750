SPECIFICATION FilesSpec
CONSTANTS
    Workloads = {"names"}
    Procs = {p1, p2, p3}
    Nobody = nobody
    Requests <- Mixed
    Calls = 1
    Chunk = 2
    MaxFile = 4
    Word = 16
    InitSize = 1
    LogRoom = 2
    NDIRECT = 1
    NINDIRECT = 2
    DataBlocks <- MCDataBlocks
    Inums = {1, 2}
    MaxLen <- MCMaxLen
    Again = {8}
    MaxTruncs = 1
    Junk = 1
    Callers = {"p", "q"}
    Names = {"a", "b"}
    NINODES = 2
    NSLOT = 2
    NFILE = 2
    NOFILE = 1
INVARIANT NoLockCircle
CHECK_DEADLOCK FALSE

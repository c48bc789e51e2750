SPECIFICATION Spec
CONSTANTS
    Procs = {p1, p2}
    Nobody = nobody
    Requests <- AtTheEnd
    Calls = 2
    Chunk = 2
    MaxFile = 6
    Word = 16
    InitSize = 1
    LogRoom = 2
SYMMETRY Sym
INVARIANT LockReturned
CHECK_DEADLOCK FALSE

SPECIFICATION Spec
CONSTANTS
    Procs = {p1, p2, p3}
    Blocks = {b1, b2, b3, b4, b5, b6}
    Vals = {v0}
    LOGSIZE = 6
    MAXOPBLOCKS = 2
    NLOG = 6
    OpQuota = 2
    MayCrash = FALSE
    NoBlock = nob
SYMMETRY Sym
INVARIANT LogHoldsLOGSIZE

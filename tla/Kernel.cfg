SPECIFICATION KernelSpec
CONSTANTS
    NPROC = 3
    Killable = {3}
    PIPESIZE = 2
    Word = 4
    Writes <- MCWrites
    Reads = {1}
    INPUT_BUF = 2
    Uints = 4
    Letters = {"a"}
    ReadSizes = {3}
    NPAGES = 16
    PGSIZE = 2
    SPAN = 2
    KTABS = 1
    MAXPAGES = 3
    Sizes = {1, 3}
    ExecSizes = {6}
INVARIANTS
    KernelTypeOK SleepersWait ParentAlive PipeHeld MemorySound
PROPERTIES
    ReadersWoken PipeIsFifo ConsoleIsTty KilledDies OrphansReaped
CHECK_DEADLOCK FALSE

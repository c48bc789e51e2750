SPECIFICATION Spec
CONSTANTS
    Slots = {1, 2, 3}
    NPROC = 3
    TotalShare = 12
    MinMlfqShare = 4
    MULTSTRIDESHARE = 12
    time_quantom <- Quanta
    time_allotment <- Allotments
    PERIOD_BOOSTING = 7
    Shares = {}
    CanYield = FALSE
    CanRepeat = FALSE
    Sleepers = {}
    CanFork = TRUE
    CanExit = FALSE
    CanFail = FALSE
    MaxPass = 12
INVARIANT HoldsNPROC
CHECK_DEADLOCK FALSE

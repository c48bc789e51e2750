SPECIFICATION Spec
CONSTANTS
    Slots = {1, 2, 3}
    NPROC = 4
    TotalShare = 12
    MinMlfqShare = 4
    MULTSTRIDESHARE = 12
    time_quantom <- Quanta
    time_allotment <- Allotments
    PERIOD_BOOSTING = 3
    Shares = {5}
    CanYield = FALSE
    CanRepeat = FALSE
    Sleepers = {}
    CanFork = TRUE
    CanExit = FALSE
    CanFail = FALSE
    MaxPass = 12
INVARIANT MlfqKeepsShare
CHECK_DEADLOCK FALSE

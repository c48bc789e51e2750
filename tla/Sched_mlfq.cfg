SPECIFICATION Spec
CONSTANTS
    Slots = {1, 2}
    NPROC = 3
    TotalShare = 12
    MinMlfqShare = 4
    MULTSTRIDESHARE = 12
    time_quantom <- Quanta
    time_allotment <- Allotments
    PERIOD_BOOSTING = 3
    Shares = {}
    CanYield = TRUE
    CanRepeat = FALSE
    Sleepers = {2}
    CanFork = TRUE
    CanExit = TRUE
    CanFail = TRUE
    MaxPass = 12
INVARIANTS TypeOK NoLostProcess AllotmentLeft
CHECK_DEADLOCK FALSE

SPECIFICATION FairSpec
CONSTANTS
    Slots = {1, 2, 3}
    NPROC = 5
    TotalShare = 12
    MinMlfqShare = 4
    MULTSTRIDESHARE = 12
    time_quantom <- Quanta
    time_allotment <- Allotments
    PERIOD_BOOSTING = 1
    Shares = {2, 3, 4}
    CanYield = FALSE
    CanRepeat = FALSE
    Sleepers = {}
    CanFork = TRUE
    CanExit = TRUE
    CanFail = FALSE
    MaxPass = 12
INVARIANTS SharesConserved StrideTable PassSpread
PROPERTY EntityTurn

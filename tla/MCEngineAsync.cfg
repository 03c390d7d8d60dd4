\* Any broker, whose calls suspend the task: the checks of one task run
\* between the check and the bookkeeping of the other.  The limits leave room
\* for each to be the one that binds.
SPECIFICATION EngineSpec
CONSTANTS
    None = None
    s1 = s1
    Symbols <- OneSymbol
    InitialSymbols <- OneSymbol
    InitialMargin = 100
    MaxOrderValue = 4
    MaxDailyOrders = 2
    MaxOrdersPerSecond = 1
    MaxOrdersPerMinute = 3
    MaxPositionPerSymbol = 100
    MaxTotalExposure = 6
    OneSecond = 1
    OneMinute = 2
    OneDay = 4
    TradingStart = 0
    TradingEnd = 0
    Tasks = {t1, t2}
    Requests <- SomeSizes
    MaxRetries = 0
    BlockingSDK = FALSE
    MaxTime = 1
    MaxSwitches = 0
    MaxSubmits = 4
    MaxCancels = 0
    MaxFills = 0
SYMMETRY TaskSymmetry
INVARIANTS
    DailyOvershoot
    RateOvershoot
    ExposureOvershoot
CHECK_DEADLOCK FALSE

\* An open order when the switch goes to KILL.
SPECIFICATION FairEngineSpec
CONSTANTS
    None = None
    s1 = s1
    Symbols <- OneSymbol
    InitialSymbols <- OneSymbol
    InitialMargin = 100
    MaxOrderValue = 4
    MaxDailyOrders = 2
    MaxOrdersPerSecond = 1
    MaxOrdersPerMinute = 2
    MaxPositionPerSymbol = 100
    MaxTotalExposure = 6
    OneSecond = 1
    OneMinute = 2
    OneDay = 4
    TradingStart = 0
    TradingEnd = 0
    Tasks = {t1, t2}
    Requests <- OneRequest
    MaxRetries = 0
    BlockingSDK = TRUE
    MaxTime = 0
    MaxSwitches = 1
    MaxSubmits = 1
    MaxCancels = 0
    MaxFills = 1
PROPERTY KillCancelsOpenOrders
CHECK_DEADLOCK FALSE

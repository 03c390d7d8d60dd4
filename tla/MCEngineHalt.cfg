\* A task asleep between two attempts when the switch is thrown.
SPECIFICATION EngineSpec
CONSTANTS
    None = None
    s1 = s1
    Symbols <- OneSymbol
    InitialSymbols <- OneSymbol
    InitialMargin = 100
    MaxOrderValue = 4
    MaxDailyOrders = 2
    MaxOrdersPerSecond = 2
    MaxOrdersPerMinute = 20
    MaxPositionPerSymbol = 100
    MaxTotalExposure = 100
    OneSecond = 1
    OneMinute = 2
    OneDay = 4
    TradingStart = 0
    TradingEnd = 0
    Tasks = {t1}
    Requests <- OneRequest
    MaxRetries = 1
    BlockingSDK = FALSE
    MaxTime = 1
    MaxSwitches = 1
    MaxSubmits = 1
    MaxCancels = 0
    MaxFills = 0
PROPERTY NeverSendsWhileHalted
CHECK_DEADLOCK FALSE

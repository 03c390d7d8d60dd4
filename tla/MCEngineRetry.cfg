\* One task, two submissions, one retry, one cancellation, any broker: answers
\* are lost after the exchange took the order, and the task sleeps while the
\* switch is thrown, twice.
SPECIFICATION FairEngineSpec
CONSTANTS
    None = None
    s1 = s1
    Symbols <- OneSymbol
    InitialSymbols <- OneSymbol
    InitialMargin = 100
    MaxOrderValue = 4
    MaxDailyOrders = 2
    MaxOrdersPerSecond = 1
    MaxOrdersPerMinute = 2
    MaxPositionPerSymbol = 100
    MaxTotalExposure = 6
    OneSecond = 1
    OneMinute = 2
    OneDay = 4
    TradingStart = 0
    TradingEnd = 0
    Tasks = {t1}
    Requests <- OneRequest
    MaxRetries = 1
    BlockingSDK = FALSE
    MaxTime = 1
    MaxSwitches = 2
    MaxSubmits = 2
    MaxCancels = 1
    MaxFills = 0
INVARIANTS
    InFlightPredatesHalt
    OrdersPerSubmission
    LostOrdersReported
PROPERTY SubmissionsFinish
CHECK_DEADLOCK FALSE

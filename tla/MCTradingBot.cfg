\* Any broker, with a retry: syncs fall between the checks of a submission and
\* its bookkeeping, and find losses while calls are under way or asleep.  Two
\* tasks submit, a symbol is registered, an order fills; a restart, an operator.
SPECIFICATION BotSpec
CONSTANTS
    None = None
    s1 = s1
    Symbols <- MCSymbols
    InitialSymbols <- MCInitialSymbols
    InitialMargin = 100
    MaxOrderValue = 2
    MaxDailyOrders = 3
    MaxOrdersPerSecond = 2
    MaxOrdersPerMinute = 3
    MaxPositionPerSymbol = 8
    MaxTotalExposure = 13
    OneSecond = 1
    OneMinute = 2
    OneDay = 4
    TradingStart = 0
    TradingEnd = 0
    Tasks = {t1, t2}
    Requests <- OneRequest
    MaxRetries = 1
    BlockingSDK = FALSE
    MaxTime = 0
    MaxSwitches = 1
    MaxSubmits = 2
    MaxCancels = 0
    MaxFills = 1
    DailyLossLimit = 1
    MarginThreshold = 80
    CriticalThreshold = 95
    Pnls <- SomePnls
    Margins <- SomeMargins
    MaxSyncs = 2
    MaxRestarts = 1
SYMMETRY TaskSymmetry
INVARIANTS
    BotTypeOK
    AuditReconciles
    LossStopsOrders
    SyncedOvershoot
CHECK_DEADLOCK FALSE

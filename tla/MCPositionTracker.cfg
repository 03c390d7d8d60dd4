\* The shipped blocking adapter and three orders, long only: positions are
\* opened, averaged, closed in part and reopened.  Losses and every margin
\* utilization, with room for two entries in the log of the switch before a
\* sync and one more activation by each check.
SPECIFICATION TrackerSpec
CONSTANTS
    None = None
    s1 = s1
    InitialMargin = 100
    MaxOrderValue = 100
    MaxOrdersPerSecond = 100
    MaxOrdersPerMinute = 100
    MaxTotalExposure = 1000
    OneSecond = 1
    OneMinute = 1
    OneDay = 1
    TradingStart = 0
    TradingEnd = 0
    MaxTime = 0
    MarginThreshold = 80
    CriticalThreshold = 95
    Symbols <- OneSymbol
    InitialSymbols <- OneSymbol
    Requests <- BuyAndSell
    FillPrices <- Prices
    Pnls <- SomePnls
    Margins <- Utilizations
    DailyLossLimit = 100
    AllowShort = FALSE
    BlockingSDK = TRUE
    MaxDailyOrders = 3
    MaxSwitches = 2
    MaxPositionPerSymbol = 100
INVARIANTS
    FollowsBroker
    RealizedIsCash
PROPERTY SyncHalts
CHECK_DEADLOCK FALSE

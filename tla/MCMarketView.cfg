\* Five candles, enough for two readings of the slowest indicator; four days
\* of implied volatility; three strikes; six stocks.
SPECIFICATION ViewSpec
CONSTANTS
    None = None
    Candles <- SomeCandles
    Period = 3
    FastPeriod = 2
    SlowPeriod = 3
    SignalPeriod = 2
    NumStd = 1
    MaxLog = 8
    Ivs <- SomeIvs
    SkewFactor <- OneTenth
    Strikes <- ThreeStrikes
    TopN = 2
    MaxCandles = 5
    MaxIvs = 4
    MaxOi = 2
    MaxPrice = 2
    MaxStocks = 6
    VixRange <- VixFromLowToHigh
INVARIANTS
    ReadingsInRange
    RsiMirrors
    IvReadingsAgree
PROPERTIES
    NoLookAhead
    StrengthReadings
CHECK_DEADLOCK FALSE

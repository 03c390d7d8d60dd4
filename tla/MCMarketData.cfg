\* Three instruments of which two are kept; a TTL of one tick in three; up to
\* two candles in a put.  Three tokens of which two may be subscribed, two
\* connections, two lost links.
SPECIFICATION MarketDataSpec
CONSTANTS
    Instruments = {i1, i2, i3}
    Timestamps = {1, 2, 3}
    Values = {a, b}
    TTL = 1
    MaxInstruments = 2
    MaxCandles = 2
    MaxBatch = 2
    MaxPuts = 3
    MaxTime = 3
    Tokens = {k1, k2, k3}
    MaxSubs = 2
    MaxConnections = 3
    None = None
    MaxStarts = 2
    MaxDrops = 2
SYMMETRY MarketDataSymmetry
INVARIANTS
    OldestFirst
    NewestKept
    StreamsSubscriptions
    SubsWithinLimit
    FlagTellsLink
PROPERTY NeverRevives
CHECK_DEADLOCK FALSE

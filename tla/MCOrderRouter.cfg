\* Two tasks and six requests over six ticks: a second is two ticks and a
\* minute four, so that windows overlap, open and close again.  The limit of
\* the daily count is met after the windows' limits were met and left.
SPECIFICATION RouterSpec
CONSTANTS
    Tasks = {t1, t2}
    Segments = {NFO, CDS}
    MaxOps = 2
    MaxOpm = 0
    MaxOpd = 5
    SettingsOps = 3
    SettingsOpm = 3
    SettingsOpd = 5
    OneSecond = 2
    OneMinute = 4
    OneDay = 5
    MaxRequests = 6
    MaxTime = 6
SYMMETRY TaskSymmetry
INVARIANTS
    HandedOverLimits
    EverySlotExplained
PROPERTY RefusedOnlyAtALimit
CHECK_DEADLOCK FALSE

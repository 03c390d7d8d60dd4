\* A day is four ticks and allows two orders; a run sees a second day.
SPECIFICATION RouterSpec
CONSTANTS
    Tasks = {t1, t2}
    Segments = {NFO, CDS}
    MaxOps = 2
    MaxOpm = 0
    MaxOpd = 2
    SettingsOps = 3
    SettingsOpm = 3
    SettingsOpd = 5
    OneSecond = 1
    OneMinute = 2
    OneDay = 4
    MaxRequests = 4
    MaxTime = 6
SYMMETRY TaskSymmetry
PROPERTY DayLimitIsOfTheDay
CHECK_DEADLOCK FALSE

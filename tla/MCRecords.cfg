\* Four operator actions, three instants and two processes: enough to raise,
\* lower, repeat and leave a level, and to leave it twice.  Four entries of the
\* trail and two writes into them: an entry may be altered or lost and a
\* neighbour after it.
SPECIFICATION RecordsSpec
CONSTANTS
    None = None
    MaxTime = 2
    MaxSwitches = 4
    MaxLives = 2
    Payloads <- MCPayloads
    MaxRecords = 4
    MaxFaults = 2
INVARIANTS
    KSTypeOK
    LogReplays
    LogAlternates
    VerifiedIsRecorded
PROPERTIES
    NeverAutoResumes
    RecordingNeverMends
    ImplementsLog
\* The operator may stop acting, recording may stop, and the clock is bounded.
CHECK_DEADLOCK FALSE

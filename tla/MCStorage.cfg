\* Five records over a cap of three pages: the cleanup runs several times,
\* with one failing statement and one restart anywhere.
CONSTANTS
    MaxRecords = 5
    MaxFailures = 1
    MaxRestarts = 1
    HighMark = 3
    LowMark = 2
    CleanupShare = 2
    AutoCheckpoint = 3
    AutoVacuum = "INCREMENTAL"
    Limits = {1, 3}
SPECIFICATION FairSpecH
INVARIANTS
    IdsAreConsecutive
    IdsFollowRecords
    SkipsOnlyWhatWasUndone
    FileStaysBelowCap
PROPERTIES
    InsertReturns
    ImplementsRetainedLog
CHECK_DEADLOCK FALSE

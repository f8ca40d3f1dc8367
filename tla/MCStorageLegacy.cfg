\* A database file that was created without auto_vacuum reaches the cap.
CONSTANTS
    MaxRecords = 4
    MaxFailures = 0
    MaxRestarts = 0
    HighMark = 3
    LowMark = 2
    CleanupShare = 2
    AutoCheckpoint = 3
    AutoVacuum = "NONE"
    Limits = {1}
SPECIFICATION FairSpecH
PROPERTY InsertReturns
CHECK_DEADLOCK FALSE

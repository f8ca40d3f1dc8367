\* A port that opens but stalls: the stall time-out of reader.py's notes.
CONSTANTS
    ReadTimeout = 2
    RetryDelay = 5
    StallTimeout = 10
    Drain = 3
    StopWait = 3
    Grace = 1
    MaxRecords = 1
    MaxFailures = 0
    MaxReplugs = 0
SPECIFICATION FairSpec
PROPERTY StalledPortIsReopened
CHECK_DEADLOCK FALSE

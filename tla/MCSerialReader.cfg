\* The code's delays in seconds: two of pyserial's time-outs, reader.py:32-33, main.py:37,
\* reader.py:104 and api.py:134.
CONSTANTS
    ReadTimeout = 2
    RetryDelay = 5
    StallTimeout = 10
    Drain = 3
    StopWait = 3
    Grace = 1
    MaxRecords = 2
    MaxFailures = 1
    MaxReplugs = 2
SPECIFICATION FairSpec
INVARIANTS
    DatabaseOutlivesReader
    ExitsInTime
    RecordsAccountedFor
PROPERTIES
    OnlyTheHungAreCancelled
    ReaderRecovers
    ServiceExits
CHECK_DEADLOCK FALSE

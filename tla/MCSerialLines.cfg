\* A line takes 2 to 4 ticks, a read times out after 4.
CONSTANTS
    Environments <- MCEnvironments
    Timeout = 4
    Sizes = {1, 2, 3}
    Pauses = {0, 2, 5}
    Lag = 2
    MaxLines = 3
SPECIFICATION Spec
INVARIANTS
    TimelyLinesArrive
    RecordsAreSentLines
    ReadsEndInTime
CHECK_DEADLOCK FALSE

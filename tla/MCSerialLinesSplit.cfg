\* Lines that fit the limit, with pauses about as long as the time-out.
CONSTANTS
    Environments <- MCDefaults
    Timeout = 4
    Sizes = {3}
    Pauses = {2}
    Lag = 1
    MaxLines = 3
SPECIFICATION Spec
INVARIANT FittingLinesArrive
CHECK_DEADLOCK FALSE

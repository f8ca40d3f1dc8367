\* One tick is the timeout; the clock wraps after three, so every kind of
\* sentence is heard before, at and after the wrap.
CONSTANTS
    Wrap = 3
    Timeout = 1
    MaxSilence = 2
    MinOkSatellites = 1
    SatelliteCounts = {0, 1}
    CountMax = 1
    TimeField = {TRUE}
SPECIFICATION TrackerSpec
INVARIANTS
    FreshnessIsExact
    PositionIsCurrent
    MeasurementsAreCurrent
    ReportIsCoherent
PROPERTIES
    PositionOnlyFromCoordinates
    SilenceOnlyDegrades

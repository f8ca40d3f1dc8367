\* A tick is half a second: frames and reports every two, a time-out of three
\* (between one period and two, as 1.8 is), a clock that wraps after twenty.
CONSTANTS
    Wrap = 20
    Timeout = 3
    MinOkSatellites = 6
    SatelliteCounts = {0, 3, 4, 5, 9}
    CountMax = 1
    TimeField = {TRUE}
    DisplayRefresh = 2
    ReportInterval = 2
    SendPeriod = 2
    AutoPhase = 4
    Scenarios = {"AUTO", "REFERENCE_OK"}
    MaxChanges = 1
    AutoStarts = {0}
    Transit = 1
    MaxFaults = 1
    MaxSilence = 14
SPECIFICATION Spec
INVARIANTS
    ScenarioIsReported
    DisplayAgreesWithReport
PROPERTY ReportsKeepTheirPace

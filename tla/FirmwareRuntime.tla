--------------------------- MODULE FirmwareRuntime ---------------------------
(***************************************************************************)
(* firmware_runtime.cpp: the Arduino loop around gps_processing.cpp.  One  *)
(* iteration hands the sentences that are complete to the parser, then     *)
(* takes the time and a snapshot, sets the LEDs, and redraws the display   *)
(* and emits a parsed_state record when their intervals are over.          *)
(* The framing of bytes into sentences is NmeaFramer's.                    *)
(***************************************************************************)
EXTENDS GpsTracker

CONSTANTS
    DisplayRefresh,     \* DISPLAY_REFRESH_MS
    ReportInterval      \* PARSED_REPORT_INTERVAL_MS

ASSUME IntervalAssumption ==
    /\ DisplayRefresh \in Nat \ {0} /\ ReportInterval \in Nat \ {0}
    /\ ReportInterval + 1 < Wrap
    /\ DisplayRefresh = ReportInterval

VARIABLES
    displayReady,
    lastDisplayUpdateMs, lastParsedJsonReportMs,
    leds,           \* what the LEDs show
    display,        \* the rows of the display
    report          \* the last record emitted

runtimeVars == <<displayReady, lastDisplayUpdateMs, lastParsedJsonReportMs,
                 leds, display, report>>

Nothing == "nothing"
AllOff == [data |-> FALSE, error |-> FALSE, warning |-> FALSE, ok |-> FALSE]
DiagnosticStates == {"NoData", "NoFix", "Degraded2D", "DegradedLowSat", "Ok"}

\* The facts of a parsed_state record the consumers decide by.
ParsedState(g, t) ==
    [state |-> DiagnosticState(g, t), valid |-> UsablePosition(g, t),
     gpsData |-> FreshNmea(g, t), fix |-> CurrentFix(g, t),
     fixType |-> FixTypeToText(g, t), altitude |-> UsableAltitude(g, t),
     sats |-> IF IsRecent(t, g.lastGgaMs) THEN g.satellitesUsed ELSE 0]

Reports ==
    [state: DiagnosticStates \cup {Nothing}, valid: BOOLEAN, gpsData: BOOLEAN,
     fix: BOOLEAN, fixType: {"NONE", "UNKNOWN", "2D", "3D"}, altitude: BOOLEAN,
     sats: SatelliteCounts]

Displays ==
    [state: DiagnosticStates \cup {Nothing}, fix: {"---", "NO", "YES", "2D", "3D"},
     sats: SUBSET SatelliteCounts, position: BOOLEAN, altitude: BOOLEAN,
     age: {"---", "STALE", "seconds"}]

NoReport == [state |-> Nothing, valid |-> FALSE, gpsData |-> FALSE, fix |-> FALSE,
             fixType |-> "NONE", altitude |-> FALSE, sats |-> 0]

BootScreen == [state |-> Nothing, fix |-> "---", sats |-> {}, position |-> FALSE,
               altitude |-> FALSE, age |-> "---"]

RuntimeTypeOK ==
    /\ TrackerTypeOK
    /\ displayReady \in BOOLEAN
    /\ lastDisplayUpdateMs \in Millis /\ lastParsedJsonReportMs \in Millis
    /\ leds \in [data: BOOLEAN, error: BOOLEAN, warning: BOOLEAN, ok: BOOLEAN]
    /\ display \in Displays
    /\ report \in Reports

\* setupFirmware() has run: millis() is past 0, the display was found or not.
RuntimeInit ==
    /\ TrackerInit
    /\ displayReady \in BOOLEAN
    /\ lastDisplayUpdateMs = 0 /\ lastParsedJsonReportMs = 0
    /\ leds = AllOff /\ display = BootScreen /\ report = NoReport

\* readGpsSerial() completed sentence `s'.
HandleSentence(s) ==
    /\ \/ s \in OtherSentence /\ Other(s)
       \/ s \in GgaSentence /\ Gga(s)
       \/ s \in GsaSentence /\ Gsa(s)
       \/ s \in RmcSentence /\ Rmc(s)
    /\ UNCHANGED runtimeVars

\* Fault: `>' for `>='.
UpdateDisplayLate ==
    IF ElapsedMs(now, lastDisplayUpdateMs) > DisplayRefresh
    THEN /\ lastDisplayUpdateMs' = now
         /\ display' = IF displayReady THEN BuildDisplayModel(gps, now) ELSE display
    ELSE UNCHANGED <<lastDisplayUpdateMs, display>>

UpdateDisplay ==
    IF ElapsedMs(now, lastDisplayUpdateMs) >= DisplayRefresh
    THEN /\ lastDisplayUpdateMs' = now
         /\ display' = IF displayReady THEN BuildDisplayModel(gps, now) ELSE display
    ELSE UNCHANGED <<lastDisplayUpdateMs, display>>

\* Fault: a deadline is compared instead of a difference.
ReportDueByDeadline == now >= lastParsedJsonReportMs + ReportInterval

ReportDue == ElapsedMs(now, lastParsedJsonReportMs) >= ReportInterval

ReportParsedState ==
    IF ReportDue
    THEN lastParsedJsonReportMs' = now /\ report' = ParsedState(gps, now)
    ELSE UNCHANGED <<lastParsedJsonReportMs, report>>

\* loopFirmware() from `nowMs = millis()' to its delay.  The clock may have gone
\* on since the last sentence of the iteration was stamped.
Present ==
    /\ leds' = BuildLedPattern(gps, now)
    /\ UpdateDisplay
    /\ ReportParsedState
    /\ UNCHANGED <<trackerVars, displayReady>>
=============================================================================

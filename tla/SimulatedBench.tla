---------------------------- MODULE SimulatedBench ----------------------------
(***************************************************************************)
(* The simulated bench: NeoM8nChip sends to FirmwareRuntime over a UART    *)
(* that takes up to Transit ticks to carry a frame and may damage or lose  *)
(* sentences.  A tick is a fraction of the receiver's period.              *)
(***************************************************************************)
EXTENDS NeoM8nChip, FirmwareRuntime

CONSTANTS
    Transit,        \* ticks a frame takes on the line (9600 baud)
    MaxFaults       \* bound: sentences damaged or lost

ASSUME BenchAssumption ==
    /\ Transit \in Nat /\ MaxFaults \in Nat
    /\ Transit < SendPeriod /\ SendPeriod + Transit <= Timeout
    /\ {States[i].sats : i \in 1 .. 5} \subseteq SatelliteCounts
    /\ TRUE \in TimeField

VARIABLES
    transit,        \* ticks the sentences on the line have been under way
    faults,
    sinceLoop,      \* ticks since the loop last presented
    sinceReport,    \* history: ticks since the last report, or since power-on
    steady          \* history: ticks since the chip said something new, or a
                    \* sentence was lost or stamped 0, up to Settled

benchVars == <<transit, faults, sinceLoop, sinceReport, steady>>
vars == <<chipVars, line, trackerVars, runtimeVars, benchVars>>

\* A new chip state shows once the old one has expired, which its frame was
\* faster than, and a report has been due.
Settled == Timeout + 1 + ReportInterval + 1

TypeOK ==
    /\ RuntimeTypeOK
    /\ scenario \in Scenarios /\ changes \in 0 .. MaxChanges
    /\ seconds \in Cycle /\ timer \in 0 .. SendPeriod
    /\ Len(line) <= 3
    /\ transit \in 0 .. Transit /\ faults \in 0 .. MaxFaults
    /\ sinceLoop \in 0 .. 1 /\ sinceReport \in Nat /\ steady \in 0 .. Settled

Init ==
    /\ ChipInit /\ RuntimeInit
    /\ transit = 0 /\ faults = 0 /\ sinceLoop = 0 /\ sinceReport = 1 /\ steady = 0

-----------------------------------------------------------------------------
Send ==
    /\ SendNmeaFrame
    /\ transit' = 0
    /\ steady' = IF resolved' = resolved THEN steady ELSE 0
    /\ UNCHANGED <<trackerVars, runtimeVars, faults, sinceLoop, sinceReport>>

Select == SelectScenario /\ UNCHANGED <<trackerVars, runtimeVars, benchVars>>

\* The rest of a sentence arrives, and the framer completes it.
Arrive ==
    /\ line # << >>
    /\ HandleSentence(Head(line))
    /\ line' = Tail(line)
    /\ steady' = IF now = 0 THEN 0 ELSE steady
    /\ UNCHANGED <<chipVars, transit, faults, sinceLoop, sinceReport>>

\* A byte is damaged: the checksum fails.
ArriveDamaged ==
    /\ line # << >> /\ faults < MaxFaults
    /\ HandleSentence([type |-> "Corrupt"])
    /\ line' = Tail(line) /\ faults' = faults + 1 /\ steady' = 0
    /\ UNCHANGED <<chipVars, transit, sinceLoop, sinceReport>>

\* The `$' is lost: the framer never completes the sentence.
Lose ==
    /\ line # << >> /\ faults < MaxFaults
    /\ line' = Tail(line) /\ faults' = faults + 1 /\ steady' = 0
    /\ UNCHANGED <<chipVars, trackerVars, runtimeVars, transit, sinceLoop, sinceReport>>

Loop ==
    /\ Present
    /\ sinceLoop' = 0
    /\ sinceReport' = IF ReportDue THEN 0 ELSE sinceReport
    /\ UNCHANGED <<chipVars, line, transit, faults, steady>>

\* The loop comes round once a tick, the line and the timer are in time.
Tick ==
    /\ timer > 0 /\ sinceLoop = 0
    /\ line # << >> => transit < Transit
    /\ timer' = timer - 1
    /\ AdvanceMillis
    /\ transit' = IF line = << >> THEN 0 ELSE transit + 1
    /\ sinceLoop' = 1
    /\ sinceReport' = sinceReport + 1
    /\ steady' = IF steady < Settled THEN steady + 1 ELSE steady
    /\ UNCHANGED <<scenario, changes, seconds, resolved, line, runtimeVars, faults>>

Next ==
    \/ Send \/ Select \/ Arrive \/ ArriveDamaged \/ Lose \/ Loop \/ Tick

Spec == Init /\ [][Next]_vars

-----------------------------------------------------------------------------
ExpectedState(chip) ==
    IF ~chip.transmit THEN "NoData"
    ELSE IF ~HasFix(chip) THEN "NoFix"
    ELSE IF chip.fixMode = 2 THEN "Degraded2D"
    ELSE IF chip.sats < MinOkSatellites THEN "DegradedLowSat"
    ELSE "Ok"

(* End to end: once the receiver has said the same for long enough, every  *)
(* report, the display and the LEDs say what it says, at every phase of    *)
(* frame, loop and report, and across the wrap of millis().                *)
ScenarioIsReported ==
    steady = Settled =>
        LET expected == ExpectedState(resolved) IN
        /\ report.state = expected
        /\ report.valid <=> resolved.transmit /\ HasFix(resolved)
        /\ report.fixType = CASE ~report.valid -> "NONE"
                              [] resolved.fixMode = 2 -> "2D"
                              [] resolved.fixMode = 3 -> "3D"
        /\ report.altitude <=> report.fixType = "3D"
        /\ displayReady => display.state = expected
        /\ leds.ok <=> expected = "Ok"
        /\ leds.warning <=> expected \in {"Degraded2D", "DegradedLowSat"}
        /\ leds.error <=> expected \in {"NoData", "NoFix"}

(* The display and the last report tell the same, though two functions    *)
(* word it and two timers that wrap decide when.                           *)
DisplayAgreesWithReport ==
    /\ lastDisplayUpdateMs = lastParsedJsonReportMs
    /\ displayReady =>
         /\ display.state = report.state
         /\ display.position = report.valid /\ display.altitude = report.altitude
         /\ report.fixType = CASE display.fix \in {"---", "NO"} -> "NONE"
                               [] display.fix = "YES" -> "UNKNOWN"
                               [] OTHER -> display.fix
         /\ display.sats = {report.sats} \/ (display.sats = {} /\ report.sats = 0)
         /\ display.age = "seconds" <=> report.gpsData

(* A report follows the last one after the interval and at most one loop,  *)
(* also when millis() wraps between them.                                  *)
ReportsKeepTheirPace ==
    /\ [](sinceReport <= ReportInterval + 1)
    /\ [][lastParsedJsonReportMs' # lastParsedJsonReportMs
            => sinceReport >= ReportInterval]_vars

(* firmware_settings.h: the time-out tolerates one missed sentence.        *)
OneMissedSentenceIsTolerated ==
    \A stamp \in {gps.lastNmeaMs, gps.lastGgaMs, gps.lastRmcMs, gps.lastGsaMs} :
        stamp # 0 /\ faults <= 1 => IsRecent(now, stamp)
=============================================================================

--------------------------- MODULE GpsProcessing ---------------------------
(***************************************************************************)
(* The pure part of the firmware: gps_processing.cpp turns NMEA sentences  *)
(* into GpsData and, once per loop tick, GpsData into a snapshot of what   *)
(* is still fresh.  status_presentation.cpp shows the snapshot.            *)
(*                                                                         *)
(* A sentence is abstracted to what the parsers tell apart:                *)
(*   "Corrupt"     the checksum does not match                             *)
(*   "Blank"       the checksum matches, the sentence ID is empty          *)
(*   "Unsupported" another sentence type, or a GGA, GSA or RMC with too    *)
(*                 few fields for its parser to touch anything             *)
(*   "GGA", "GSA", "RMC" with the facts their fields carry.                *)
(* A coordinate is "present" when its four fields are filled and parse.    *)
(* Numbers the diagnosis does not look at (pdop, vdop, speed, course,      *)
(* date, geoid) are left out: each is rewritten, or marked invalid, by     *)
(* every sentence of the one type that carries it.                         *)
(***************************************************************************)
EXTENDS Naturals

CONSTANTS
    Wrap,               \* millis() counts modulo Wrap (2^32 in the firmware)
    Timeout,            \* GPS_DATA_TIMEOUT_MS
    MinOkSatellites,    \* MIN_OK_SATELLITES
    SatelliteCounts,    \* the satellite counts a GGA sentence may report
    CountMax,           \* where the sentence counters saturate (UINT32_MAX)
    TimeField           \* whether GGA and RMC carry the time: a set of BOOLEANs

ASSUME ClockAssumption ==
    /\ Wrap \in Nat /\ Timeout \in Nat
    /\ 0 < Timeout /\ Timeout < Wrap

ASSUME ParameterAssumption ==
    /\ MinOkSatellites \in Nat
    /\ SatelliteCounts \subseteq Nat /\ 0 \in SatelliteCounts
    /\ CountMax \in Nat \ {0}
    /\ TimeField \subseteq BOOLEAN

Millis == 0 .. (Wrap - 1)
Counter == 0 .. CountMax

-----------------------------------------------------------------------------
(* Sentences, as the parsers read them. *)

GgaSentence == [type: {"GGA"}, fix: BOOLEAN, sats: SatelliteCounts,
                coords: BOOLEAN, alt: BOOLEAN, hdop: BOOLEAN, time: TimeField]
GsaSentence == [type: {"GSA"}, fixType: 0 .. 3, hdop: BOOLEAN]
RmcSentence == [type: {"RMC"}, active: BOOLEAN, coords: BOOLEAN, time: TimeField]
OtherSentence == [type: {"Corrupt", "Blank", "Unsupported"}]

GpsData == [nmeaValid: BOOLEAN, hasFix: BOOLEAN, locationValid: BOOLEAN,
            altitudeValid: BOOLEAN, hdopValid: BOOLEAN, timeValid: BOOLEAN,
            fixTypeValid: BOOLEAN, fixType: {0, 2, 3},
            satellitesUsed: SatelliteCounts,
            lastNmeaMs: Millis, lastGgaMs: Millis, lastGsaMs: Millis,
            lastRmcMs: Millis,
            rawSentenceCount: Counter, acceptedSentenceCount: Counter,
            checksumErrorCount: Counter]

InitialGpsData ==
    [nmeaValid |-> FALSE, hasFix |-> FALSE, locationValid |-> FALSE,
     altitudeValid |-> FALSE, hdopValid |-> FALSE, timeValid |-> FALSE,
     fixTypeValid |-> FALSE, fixType |-> 0, satellitesUsed |-> 0,
     lastNmeaMs |-> 0, lastGgaMs |-> 0, lastGsaMs |-> 0, lastRmcMs |-> 0,
     rawSentenceCount |-> 0, acceptedSentenceCount |-> 0,
     checksumErrorCount |-> 0]

-----------------------------------------------------------------------------
(* Parsing. *)

SaturatingIncrement(counter) ==
    IF counter < CountMax THEN counter + 1 ELSE counter

\* Fault: only the fix is cleared.
MarkFixInvalid(g) == [g EXCEPT !.hasFix = FALSE]

MarkPositionInvalid(g) == [g EXCEPT !.hasFix = FALSE, !.locationValid = FALSE]

\* Fault: an empty altitude field leaves the altitude valid.
ParseGgaKeepingAltitude(g, s, now) ==
    [g EXCEPT !.lastGgaMs = now, !.timeValid = @ \/ s.time, !.hasFix = s.fix,
              !.satellitesUsed = s.sats, !.hdopValid = s.hdop,
              !.altitudeValid = @ \/ s.alt, !.locationValid = s.fix /\ s.coords]

ParseGga(g, s, now) ==
    [g EXCEPT !.lastGgaMs = now,
              !.timeValid = @ \/ s.time,
              !.hasFix = s.fix,
              !.satellitesUsed = s.sats,
              !.hdopValid = s.hdop,
              !.altitudeValid = s.alt,
              !.locationValid = s.fix /\ s.coords]

\* Fault: a GSA without a fix leaves the position valid.
ParseGsaKeepingPosition(g, s, now) ==
    [g EXCEPT !.lastGsaMs = now, !.fixTypeValid = s.fixType >= 1, !.hdopValid = s.hdop,
              !.fixType = IF s.fixType \in {2, 3} THEN s.fixType ELSE 0,
              !.hasFix = @ \/ s.fixType \in {2, 3}]

ParseGsa(g, s, now) ==
    LET heard == [g EXCEPT !.lastGsaMs = now,
                           !.fixTypeValid = s.fixType >= 1,
                           !.hdopValid = s.hdop]
    IN  IF s.fixType \in {2, 3}
        THEN [heard EXCEPT !.fixType = s.fixType, !.hasFix = TRUE]
        ELSE MarkPositionInvalid([heard EXCEPT !.fixType = 0])

ParseRmc(g, s, now) ==
    LET heard == [g EXCEPT !.lastRmcMs = now, !.timeValid = @ \/ s.time]
    IN  IF s.active
        THEN [heard EXCEPT !.hasFix = TRUE, !.locationValid = s.coords]
        ELSE MarkPositionInvalid(heard)

Count(g) == [g EXCEPT !.rawSentenceCount = SaturatingIncrement(@)]

Reject(g) == [g EXCEPT !.checksumErrorCount = SaturatingIncrement(@)]

Accept(g, now) ==
    [g EXCEPT !.nmeaValid = TRUE,
              !.lastNmeaMs = now,
              !.acceptedSentenceCount = SaturatingIncrement(@)]

ProcessNmeaSentence(g, s, now) ==
    CASE s.type = "Corrupt" -> Reject(Count(g))
      [] s.type = "Blank" -> Count(g)
      [] s.type = "Unsupported" -> Accept(Count(g), now)
      [] s.type = "GGA" -> ParseGga(Accept(Count(g), now), s, now)
      [] s.type = "GSA" -> ParseGsa(Accept(Count(g), now), s, now)
      [] s.type = "RMC" -> ParseRmc(Accept(Count(g), now), s, now)

-----------------------------------------------------------------------------
(* Freshness and diagnosis at the instant `now'. *)

\* Fault: a timestamp from before the wrap counts as one from the future.
ElapsedMsWithoutWrap(now, timestamp) ==
    IF now >= timestamp THEN now - timestamp ELSE 0

\* nowMs - timestampMs in unsigned arithmetic, i.e. modulo Wrap.
ElapsedMs(now, timestamp) ==
    IF now >= timestamp THEN now - timestamp ELSE (now + Wrap) - timestamp

IsRecent(now, timestamp) ==
    timestamp # 0 /\ ElapsedMs(now, timestamp) <= Timeout

Fresh2D(g, now) ==
    IsRecent(now, g.lastGsaMs) /\ g.fixTypeValid /\ g.fixType = 2

FreshPositionSource(g, now) ==
    IsRecent(now, g.lastGgaMs) \/ IsRecent(now, g.lastRmcMs)

FreshFixSource(g, now) ==
    FreshPositionSource(g, now) \/ IsRecent(now, g.lastGsaMs)

CurrentFix(g, now) == FreshFixSource(g, now) /\ g.hasFix

UsablePosition(g, now) ==
    FreshPositionSource(g, now) /\ CurrentFix(g, now) /\ g.locationValid

UsableAltitude(g, now) ==
    /\ IsRecent(now, g.lastGgaMs) /\ g.altitudeValid
    /\ UsablePosition(g, now)
    /\ ~Fresh2D(g, now)

UsableHdop(g, now) ==
    (IsRecent(now, g.lastGgaMs) \/ IsRecent(now, g.lastGsaMs)) /\ g.hdopValid

ReportedTime(g, now) == FreshPositionSource(g, now) /\ g.timeValid

FreshNmea(g, now) == g.nmeaValid /\ IsRecent(now, g.lastNmeaMs)

\* Fault: a stale GGA sentence is no reason to degrade.
DiagnosticStateOfAnyGga(g, now) ==
    IF ~FreshNmea(g, now) THEN "NoData"
    ELSE IF ~UsablePosition(g, now) THEN "NoFix"
    ELSE IF Fresh2D(g, now) THEN "Degraded2D"
    ELSE IF IsRecent(now, g.lastGgaMs) /\ g.satellitesUsed < MinOkSatellites
         THEN "DegradedLowSat"
    ELSE "Ok"

\* Fault: the satellites are looked at before the fix type.
DiagnosticStateBySatellites(g, now) ==
    IF ~FreshNmea(g, now) THEN "NoData"
    ELSE IF ~UsablePosition(g, now) THEN "NoFix"
    ELSE IF ~IsRecent(now, g.lastGgaMs) \/ g.satellitesUsed < MinOkSatellites
         THEN "DegradedLowSat"
    ELSE IF Fresh2D(g, now) THEN "Degraded2D"
    ELSE "Ok"

DiagnosticState(g, now) ==
    IF ~FreshNmea(g, now) THEN "NoData"
    ELSE IF ~UsablePosition(g, now) THEN "NoFix"
    ELSE IF Fresh2D(g, now) THEN "Degraded2D"
    ELSE IF ~IsRecent(now, g.lastGgaMs) \/ g.satellitesUsed < MinOkSatellites
         THEN "DegradedLowSat"
    ELSE "Ok"

FixTypeToText(g, now) ==
    IF ~CurrentFix(g, now) THEN "NONE"
    ELSE IF IsRecent(now, g.lastGsaMs) /\ g.fixTypeValid /\ g.fixType = 2 THEN "2D"
    ELSE IF IsRecent(now, g.lastGsaMs) /\ g.fixTypeValid /\ g.fixType = 3 THEN "3D"
    ELSE "UNKNOWN"

FixTypeToDisplay(g, now) ==
    IF ~FreshFixSource(g, now) THEN "---"
    ELSE IF ~g.hasFix THEN "NO"
    ELSE IF FixTypeToText(g, now) = "UNKNOWN" THEN "YES"
    ELSE FixTypeToText(g, now)

\* The rows of the display: one that shows `---' is empty.
DisplayAge(g, now) ==
    IF ~g.nmeaValid THEN "---" ELSE IF ~FreshNmea(g, now) THEN "STALE" ELSE "seconds"

BuildDisplayModel(g, now) ==
    [state |-> DiagnosticState(g, now),
     fix |-> FixTypeToDisplay(g, now),
     sats |-> IF IsRecent(now, g.lastGgaMs) THEN {g.satellitesUsed} ELSE {},
     position |-> UsablePosition(g, now),
     altitude |-> UsableAltitude(g, now),
     age |-> DisplayAge(g, now)]

\* The worst state has rank 0: the order of the enum.
Rank(state) ==
    CASE state = "NoData" -> 0
      [] state = "NoFix" -> 1
      [] state = "Degraded2D" -> 2
      [] state = "DegradedLowSat" -> 3
      [] state = "Ok" -> 4

\* Fault: the data LED stays on once a sentence was accepted.
LedPatternWithoutAge(g, now) ==
    LET state == DiagnosticState(g, now)
    IN  [data |-> g.nmeaValid,
         error |-> state \in {"NoData", "NoFix"},
         warning |-> state \in {"Degraded2D", "DegradedLowSat"},
         ok |-> state = "Ok"]

BuildLedPattern(g, now) ==
    LET state == DiagnosticState(g, now)
    IN  [data |-> FreshNmea(g, now),
         error |-> state \in {"NoData", "NoFix"},
         warning |-> state \in {"Degraded2D", "DegradedLowSat"},
         ok |-> state = "Ok"]
=============================================================================

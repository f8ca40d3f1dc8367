----------------------------- MODULE GpsTracker -----------------------------
(***************************************************************************)
(* The GPS state of the firmware as sentences arrive and time passes: one  *)
(* action per kind of sentence handed to processNmeaSentence(), and the    *)
(* millisecond clock, which wraps.                                         *)
(*                                                                         *)
(* Two history variables record what really happened, independently of the *)
(* flags and wrapping timestamps the firmware keeps:                       *)
(*   age        how long ago a sentence of each kind was last handled;     *)
(*   dataAge    how long ago a sentence last CARRIED each datum, counted   *)
(*              up to Timeout + 1, which stands for "too old";             *)
(*   noFixSince whether a sentence said "no fix" after the coordinates     *)
(*              were last carried.                                         *)
(***************************************************************************)
EXTENDS GpsProcessing

CONSTANT MaxSilence   \* bound: no kind of sentence, once heard, stays away longer

\* Shorter than the wrap: one kind of sentence missing for the whole 49.7 days
\* of 2^32 ms, and no longer, would look fresh again.
ASSUME SilenceAssumption ==
    MaxSilence \in Nat /\ Timeout < MaxSilence /\ MaxSilence < Wrap

VARIABLES gps, now, age, dataAge, noFixSince
trackerVars == <<gps, now, age, dataAge, noFixSince>>

Kinds == {"nmea", "gga", "gsa", "rmc"}
Data == {"coords", "alt", "hdop", "time"}
Never == MaxSilence + 1
TooOld == Timeout + 1

TrackerTypeOK ==
    /\ gps \in GpsData
    /\ now \in Millis
    /\ age \in [Kinds -> 0 .. Never]
    /\ dataAge \in [Data -> 0 .. TooOld]
    /\ noFixSince \in BOOLEAN

\* The loop starts after setup()'s delay: millis() is past 0.
TrackerInit ==
    /\ gps = InitialGpsData
    /\ now = 1
    /\ age = [k \in Kinds |-> Never]
    /\ dataAge = [d \in Data |-> TooOld]
    /\ noFixSince = FALSE

-----------------------------------------------------------------------------
\* What a sentence is evidence of: kinds heard, data carried, verdict on the fix.
Hear(kinds) == age' = [k \in Kinds |-> IF k \in kinds THEN 0 ELSE age[k]]
Carry(data) == dataAge' = [d \in Data |-> IF d \in data THEN 0 ELSE dataAge[d]]

Receive(s) == gps' = ProcessNmeaSentence(gps, s, now) /\ UNCHANGED now

Other(s) ==
    /\ Receive(s)
    /\ Hear(IF s.type = "Unsupported" THEN {"nmea"} ELSE {})
    /\ UNCHANGED <<dataAge, noFixSince>>

Gga(s) ==
    /\ Receive(s)
    /\ Hear({"nmea", "gga"})
    /\ Carry({d \in Data : \/ d = "coords" /\ s.fix /\ s.coords
                           \/ d = "alt" /\ s.alt
                           \/ d = "hdop" /\ s.hdop
                           \/ d = "time" /\ s.time})
    /\ noFixSince' = (~s.fix \/ (noFixSince /\ ~s.coords))

Gsa(s) ==
    /\ Receive(s)
    /\ Hear({"nmea", "gsa"})
    /\ Carry({d \in Data : d = "hdop" /\ s.hdop})
    /\ noFixSince' = (s.fixType \notin {2, 3} \/ noFixSince)

Rmc(s) ==
    /\ Receive(s)
    /\ Hear({"nmea", "rmc"})
    /\ Carry({d \in Data : \/ d = "coords" /\ s.active /\ s.coords
                           \/ d = "time" /\ s.time})
    /\ noFixSince' = (~s.active \/ (noFixSince /\ ~s.coords))

AdvanceMillis ==
    /\ \A k \in Kinds : age[k] # MaxSilence
    /\ now' = IF now + 1 = Wrap THEN 0 ELSE now + 1
    /\ age' = [k \in Kinds |-> IF age[k] = Never THEN Never ELSE age[k] + 1]
    /\ dataAge' = [d \in Data |-> IF dataAge[d] = TooOld THEN TooOld ELSE dataAge[d] + 1]
    /\ UNCHANGED <<gps, noFixSince>>

TrackerNext ==
    \/ \E s \in OtherSentence : Other(s)
    \/ \E s \in GgaSentence : Gga(s)
    \/ \E s \in GsaSentence : Gsa(s)
    \/ \E s \in RmcSentence : Rmc(s)
    \/ AdvanceMillis

TrackerSpec == TrackerInit /\ [][TrackerNext]_trackerVars

-----------------------------------------------------------------------------
Stamp(k) == CASE k = "nmea" -> gps.lastNmeaMs
              [] k = "gga" -> gps.lastGgaMs
              [] k = "gsa" -> gps.lastGsaMs
              [] k = "rmc" -> gps.lastRmcMs

State == DiagnosticState(gps, now)

(* A wrapping timestamp tells the true age: a kind of sentence counts as  *)
(* fresh exactly when it was handled within the timeout.  The exception   *)
(* is the code's own: a sentence handled while millis() was 0 is taken    *)
(* for one that never came.                                               *)
FreshnessIsExact ==
    \A k \in Kinds :
        IsRecent(now, Stamp(k)) <=> (age[k] <= Timeout /\ Stamp(k) # 0)

(* Coordinates are reported only while a sentence that carried them is    *)
(* within the timeout, and never after a later sentence of any type said  *)
(* there is no fix, whichever mixture of GGA, GSA and RMC arrives.        *)
PositionIsCurrent ==
    UsablePosition(gps, now) => dataAge["coords"] <= Timeout /\ ~noFixSince

(* The altitude and HDOP shown were carried by a sentence within the      *)
(* timeout, though HDOP is written by two sentence types and the altitude *)
(* is gated by freshness of a third fact, the position.                   *)
MeasurementsAreCurrent ==
    /\ UsableAltitude(gps, now) => dataAge["alt"] <= Timeout
    /\ UsableHdop(gps, now) => dataAge["hdop"] <= Timeout

(* One snapshot tells one story: the LEDs, the state, `valid' and the     *)
(* fix type of a report agree (except in the millisecond in which an      *)
(* accepted sentence was stamped 0 and the state reads NoData).           *)
ReportIsCoherent ==
    LET led == BuildLedPattern(gps, now)
        usable == UsablePosition(gps, now)
    IN  /\ led.data <=> State # "NoData"
        /\ gps.lastNmeaMs # 0 =>
             /\ usable <=> State \notin {"NoData", "NoFix"}
             /\ usable /\ FixTypeToText(gps, now) = "2D" <=> State = "Degraded2D"
             /\ usable <=> led.ok \/ led.warning

(* Only a sentence that says "fix" and carries coordinates makes the      *)
(* position usable: not a GSA with a 3D fix, not an unknown sentence, not *)
(* the passing of time around the wrap of millis().                       *)
PositionOnlyFromCoordinates ==
    [][~UsablePosition(gps, now) /\ UsablePosition(gps, now)' =>
          \/ \E s \in GgaSentence : s.fix /\ s.coords /\ Gga(s)
          \/ \E s \in RmcSentence : s.active /\ s.coords /\ Rmc(s)]_trackerVars

(* Silence never improves the diagnosis, with one exception the code has: *)
(* a 2D verdict expires with the GSA sentence that gave it.               *)
SilenceOnlyDegrades ==
    [][AdvanceMillis => \/ Rank(State') <= Rank(State)
                        \/ State = "Degraded2D" /\ age["gsa"] = Timeout]_trackerVars

-----------------------------------------------------------------------------
(* README.md, docs/firmware.md and the enum's own comment say REFERENCE_OK *)
(* is a fresh 3D fix.  The code never asks for one.                        *)
ReferenceOkHas3DFix ==
    State = "Ok" => FixTypeToText(gps, now) = "3D"

(* docs/firmware.md: fields are null when the data is unavailable or       *)
(* stale.                                                                  *)
ReportedTimeIsCurrent ==
    ReportedTime(gps, now) => dataAge["time"] <= Timeout
=============================================================================

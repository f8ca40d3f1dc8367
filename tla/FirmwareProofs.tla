--------------------------- MODULE FirmwareProofs ---------------------------
(***************************************************************************)
(* What GpsTracker promises for every clock width, timeout, threshold and  *)
(* set of satellite counts, and what the bench around it promises for      *)
(* every period, transit time and report interval.                         *)
(***************************************************************************)
EXTENDS SimulatedBench, TLAPS

USE ClockAssumption, ParameterAssumption, SilenceAssumption

-----------------------------------------------------------------------------
(* What processNmeaSentence() does to the fields, sentence by sentence. *)

\* The prologue of every sentence: only the counters and the NMEA stamp move.
SamePosition(h, g) ==
    /\ h.hasFix = g.hasFix /\ h.locationValid = g.locationValid
    /\ h.altitudeValid = g.altitudeValid /\ h.hdopValid = g.hdopValid
    /\ h.lastGgaMs = g.lastGgaMs /\ h.lastGsaMs = g.lastGsaMs
    /\ h.lastRmcMs = g.lastRmcMs
    /\ h.satellitesUsed = g.satellitesUsed
    /\ h.fixTypeValid = g.fixTypeValid /\ h.fixType = g.fixType

LEMMA SaturatingIncrementType ==
    ASSUME NEW c \in Counter PROVE SaturatingIncrement(c) \in Counter
BY DEF SaturatingIncrement, Counter

\* Counting and rejecting a sentence leave the position and every stamp alone.
LEMMA CountEffect ==
    ASSUME NEW g \in GpsData
    PROVE  /\ Count(g) \in GpsData /\ SamePosition(Count(g), g)
           /\ Count(g).lastNmeaMs = g.lastNmeaMs
           /\ Reject(g) \in GpsData /\ SamePosition(Reject(g), g)
           /\ Reject(g).lastNmeaMs = g.lastNmeaMs
<1>1. /\ SaturatingIncrement(g.rawSentenceCount) \in Counter
      /\ SaturatingIncrement(g.checksumErrorCount) \in Counter
  BY SaturatingIncrementType DEF GpsData
<1>. QED  BY <1>1 DEF GpsData, Count, Reject, SamePosition

\* Accepting a sentence stamps it as NMEA data and leaves the position alone.
LEMMA AcceptEffect ==
    ASSUME NEW g \in GpsData, NEW t \in Millis
    PROVE  /\ Accept(g, t) \in GpsData /\ SamePosition(Accept(g, t), g)
           /\ Accept(g, t).lastNmeaMs = t
<1>1. SaturatingIncrement(g.acceptedSentenceCount) \in Counter
  BY SaturatingIncrementType DEF GpsData
<1>. QED  BY <1>1 DEF GpsData, Accept, SamePosition

\* A sentence of another kind moves the counters and the NMEA stamp at most.
LEMMA OtherEffect ==
    ASSUME NEW g \in GpsData, NEW s \in OtherSentence, NEW t \in Millis
    PROVE  LET h == ProcessNmeaSentence(g, s, t) IN
           /\ h \in GpsData /\ SamePosition(h, g)
           /\ h.lastNmeaMs = IF s.type = "Unsupported" THEN t ELSE g.lastNmeaMs
<1>1. Count(g) \in GpsData  BY CountEffect
<1>2. CASE s.type = "Corrupt"
  <2>1. ProcessNmeaSentence(g, s, t) = Reject(Count(g))
    BY <1>2 DEF ProcessNmeaSentence
  <2>. QED  BY <1>1, <1>2, <2>1, CountEffect DEF SamePosition
<1>3. CASE s.type = "Blank"
  <2>1. ProcessNmeaSentence(g, s, t) = Count(g)
    BY <1>3 DEF ProcessNmeaSentence
  <2>. QED  BY <1>3, <2>1, CountEffect
<1>4. CASE s.type = "Unsupported"
  <2>1. ProcessNmeaSentence(g, s, t) = Accept(Count(g), t)
    BY <1>4 DEF ProcessNmeaSentence
  <2>. QED  BY <1>1, <1>4, <2>1, CountEffect, AcceptEffect DEF SamePosition
<1>. QED  BY <1>2, <1>3, <1>4 DEF OtherSentence

\* A GGA sentence rewrites the fix, the location and the measurements it carries.
LEMMA GgaEffect ==
    ASSUME NEW g \in GpsData, NEW s \in GgaSentence, NEW t \in Millis
    PROVE  LET h == ProcessNmeaSentence(g, s, t) IN
           /\ h \in GpsData
           /\ h.lastNmeaMs = t /\ h.lastGgaMs = t
           /\ h.lastGsaMs = g.lastGsaMs /\ h.lastRmcMs = g.lastRmcMs
           /\ h.hasFix = s.fix /\ h.locationValid = (s.fix /\ s.coords)
           /\ h.altitudeValid = s.alt /\ h.hdopValid = s.hdop
           /\ h.satellitesUsed = s.sats
           /\ h.fixTypeValid = g.fixTypeValid /\ h.fixType = g.fixType
<1>. DEFINE a == Accept(Count(g), t)
<1>1. /\ a \in GpsData /\ SamePosition(a, g) /\ a.lastNmeaMs = t
  BY CountEffect, AcceptEffect DEF SamePosition
<1>2. ProcessNmeaSentence(g, s, t) = ParseGga(a, s, t)
  BY DEF ProcessNmeaSentence, GgaSentence
<1>. HIDE DEF a
<1>3. ParseGga(a, s, t) \in GpsData
  <2>. DEFINE loc == s.fix /\ s.coords  time == a.timeValid \/ s.time
  <2>1. /\ s.fix \in BOOLEAN /\ s.alt \in BOOLEAN /\ s.hdop \in BOOLEAN
        /\ s.sats \in SatelliteCounts /\ loc \in BOOLEAN /\ time \in BOOLEAN
    BY DEF GgaSentence
  <2>2. ParseGga(a, s, t) =
          [a EXCEPT !.lastGgaMs = t, !.timeValid = time, !.hasFix = s.fix,
                    !.satellitesUsed = s.sats, !.hdopValid = s.hdop,
                    !.altitudeValid = s.alt, !.locationValid = loc]
    BY DEF ParseGga
  <2>. HIDE DEF loc, time
  <2>. QED  BY <1>1, <2>1, <2>2 DEF GpsData
<1>4. LET h == ParseGga(a, s, t) IN
      /\ h.lastNmeaMs = a.lastNmeaMs /\ h.lastGgaMs = t
      /\ h.lastGsaMs = a.lastGsaMs /\ h.lastRmcMs = a.lastRmcMs
  BY <1>1 DEF GpsData, ParseGga
<1>5. LET h == ParseGga(a, s, t) IN
      /\ h.hasFix = s.fix /\ h.locationValid = (s.fix /\ s.coords)
      /\ h.altitudeValid = s.alt /\ h.hdopValid = s.hdop
  BY <1>1 DEF GpsData, ParseGga
<1>6. LET h == ParseGga(a, s, t) IN
      /\ h.satellitesUsed = s.sats
      /\ h.fixTypeValid = a.fixTypeValid /\ h.fixType = a.fixType
  BY <1>1 DEF GpsData, ParseGga
<1>. QED  BY <1>1, <1>2, <1>3, <1>4, <1>5, <1>6 DEF SamePosition

\* A GSA sentence withdraws the location when it says no fix and never grants it.
LEMMA GsaEffect ==
    ASSUME NEW g \in GpsData, NEW s \in GsaSentence, NEW t \in Millis
    PROVE  LET h == ProcessNmeaSentence(g, s, t) IN
           /\ h \in GpsData
           /\ h.lastNmeaMs = t /\ h.lastGsaMs = t
           /\ h.lastGgaMs = g.lastGgaMs /\ h.lastRmcMs = g.lastRmcMs
           /\ s.fixType \in {2, 3} =>
                h.hasFix = TRUE /\ h.locationValid = g.locationValid /\ h.fixType = s.fixType
           /\ s.fixType \notin {2, 3} =>
                h.hasFix = FALSE /\ h.locationValid = FALSE /\ h.fixType = 0
           /\ h.altitudeValid = g.altitudeValid /\ h.hdopValid = s.hdop
           /\ h.satellitesUsed = g.satellitesUsed
           /\ s.fixType >= 1 => h.fixTypeValid
<1>. DEFINE a == Accept(Count(g), t)
<1>1. /\ a \in GpsData /\ SamePosition(a, g) /\ a.lastNmeaMs = t
  BY CountEffect, AcceptEffect DEF SamePosition
<1>2. ProcessNmeaSentence(g, s, t) = ParseGsa(a, s, t)
  BY DEF ProcessNmeaSentence, GsaSentence
<1>. HIDE DEF a
<1>3. /\ s.fixType \in 0 .. 3 /\ s.hdop \in BOOLEAN  BY DEF GsaSentence
<1>. DEFINE valid == s.fixType >= 1
            heard == [a EXCEPT !.lastGsaMs = t, !.fixTypeValid = valid, !.hdopValid = s.hdop]
<1>4. valid \in BOOLEAN  OBVIOUS
<1>5. ParseGsa(a, s, t) =
        IF s.fixType \in {2, 3}
        THEN [heard EXCEPT !.fixType = s.fixType, !.hasFix = TRUE]
        ELSE [heard EXCEPT !.fixType = 0, !.hasFix = FALSE, !.locationValid = FALSE]
  BY <1>1 DEF ParseGsa, MarkPositionInvalid, GpsData
<1>. HIDE DEF valid
<1>6. CASE s.fixType \in {2, 3}
  <2>. DEFINE h == [heard EXCEPT !.fixType = s.fixType, !.hasFix = TRUE]
  <2>1. ProcessNmeaSentence(g, s, t) = h  BY <1>2, <1>5, <1>6
  <2>2. h \in GpsData  BY <1>1, <1>3, <1>4, <1>6 DEF GpsData
  <2>3. /\ h.lastNmeaMs = a.lastNmeaMs /\ h.lastGsaMs = t
        /\ h.lastGgaMs = a.lastGgaMs /\ h.lastRmcMs = a.lastRmcMs
    BY <1>1 DEF GpsData
  <2>4. /\ h.hasFix = TRUE /\ h.locationValid = a.locationValid
        /\ h.altitudeValid = a.altitudeValid /\ h.hdopValid = s.hdop
    BY <1>1 DEF GpsData
  <2>5. /\ h.satellitesUsed = a.satellitesUsed
        /\ h.fixTypeValid = valid /\ h.fixType = s.fixType
    BY <1>1 DEF GpsData
  <2>. HIDE DEF h
  <2>. QED  BY <1>1, <1>6, <2>1, <2>2, <2>3, <2>4, <2>5 DEF SamePosition, valid
<1>7. CASE s.fixType \notin {2, 3}
  <2>. DEFINE h == [heard EXCEPT !.fixType = 0, !.hasFix = FALSE, !.locationValid = FALSE]
  <2>1. ProcessNmeaSentence(g, s, t) = h  BY <1>2, <1>5, <1>7
  <2>2. h \in GpsData
    <3>1. s.hdop \in BOOLEAN  BY <1>3
    <3>2. heard \in GpsData  BY <1>1, <1>4, <3>1 DEF GpsData
    <3>. HIDE DEF heard
    <3>. QED  BY <3>2 DEF GpsData
  <2>3. /\ h.lastNmeaMs = a.lastNmeaMs /\ h.lastGsaMs = t
        /\ h.lastGgaMs = a.lastGgaMs /\ h.lastRmcMs = a.lastRmcMs
    BY <1>1 DEF GpsData
  <2>4. /\ h.hasFix = FALSE /\ h.locationValid = FALSE
        /\ h.altitudeValid = a.altitudeValid /\ h.hdopValid = s.hdop
    BY <1>1 DEF GpsData
  <2>5. /\ h.satellitesUsed = a.satellitesUsed
        /\ h.fixTypeValid = valid /\ h.fixType = 0
    BY <1>1 DEF GpsData
  <2>. HIDE DEF h
  <2>. QED  BY <1>1, <1>7, <2>1, <2>2, <2>3, <2>4, <2>5 DEF SamePosition, valid
<1>. QED  BY <1>6, <1>7

\* An RMC sentence rewrites the fix and the location and nothing GGA or GSA measure.
LEMMA RmcEffect ==
    ASSUME NEW g \in GpsData, NEW s \in RmcSentence, NEW t \in Millis
    PROVE  LET h == ProcessNmeaSentence(g, s, t) IN
           /\ h \in GpsData
           /\ h.lastNmeaMs = t /\ h.lastRmcMs = t
           /\ h.lastGgaMs = g.lastGgaMs /\ h.lastGsaMs = g.lastGsaMs
           /\ h.hasFix = s.active /\ h.locationValid = (s.active /\ s.coords)
           /\ h.altitudeValid = g.altitudeValid /\ h.hdopValid = g.hdopValid
           /\ h.satellitesUsed = g.satellitesUsed
           /\ h.fixTypeValid = g.fixTypeValid /\ h.fixType = g.fixType
<1>. DEFINE a == Accept(Count(g), t)
<1>1. /\ a \in GpsData /\ SamePosition(a, g) /\ a.lastNmeaMs = t
  BY CountEffect, AcceptEffect DEF SamePosition
<1>2. ProcessNmeaSentence(g, s, t) = ParseRmc(a, s, t)
  BY DEF ProcessNmeaSentence, RmcSentence
<1>. HIDE DEF a
<1>3. s.active \in BOOLEAN /\ s.coords \in BOOLEAN  BY DEF RmcSentence
<1>. DEFINE time == a.timeValid \/ s.time
            heard == [a EXCEPT !.lastRmcMs = t, !.timeValid = time]
<1>4. time \in BOOLEAN  OBVIOUS
<1>5. ParseRmc(a, s, t) =
        IF s.active
        THEN [heard EXCEPT !.hasFix = TRUE, !.locationValid = s.coords]
        ELSE [heard EXCEPT !.hasFix = FALSE, !.locationValid = FALSE]
  BY <1>1 DEF ParseRmc, MarkPositionInvalid, GpsData
<1>. HIDE DEF time
<1>6. CASE s.active
  <2>. DEFINE h == [heard EXCEPT !.hasFix = TRUE, !.locationValid = s.coords]
  <2>1. ProcessNmeaSentence(g, s, t) = h  BY <1>2, <1>5, <1>6
  <2>2. h \in GpsData  BY <1>1, <1>3, <1>4 DEF GpsData
  <2>3. /\ h.lastNmeaMs = a.lastNmeaMs /\ h.lastRmcMs = t
        /\ h.lastGgaMs = a.lastGgaMs /\ h.lastGsaMs = a.lastGsaMs
    BY <1>1 DEF GpsData
  <2>4. /\ h.hasFix = TRUE /\ h.locationValid = s.coords
        /\ h.altitudeValid = a.altitudeValid /\ h.hdopValid = a.hdopValid
    BY <1>1 DEF GpsData
  <2>5. /\ h.satellitesUsed = a.satellitesUsed
        /\ h.fixTypeValid = a.fixTypeValid /\ h.fixType = a.fixType
    BY <1>1 DEF GpsData
  <2>. HIDE DEF h
  <2>. QED  BY <1>1, <1>3, <1>6, <2>1, <2>2, <2>3, <2>4, <2>5 DEF SamePosition
<1>7. CASE ~s.active
  <2>. DEFINE h == [heard EXCEPT !.hasFix = FALSE, !.locationValid = FALSE]
  <2>1. ProcessNmeaSentence(g, s, t) = h  BY <1>2, <1>5, <1>7
  <2>2. h \in GpsData  BY <1>1, <1>3, <1>4 DEF GpsData
  <2>3. /\ h.lastNmeaMs = a.lastNmeaMs /\ h.lastRmcMs = t
        /\ h.lastGgaMs = a.lastGgaMs /\ h.lastGsaMs = a.lastGsaMs
    BY <1>1 DEF GpsData
  <2>4. /\ h.hasFix = FALSE /\ h.locationValid = FALSE
        /\ h.altitudeValid = a.altitudeValid /\ h.hdopValid = a.hdopValid
    BY <1>1 DEF GpsData
  <2>5. /\ h.satellitesUsed = a.satellitesUsed
        /\ h.fixTypeValid = a.fixTypeValid /\ h.fixType = a.fixType
    BY <1>1 DEF GpsData
  <2>. HIDE DEF h
  <2>. QED  BY <1>1, <1>3, <1>7, <2>1, <2>2, <2>3, <2>4, <2>5 DEF SamePosition
<1>. QED  BY <1>3, <1>6, <1>7

\* A sentence with a valid checksum and an ID leaves NMEA data valid, and no
\* sentence withdraws it.
LEMMA ValidityEffect ==
    ASSUME NEW g \in GpsData, NEW t \in Millis,
           NEW s \in OtherSentence \cup GgaSentence \cup GsaSentence \cup RmcSentence,
           g.nmeaValid \/ s.type \notin {"Corrupt", "Blank"}
    PROVE  ProcessNmeaSentence(g, s, t).nmeaValid
<1>. DEFINE a == Accept(Count(g), t)
<1>1. Count(g) \in GpsData  BY CountEffect
<1>2. Count(g).nmeaValid = g.nmeaValid /\ Reject(Count(g)).nmeaValid = Count(g).nmeaValid
  BY <1>1 DEF Count, Reject, GpsData
<1>3. a \in GpsData  BY <1>1, AcceptEffect
<1>4. a.nmeaValid  BY <1>1 DEF Accept, GpsData
<1>. HIDE DEF a
<1>5. ParseGga(a, s, t).nmeaValid  BY <1>3, <1>4 DEF ParseGga, GpsData
<1>6. ParseGsa(a, s, t).nmeaValid
  BY <1>3, <1>4 DEF ParseGsa, MarkPositionInvalid, GpsData
<1>7. ParseRmc(a, s, t).nmeaValid
  BY <1>3, <1>4 DEF ParseRmc, MarkPositionInvalid, GpsData
<1>8. s.type \in {"Corrupt", "Blank", "Unsupported", "GGA", "GSA", "RMC"}
  BY DEF OtherSentence, GgaSentence, GsaSentence, RmcSentence
<1>. QED  BY <1>2, <1>4, <1>5, <1>6, <1>7, <1>8 DEF ProcessNmeaSentence, a

-----------------------------------------------------------------------------
(* The inductive invariant. *)

\* A timestamp and the true age of what it stamps determine each other.
StampsTellAges ==
    \A k \in Kinds : IF age[k] = Never THEN Stamp(k) = 0
                                      ELSE ElapsedMs(now, Stamp(k)) = age[k]

\* A valid flag vouches for data as young as the last sentence that could
\* have replaced it, and the location flag for an unrevoked fix as well.
FlagsVouch ==
    /\ gps.locationValid =>
         /\ gps.hasFix /\ ~noFixSince
         /\ dataAge["coords"] <= age["gga"] /\ dataAge["coords"] <= age["rmc"]
    /\ gps.altitudeValid => dataAge["alt"] <= age["gga"]
    /\ gps.hdopValid => dataAge["hdop"] <= age["gga"] /\ dataAge["hdop"] <= age["gsa"]

\* No kind of sentence is younger than NMEA data as a whole, and data with a
\* stamp counts as valid.
NmeaIsYoungest ==
    /\ \A k \in Kinds : age["nmea"] <= age[k]
    /\ gps.lastNmeaMs # 0 => gps.nmeaValid

TrackerIInv == TrackerTypeOK /\ StampsTellAges /\ FlagsVouch /\ NmeaIsYoungest

LEMMA TrackerStarts == TrackerInit => TrackerIInv
<1>. SUFFICES ASSUME TrackerInit PROVE TrackerIInv  OBVIOUS
<1>1. InitialGpsData \in GpsData
  BY DEF InitialGpsData, GpsData, Millis, Counter
<1>2. TrackerTypeOK
  <2>1. gps \in GpsData /\ noFixSince \in BOOLEAN  BY <1>1 DEF TrackerInit
  <2>4. now \in Millis  BY DEF TrackerInit, Millis
  <2>2. age \in [Kinds -> 0 .. Never]  BY DEF TrackerInit, Never
  <2>3. dataAge \in [Data -> 0 .. TooOld]  BY DEF TrackerInit, TooOld
  <2>. QED  BY <2>1, <2>2, <2>3, <2>4 DEF TrackerTypeOK
<1>3. StampsTellAges
  BY DEF TrackerInit, StampsTellAges, Stamp, InitialGpsData, Kinds, Never
<1>4. FlagsVouch
  BY DEF TrackerInit, FlagsVouch, InitialGpsData
<1>5. NmeaIsYoungest
  BY DEF TrackerInit, NmeaIsYoungest, InitialGpsData, Kinds, Never
<1>. QED  BY <1>2, <1>3, <1>4, <1>5 DEF TrackerIInv

LEMMA OtherIInv ==
    ASSUME TrackerIInv, NEW s \in OtherSentence, Other(s)
    PROVE  TrackerIInv'
<1>. USE DEF TrackerIInv
<1>1. /\ gps \in GpsData /\ now \in Millis
      /\ gps' = ProcessNmeaSentence(gps, s, now) /\ now' = now
  BY DEF TrackerTypeOK, Other, Receive
<1>2. /\ gps' \in GpsData /\ SamePosition(gps', gps)
      /\ gps'.lastNmeaMs = IF s.type = "Unsupported" THEN now ELSE gps.lastNmeaMs
  BY <1>1, OtherEffect
<1>3. TrackerTypeOK'
  BY <1>1, <1>2 DEF TrackerTypeOK, Other, Hear, Kinds, Never
<1>4. StampsTellAges'
  BY <1>1, <1>2 DEF StampsTellAges, Stamp, Other, Hear, Kinds, Never, SamePosition,
                    ElapsedMs, TrackerTypeOK, Millis
<1>5. FlagsVouch'
  BY <1>1, <1>2 DEF FlagsVouch, Other, Hear, Kinds, SamePosition
<1>6. NmeaIsYoungest'
  <2>1. gps.nmeaValid \/ s.type \notin {"Corrupt", "Blank"} => gps'.nmeaValid
    BY <1>1, ValidityEffect
  <2>. QED  BY <1>1, <1>2, <2>1
    DEF NmeaIsYoungest, TrackerTypeOK, Other, Hear, Kinds, Never, OtherSentence
<1>. QED  BY <1>3, <1>4, <1>5, <1>6

LEMMA GgaIInv ==
    ASSUME TrackerIInv, NEW s \in GgaSentence, Gga(s)
    PROVE  TrackerIInv'
<1>. USE DEF TrackerIInv
<1>1. /\ gps \in GpsData /\ now \in Millis
      /\ gps' = ProcessNmeaSentence(gps, s, now) /\ now' = now
  BY DEF TrackerTypeOK, Gga, Receive
<1>2. /\ gps' \in GpsData
      /\ gps'.lastNmeaMs = now /\ gps'.lastGgaMs = now
      /\ gps'.lastGsaMs = gps.lastGsaMs /\ gps'.lastRmcMs = gps.lastRmcMs
      /\ gps'.hasFix = s.fix /\ gps'.locationValid = (s.fix /\ s.coords)
      /\ gps'.altitudeValid = s.alt /\ gps'.hdopValid = s.hdop
  BY <1>1, GgaEffect
<1>3. TrackerTypeOK'
  <2>1. noFixSince' \in BOOLEAN  BY DEF Gga
  <2>. QED  BY <1>1, <1>2, <2>1 DEF TrackerTypeOK, Gga, Hear, Carry, Kinds, Data, Never, TooOld
<1>4. StampsTellAges'
  BY <1>1, <1>2 DEF StampsTellAges, Stamp, Gga, Hear, Kinds, Never,
                    ElapsedMs, TrackerTypeOK, Millis
<1>5. FlagsVouch'
  <2>1. /\ dataAge["coords"] \in 0 .. TooOld /\ dataAge["alt"] \in 0 .. TooOld
        /\ dataAge["hdop"] \in 0 .. TooOld
        /\ age["gga"] \in 0 .. Never /\ age["gsa"] \in 0 .. Never
        /\ age["rmc"] \in 0 .. Never
    BY DEF TrackerTypeOK, Kinds, Data
  <2>2. /\ age'["gga"] = 0 /\ age'["gsa"] = age["gsa"] /\ age'["rmc"] = age["rmc"]
    BY DEF Gga, Hear, Kinds
  <2>3. /\ s.fix /\ s.coords => dataAge'["coords"] = 0
        /\ s.alt => dataAge'["alt"] = 0
        /\ s.hdop => dataAge'["hdop"] = 0
    BY DEF Gga, Carry, Data
  <2>4. s.fix /\ s.coords => ~noFixSince'
    BY DEF Gga
  <2>5. /\ gps'.locationValid => s.fix /\ s.coords /\ gps'.hasFix
        /\ gps'.altitudeValid => s.alt
        /\ gps'.hdopValid => s.hdop
    BY <1>2
  <2>. QED  BY <2>1, <2>2, <2>3, <2>4, <2>5 DEF FlagsVouch, Never, TooOld
<1>6. NmeaIsYoungest'
  <2>1. gps.nmeaValid \/ s.type \notin {"Corrupt", "Blank"} => gps'.nmeaValid
    BY <1>1, ValidityEffect
  <2>. QED  BY <1>1, <1>2, <2>1
    DEF NmeaIsYoungest, TrackerTypeOK, Gga, Hear, Kinds, Never, GgaSentence
<1>. QED  BY <1>3, <1>4, <1>5, <1>6

LEMMA GsaIInv ==
    ASSUME TrackerIInv, NEW s \in GsaSentence, Gsa(s)
    PROVE  TrackerIInv'
<1>. USE DEF TrackerIInv
<1>1. /\ gps \in GpsData /\ now \in Millis
      /\ gps' = ProcessNmeaSentence(gps, s, now) /\ now' = now
  BY DEF TrackerTypeOK, Gsa, Receive
<1>2. /\ gps' \in GpsData
      /\ gps'.lastNmeaMs = now /\ gps'.lastGsaMs = now
      /\ gps'.lastGgaMs = gps.lastGgaMs /\ gps'.lastRmcMs = gps.lastRmcMs
      /\ s.fixType \in {2, 3} =>
           gps'.hasFix = TRUE /\ gps'.locationValid = gps.locationValid
      /\ s.fixType \notin {2, 3} =>
           gps'.hasFix = FALSE /\ gps'.locationValid = FALSE
      /\ gps'.altitudeValid = gps.altitudeValid /\ gps'.hdopValid = s.hdop
  BY <1>1, GsaEffect
<1>3. TrackerTypeOK'
  <2>1. noFixSince' \in BOOLEAN  BY DEF Gsa
  <2>. QED  BY <1>1, <1>2, <2>1 DEF TrackerTypeOK, Gsa, Hear, Carry, Kinds, Data, Never, TooOld
<1>4. StampsTellAges'
  BY <1>1, <1>2 DEF StampsTellAges, Stamp, Gsa, Hear, Kinds, Never,
                    ElapsedMs, TrackerTypeOK, Millis
<1>5. FlagsVouch'
  BY <1>1, <1>2 DEF FlagsVouch, Gsa, Hear, Carry, Kinds, Data, TrackerTypeOK, Never, TooOld
<1>6. NmeaIsYoungest'
  <2>1. gps.nmeaValid \/ s.type \notin {"Corrupt", "Blank"} => gps'.nmeaValid
    BY <1>1, ValidityEffect
  <2>. QED  BY <1>1, <1>2, <2>1
    DEF NmeaIsYoungest, TrackerTypeOK, Gsa, Hear, Kinds, Never, GsaSentence
<1>. QED  BY <1>3, <1>4, <1>5, <1>6

LEMMA RmcIInv ==
    ASSUME TrackerIInv, NEW s \in RmcSentence, Rmc(s)
    PROVE  TrackerIInv'
<1>. USE DEF TrackerIInv
<1>1. /\ gps \in GpsData /\ now \in Millis
      /\ gps' = ProcessNmeaSentence(gps, s, now) /\ now' = now
  BY DEF TrackerTypeOK, Rmc, Receive
<1>2. /\ gps' \in GpsData
      /\ gps'.lastNmeaMs = now /\ gps'.lastRmcMs = now
      /\ gps'.lastGgaMs = gps.lastGgaMs /\ gps'.lastGsaMs = gps.lastGsaMs
      /\ gps'.hasFix = s.active /\ gps'.locationValid = (s.active /\ s.coords)
      /\ gps'.altitudeValid = gps.altitudeValid /\ gps'.hdopValid = gps.hdopValid
  BY <1>1, RmcEffect
<1>3. TrackerTypeOK'
  <2>1. noFixSince' \in BOOLEAN  BY DEF Rmc
  <2>. QED  BY <1>1, <1>2, <2>1 DEF TrackerTypeOK, Rmc, Hear, Carry, Kinds, Data, Never, TooOld
<1>4. StampsTellAges'
  BY <1>1, <1>2 DEF StampsTellAges, Stamp, Rmc, Hear, Kinds, Never,
                    ElapsedMs, TrackerTypeOK, Millis
<1>5. FlagsVouch'
  <2>1. /\ dataAge["coords"] \in 0 .. TooOld /\ dataAge["alt"] \in 0 .. TooOld
        /\ dataAge["hdop"] \in 0 .. TooOld
        /\ age["gga"] \in 0 .. Never /\ age["gsa"] \in 0 .. Never
        /\ age["rmc"] \in 0 .. Never
    BY DEF TrackerTypeOK, Kinds, Data
  <2>2. /\ age'["rmc"] = 0 /\ age'["gsa"] = age["gsa"] /\ age'["gga"] = age["gga"]
    BY DEF Rmc, Hear, Kinds
  <2>3. /\ s.active /\ s.coords => dataAge'["coords"] = 0
        /\ dataAge'["alt"] = dataAge["alt"] /\ dataAge'["hdop"] = dataAge["hdop"]
    BY DEF Rmc, Carry, Data
  <2>4. s.active /\ s.coords => ~noFixSince'
    BY DEF Rmc
  <2>5. /\ gps'.locationValid => s.active /\ s.coords /\ gps'.hasFix
        /\ gps'.altitudeValid => gps.altitudeValid
        /\ gps'.hdopValid => gps.hdopValid
    BY <1>2
  <2>. QED  BY <2>1, <2>2, <2>3, <2>4, <2>5 DEF FlagsVouch, Never, TooOld
<1>6. NmeaIsYoungest'
  <2>1. gps.nmeaValid \/ s.type \notin {"Corrupt", "Blank"} => gps'.nmeaValid
    BY <1>1, ValidityEffect
  <2>. QED  BY <1>1, <1>2, <2>1
    DEF NmeaIsYoungest, TrackerTypeOK, Rmc, Hear, Kinds, Never, RmcSentence
<1>. QED  BY <1>3, <1>4, <1>5, <1>6

LEMMA AdvanceIInv ==
    ASSUME TrackerIInv, AdvanceMillis
    PROVE  TrackerIInv'
<1>. USE DEF TrackerIInv
<1>1. TrackerTypeOK'
  BY DEF TrackerTypeOK, AdvanceMillis, Millis, Never, TooOld
<1>2. StampsTellAges'
  <2>. SUFFICES ASSUME NEW k \in Kinds
                PROVE  IF age'[k] = Never THEN Stamp(k) = 0
                                          ELSE ElapsedMs(now', Stamp(k)) = age'[k]
    BY DEF StampsTellAges, Stamp, AdvanceMillis, Never
  <2>1. Stamp(k) \in Millis  BY DEF Kinds, Stamp, TrackerTypeOK, GpsData
  <2>2. /\ age[k] \in 0 .. Never /\ age[k] # MaxSilence
        /\ age'[k] = IF age[k] = Never THEN Never ELSE age[k] + 1
        /\ now \in Millis /\ now' = IF now + 1 = Wrap THEN 0 ELSE now + 1
    BY DEF TrackerTypeOK, AdvanceMillis
  <2>3. IF age[k] = Never THEN Stamp(k) = 0 ELSE ElapsedMs(now, Stamp(k)) = age[k]
    BY DEF StampsTellAges
  <2>. QED  BY <2>1, <2>2, <2>3 DEF ElapsedMs, Millis, Never
<1>3. FlagsVouch'
  BY DEF FlagsVouch, AdvanceMillis, Kinds, Data, TrackerTypeOK, Never, TooOld
<1>4. NmeaIsYoungest'
  BY DEF NmeaIsYoungest, AdvanceMillis, Kinds, TrackerTypeOK, Never
<1>. QED  BY <1>1, <1>2, <1>3, <1>4

LEMMA TrackerSteps == TrackerIInv /\ [TrackerNext]_trackerVars => TrackerIInv'
<1>. SUFFICES ASSUME TrackerIInv, [TrackerNext]_trackerVars PROVE TrackerIInv'  OBVIOUS
<1>1. CASE \E s \in OtherSentence : Other(s)  BY <1>1, OtherIInv
<1>2. CASE \E s \in GgaSentence : Gga(s)  BY <1>2, GgaIInv
<1>3. CASE \E s \in GsaSentence : Gsa(s)  BY <1>3, GsaIInv
<1>4. CASE \E s \in RmcSentence : Rmc(s)  BY <1>4, RmcIInv
<1>5. CASE AdvanceMillis  BY <1>5, AdvanceIInv
<1>6. CASE UNCHANGED trackerVars
  <2>1. TrackerTypeOK'  BY <1>6 DEF TrackerIInv, TrackerTypeOK, trackerVars
  <2>2. StampsTellAges'  BY <1>6 DEF TrackerIInv, StampsTellAges, Stamp, trackerVars
  <2>3. FlagsVouch'  BY <1>6 DEF TrackerIInv, FlagsVouch, trackerVars
  <2>4. NmeaIsYoungest'  BY <1>6 DEF TrackerIInv, NmeaIsYoungest, trackerVars
  <2>. QED  BY <2>1, <2>2, <2>3, <2>4 DEF TrackerIInv
<1>. QED  BY <1>1, <1>2, <1>3, <1>4, <1>5, <1>6 DEF TrackerNext

LEMMA TrackerAlways == TrackerSpec => []TrackerIInv
<1>. QED  BY TrackerStarts, TrackerSteps, PTL DEF TrackerSpec

-----------------------------------------------------------------------------
(* The theorems. *)

(* Every variable keeps its type: stamps stay within the clock, counters  *)
(* below their saturation, history ages within their caps.                *)
THEOREM TrackerTypeCorrect == TrackerSpec => []TrackerTypeOK
<1>1. TrackerIInv => TrackerTypeOK  BY DEF TrackerIInv
<1>. QED  BY <1>1, TrackerAlways, PTL

LEMMA IInvFreshness == TrackerIInv => FreshnessIsExact
<1>. SUFFICES ASSUME TrackerIInv, NEW k \in Kinds
              PROVE  IsRecent(now, Stamp(k)) <=> (age[k] <= Timeout /\ Stamp(k) # 0)
  BY DEF FreshnessIsExact
<1>1. age[k] \in 0 .. Never  BY DEF TrackerIInv, TrackerTypeOK
<1>2. IF age[k] = Never THEN Stamp(k) = 0 ELSE ElapsedMs(now, Stamp(k)) = age[k]
  BY DEF TrackerIInv, StampsTellAges
<1>. QED  BY <1>1, <1>2 DEF IsRecent, Never

(* isRecent() on a wrapping millis() decides exactly "handled within the  *)
(* timeout", whatever the width of the clock, except for the stamp 0.     *)
THEOREM FreshnessExact == TrackerSpec => []FreshnessIsExact
<1>. QED  BY IInvFreshness, TrackerAlways, PTL

\* A fresh sentence of a kind was handled within the timeout.
LEMMA FreshIsYoung ==
    ASSUME TrackerIInv
    PROVE  /\ IsRecent(now, gps.lastNmeaMs) => age["nmea"] <= Timeout
           /\ IsRecent(now, gps.lastGgaMs) => age["gga"] <= Timeout
           /\ IsRecent(now, gps.lastGsaMs) => age["gsa"] <= Timeout
           /\ IsRecent(now, gps.lastRmcMs) => age["rmc"] <= Timeout
BY IInvFreshness DEF FreshnessIsExact, Kinds, Stamp

(* A reported position was carried by a sentence within the timeout and   *)
(* no later sentence has said there is no fix.                            *)
THEOREM PositionCurrent == TrackerSpec => []PositionIsCurrent
<1>1. ASSUME TrackerIInv PROVE PositionIsCurrent
  <2>. SUFFICES ASSUME UsablePosition(gps, now)
                PROVE  dataAge["coords"] <= Timeout /\ ~noFixSince
    BY DEF PositionIsCurrent
  <2>1. /\ gps.locationValid
        /\ IsRecent(now, gps.lastGgaMs) \/ IsRecent(now, gps.lastRmcMs)
    BY DEF UsablePosition, FreshPositionSource
  <2>2. /\ dataAge["coords"] <= age["gga"] /\ dataAge["coords"] <= age["rmc"]
        /\ ~noFixSince
    BY <1>1, <2>1 DEF TrackerIInv, FlagsVouch
  <2>3. age["gga"] <= Timeout \/ age["rmc"] <= Timeout
    BY <1>1, <2>1, FreshIsYoung
  <2>4. /\ dataAge["coords"] \in 0 .. TooOld
        /\ age["gga"] \in 0 .. Never /\ age["rmc"] \in 0 .. Never
    BY <1>1 DEF TrackerIInv, TrackerTypeOK, Data, Kinds
  <2>. QED  BY <2>2, <2>3, <2>4 DEF TooOld, Never
<1>. QED  BY <1>1, TrackerAlways, PTL

(* The altitude and HDOP shown were carried by a sentence within the      *)
(* timeout.                                                               *)
THEOREM MeasurementsCurrent == TrackerSpec => []MeasurementsAreCurrent
<1>1. ASSUME TrackerIInv PROVE MeasurementsAreCurrent
  <2>. /\ dataAge["alt"] \in 0 .. TooOld /\ dataAge["hdop"] \in 0 .. TooOld
       /\ age["gga"] \in 0 .. Never /\ age["gsa"] \in 0 .. Never
    BY <1>1 DEF TrackerIInv, TrackerTypeOK, Data, Kinds
  <2>1. UsableAltitude(gps, now) => dataAge["alt"] <= Timeout
    BY <1>1, FreshIsYoung DEF UsableAltitude, TrackerIInv, FlagsVouch, TooOld, Never
  <2>2. UsableHdop(gps, now) => dataAge["hdop"] <= Timeout
    BY <1>1, FreshIsYoung DEF UsableHdop, TrackerIInv, FlagsVouch, TooOld, Never
  <2>. QED  BY <2>1, <2>2 DEF MeasurementsAreCurrent
<1>. QED  BY <1>1, TrackerAlways, PTL

\* In the invariant's states a fresh position source is all a valid location needs.
LEMMA UsableSimplified ==
    ASSUME TrackerIInv
    PROVE  UsablePosition(gps, now) <=>
              FreshPositionSource(gps, now) /\ gps.locationValid
BY DEF UsablePosition, CurrentFix, FreshFixSource, TrackerIInv, FlagsVouch

\* The clock alone makes nothing fresh that was not.
LEMMA TimeFreshensNothing ==
    ASSUME TrackerIInv, TrackerIInv', AdvanceMillis
    PROVE  /\ gps' = gps
           /\ \A k \in Kinds : IsRecent(now', Stamp(k)') => IsRecent(now, Stamp(k))
<1>1. gps' = gps  BY DEF AdvanceMillis
<1>2. ASSUME NEW k \in Kinds, IsRecent(now', Stamp(k)')
      PROVE  IsRecent(now, Stamp(k))
  <2>1. Stamp(k)' = Stamp(k)  BY <1>1 DEF Stamp
  <2>2. age'[k] <= Timeout /\ Stamp(k)' # 0
    <3>1. TrackerIInv' => FreshnessIsExact'  BY IInvFreshness, PTL
    <3>. QED  BY <1>2, <3>1 DEF FreshnessIsExact
  <2>3. age[k] \in 0 .. Never /\ age'[k] = IF age[k] = Never THEN Never ELSE age[k] + 1
    BY DEF AdvanceMillis, TrackerIInv, TrackerTypeOK
  <2>4. age[k] <= Timeout  BY <2>2, <2>3 DEF Never
  <2>. QED  BY <2>1, <2>2, <2>4, IInvFreshness DEF FreshnessIsExact
<1>. QED  BY <1>1, <1>2

(* Only a GGA with a fix and coordinates, or an active RMC with           *)
(* coordinates, makes the position usable.                                *)
THEOREM PositionGranted == TrackerSpec => PositionOnlyFromCoordinates
<1>. DEFINE Granted ==
       ~UsablePosition(gps, now) /\ UsablePosition(gps, now)' =>
          \/ \E s \in GgaSentence : s.fix /\ s.coords /\ Gga(s)
          \/ \E s \in RmcSentence : s.active /\ s.coords /\ Rmc(s)
<1>1. ASSUME TrackerIInv, TrackerIInv', [TrackerNext]_trackerVars PROVE [Granted]_trackerVars
  <2>. SUFFICES ASSUME TrackerNext, ~UsablePosition(gps, now), UsablePosition(gps, now)'
                PROVE  \/ \E s \in GgaSentence : s.fix /\ s.coords /\ Gga(s)
                       \/ \E s \in RmcSentence : s.active /\ s.coords /\ Rmc(s)
    BY <1>1
  <2>1. /\ gps \in GpsData /\ now \in Millis
        /\ gps'.locationValid /\ FreshPositionSource(gps', now')
        /\ ~(gps.locationValid /\ FreshPositionSource(gps, now))
    BY <1>1, UsableSimplified DEF UsablePosition, TrackerIInv, TrackerTypeOK
  <2>2. CASE \E s \in OtherSentence : Other(s)
    <3>. PICK s \in OtherSentence : Other(s)  BY <2>2
    <3>1. now' = now /\ SamePosition(gps', gps)
      BY <2>1, OtherEffect DEF Other, Receive
    <3>. QED  BY <2>1, <3>1 DEF SamePosition, FreshPositionSource
  <2>3. CASE \E s \in GgaSentence : Gga(s)
    <3>. PICK s \in GgaSentence : Gga(s)  BY <2>3
    <3>1. gps'.locationValid = (s.fix /\ s.coords)
      BY <2>1, GgaEffect DEF Gga, Receive
    <3>. QED  BY <2>1, <3>1
  <2>4. CASE \E s \in GsaSentence : Gsa(s)
    <3>. PICK s \in GsaSentence : Gsa(s)  BY <2>4
    <3>1. /\ now' = now
          /\ gps'.lastGgaMs = gps.lastGgaMs /\ gps'.lastRmcMs = gps.lastRmcMs
          /\ gps'.locationValid => gps.locationValid
      <4>1. gps' = ProcessNmeaSentence(gps, s, now) /\ now' = now
        BY DEF Gsa, Receive
      <4>2. /\ gps'.lastGgaMs = gps.lastGgaMs /\ gps'.lastRmcMs = gps.lastRmcMs
            /\ s.fixType \in {2, 3} => gps'.locationValid = gps.locationValid
            /\ s.fixType \notin {2, 3} => gps'.locationValid = FALSE
        <5>1. gps \in GpsData /\ now \in Millis  BY <2>1
        <5>. QED  BY <4>1, <5>1, GsaEffect
      <4>3. s.fixType \in {2, 3}  BY <2>1, <4>2
      <4>. QED  BY <2>1, <4>1, <4>2, <4>3
    <3>. QED  BY <2>1, <3>1 DEF FreshPositionSource
  <2>5. CASE \E s \in RmcSentence : Rmc(s)
    <3>. PICK s \in RmcSentence : Rmc(s)  BY <2>5
    <3>1. gps'.locationValid = (s.active /\ s.coords)
      BY <2>1, RmcEffect DEF Rmc, Receive
    <3>. QED  BY <2>1, <3>1
  <2>6. CASE AdvanceMillis
    <3>1. /\ gps' = gps
          /\ IsRecent(now', gps.lastGgaMs) => IsRecent(now, gps.lastGgaMs)
          /\ IsRecent(now', gps.lastRmcMs) => IsRecent(now, gps.lastRmcMs)
      BY <1>1, <2>6, TimeFreshensNothing DEF Kinds, Stamp
    <3>. QED  BY <2>1, <3>1 DEF FreshPositionSource
  <2>. QED  BY <2>2, <2>3, <2>4, <2>5, <2>6 DEF TrackerNext
<1>2. TrackerSpec => [][Granted]_trackerVars
  BY <1>1, TrackerAlways, PTL DEF TrackerSpec
<1>. QED  BY <1>2 DEF PositionOnlyFromCoordinates

-----------------------------------------------------------------------------
(* The diagnosis. *)

\* The verdict on a current position, in the order the code asks for it.
LEMMA StateByPosition ==
    /\ State = "NoData" <=> ~FreshNmea(gps, now)
    /\ State = "NoFix" <=> FreshNmea(gps, now) /\ ~UsablePosition(gps, now)
    /\ State = "Degraded2D" <=>
         FreshNmea(gps, now) /\ UsablePosition(gps, now) /\ Fresh2D(gps, now)
    /\ State \in {"NoData", "NoFix", "Degraded2D", "DegradedLowSat", "Ok"}
BY DEF State, DiagnosticState

\* With a stamped sentence, a usable position implies fresh NMEA data.
LEMMA UsableIsFresh ==
    ASSUME TrackerIInv, gps.lastNmeaMs # 0, UsablePosition(gps, now)
    PROVE  FreshNmea(gps, now)
<1>1. age["gga"] <= Timeout \/ age["rmc"] <= Timeout
  BY FreshIsYoung DEF UsablePosition, FreshPositionSource
<1>2. /\ age["nmea"] <= age["gga"] /\ age["nmea"] <= age["rmc"] /\ gps.nmeaValid
  BY DEF TrackerIInv, NmeaIsYoungest, Kinds
<1>3. /\ age["nmea"] \in 0 .. Never /\ age["gga"] \in 0 .. Never /\ age["rmc"] \in 0 .. Never
  BY DEF TrackerIInv, TrackerTypeOK, Kinds
<1>4. age["nmea"] <= Timeout  BY <1>1, <1>2, <1>3 DEF Never
<1>5. IsRecent(now, gps.lastNmeaMs)
  BY <1>4, IInvFreshness DEF FreshnessIsExact, Kinds, Stamp
<1>. QED  BY <1>2, <1>5 DEF FreshNmea

(* The LEDs, the state, `valid' and the fix type of one report agree      *)
(* whenever the last accepted sentence was stamped other than 0.          *)
THEOREM ReportCoherent == TrackerSpec => []ReportIsCoherent
<1>1. ASSUME TrackerIInv PROVE ReportIsCoherent
  <2>1. BuildLedPattern(gps, now).data <=> State # "NoData"
    BY StateByPosition DEF BuildLedPattern
  <2>. SUFFICES ASSUME gps.lastNmeaMs # 0
                PROVE  /\ UsablePosition(gps, now) <=> State \notin {"NoData", "NoFix"}
                       /\ UsablePosition(gps, now) /\ FixTypeToText(gps, now) = "2D"
                            <=> State = "Degraded2D"
                       /\ UsablePosition(gps, now) <=>
                            BuildLedPattern(gps, now).ok \/ BuildLedPattern(gps, now).warning
    BY <2>1 DEF ReportIsCoherent
  <2>2. UsablePosition(gps, now) <=> State \notin {"NoData", "NoFix"}
    BY <1>1, StateByPosition, UsableIsFresh
  <2>3. UsablePosition(gps, now) =>
          (FixTypeToText(gps, now) = "2D" <=> Fresh2D(gps, now))
    BY DEF UsablePosition, FixTypeToText, Fresh2D
  <2>4. UsablePosition(gps, now) /\ FixTypeToText(gps, now) = "2D" <=> State = "Degraded2D"
    BY <1>1, <2>3, StateByPosition, UsableIsFresh
  <2>5. BuildLedPattern(gps, now).ok \/ BuildLedPattern(gps, now).warning
          <=> State \notin {"NoData", "NoFix"}
    BY StateByPosition DEF BuildLedPattern, State
  <2>. QED  BY <2>2, <2>4, <2>5
<1>. QED  BY <1>1, TrackerAlways, PTL

\* The one verdict that time lifts: a 2D fix whose GSA sentence goes stale.
LEMMA TimeEnds2D ==
    ASSUME TrackerIInv, TrackerIInv', AdvanceMillis, Fresh2D(gps, now), ~Fresh2D(gps', now')
    PROVE  age["gsa"] = Timeout
<1>1. /\ gps' = gps /\ IsRecent(now, gps.lastGsaMs) /\ ~IsRecent(now', gps.lastGsaMs)
  BY DEF AdvanceMillis, Fresh2D
<1>2. age["gsa"] <= Timeout /\ gps.lastGsaMs # 0
  BY <1>1, IInvFreshness DEF FreshnessIsExact, Kinds, Stamp
<1>3. TrackerIInv' => FreshnessIsExact'  BY IInvFreshness, PTL
<1>4. ~(age'["gsa"] <= Timeout)
  BY <1>1, <1>2, <1>3 DEF FreshnessIsExact, Kinds, Stamp
<1>5. /\ age["gsa"] \in 0 .. Never
      /\ age'["gsa"] = IF age["gsa"] = Never THEN Never ELSE age["gsa"] + 1
  BY DEF AdvanceMillis, TrackerIInv, TrackerTypeOK, Kinds
<1>. QED  BY <1>2, <1>4, <1>5 DEF Never

(* The passing of time never improves the diagnosis, except that a 2D     *)
(* verdict expires with the GSA sentence that gave it.                    *)
THEOREM SilenceDegrades == TrackerSpec => SilenceOnlyDegrades
<1>. DEFINE Degrades ==
       AdvanceMillis => \/ Rank(State') <= Rank(State)
                        \/ State = "Degraded2D" /\ age["gsa"] = Timeout
<1>1. ASSUME TrackerIInv, TrackerIInv', [TrackerNext]_trackerVars PROVE [Degrades]_trackerVars
  <2>. SUFFICES ASSUME AdvanceMillis
                PROVE  \/ Rank(State') <= Rank(State)
                       \/ State = "Degraded2D" /\ age["gsa"] = Timeout
    BY <1>1
  <2>1. /\ gps' = gps
        /\ IsRecent(now', gps.lastNmeaMs) => IsRecent(now, gps.lastNmeaMs)
        /\ IsRecent(now', gps.lastGgaMs) => IsRecent(now, gps.lastGgaMs)
        /\ IsRecent(now', gps.lastGsaMs) => IsRecent(now, gps.lastGsaMs)
        /\ IsRecent(now', gps.lastRmcMs) => IsRecent(now, gps.lastRmcMs)
    BY <1>1, TimeFreshensNothing DEF Kinds, Stamp
  <2>2. /\ FreshNmea(gps', now') => FreshNmea(gps, now)
        /\ Fresh2D(gps', now') => Fresh2D(gps, now)
    BY <2>1 DEF FreshNmea, Fresh2D
  <2>3. UsablePosition(gps', now') => UsablePosition(gps, now)
    BY <2>1, <1>1, UsableSimplified DEF UsablePosition, FreshPositionSource
  <2>4. State' = DiagnosticState(gps', now')  BY DEF State
  <2>5. CASE ~FreshNmea(gps', now') \/ ~UsablePosition(gps', now')
    BY <2>2, <2>4, <2>5 DEF State, DiagnosticState, Rank
  <2>6. CASE /\ FreshNmea(gps', now') /\ UsablePosition(gps', now')
             /\ Fresh2D(gps, now) /\ ~Fresh2D(gps', now')
    BY <1>1, <2>2, <2>3, <2>6, TimeEnds2D, StateByPosition
  <2>7. CASE /\ FreshNmea(gps', now') /\ UsablePosition(gps', now')
             /\ Fresh2D(gps, now) = Fresh2D(gps', now')
    BY <2>1, <2>2, <2>3, <2>4, <2>7 DEF State, DiagnosticState, Rank
  <2>. QED  BY <2>2, <2>5, <2>6, <2>7 DEF Fresh2D
<1>2. TrackerSpec => [][Degrades]_trackerVars
  BY <1>1, TrackerAlways, PTL DEF TrackerSpec
<1>. QED  BY <1>2 DEF SilenceOnlyDegrades
-----------------------------------------------------------------------------
(***************************************************************************)
(* The bench.  Its steps are the tracker's, so what holds of the tracker   *)
(* holds of it.  The rest of its inductive invariant: what is on the line, *)
(* how the timers stand, what was heard of the receiver's last state, and  *)
(* what has been presented since.                                          *)
(***************************************************************************)

Sentences == {"gga", "rmc", "gsa"}

\* The last `n' sentences of the frame of a state.
Remainder(state, n) ==
    CASE n = 3 -> <<GgaOf(state), RmcOf(state), GsaOf(state)>>
      [] n = 2 -> <<RmcOf(state), GsaOf(state)>>
      [] n = 1 -> <<GsaOf(state)>>
      [] n = 0 -> << >>

\* What is on the line is left of the last frame, which the next never meets.
ChipOK ==
    /\ scenario \in AllScenarios /\ seconds \in Nat
    /\ timer \in 0 .. SendPeriod /\ transit \in 0 .. Transit
    /\ resolved \in {States[i] : i \in 1 .. 5}
    /\ \E n \in 0 .. 3 : line = Remainder(resolved, n)
    /\ line # << >> => resolved.transmit /\ transit + timer = SendPeriod

\* The loop is never a tick late, and the clock tells how old the report is.
PaceOK ==
    /\ sinceLoop \in 0 .. 1 /\ steady \in 0 .. Settled
    /\ sinceReport \in 0 .. ReportInterval + 1
    /\ sinceLoop = 0 => sinceReport <= ReportInterval
    /\ lastParsedJsonReportMs \in Millis
    /\ ElapsedMs(now, lastParsedJsonReportMs) = sinceReport

OnLine(k) == Len(line) >= CASE k = "gga" -> 3 [] k = "rmc" -> 2 [] k = "gsa" -> 1

\* The ticks within which a sentence of that kind arrives, if none is lost.
Due(k) == IF OnLine(k) THEN Transit - transit ELSE timer + Transit

FixAgrees == gps.hasFix = HasFix(resolved) /\ gps.locationValid = HasFix(resolved)

\* The GPS state holds what a sentence of that kind says of the receiver.
Said(k) ==
    CASE k = "gga" -> gps.satellitesUsed = resolved.sats /\ gps.altitudeValid /\ FixAgrees
      [] k = "rmc" -> FixAgrees
      [] k = "gsa" -> gps.fixTypeValid /\ gps.fixType = resolved.fixMode

Awaited(k) == steady + Due(k) <= SendPeriod + Transit
Heard(k) == age[k] + Due(k) <= SendPeriod + Transit /\ Stamp(k) # 0 /\ Said(k)

\* A receiver that transmits has been heard in each kind, or not for long;
\* one that is silent has not been heard since.
HeardOK ==
    /\ resolved.transmit => \A k \in Sentences : Awaited(k) \/ Heard(k)
    /\ ~resolved.transmit => \A k \in Sentences : age[k] > Timeout \/ age[k] >= steady
    /\ \E k \in Sentences : gps.lastNmeaMs = Stamp(k) /\ age["nmea"] = age[k]

\* The old state has expired, and every kind of sentence told the new one.
Ready == Timeout + 1

LedsTell ==
    LET expected == ExpectedState(resolved)
    IN  leds = [data |-> resolved.transmit,
                error |-> expected \in {"NoData", "NoFix"},
                warning |-> expected \in {"Degraded2D", "DegradedLowSat"},
                ok |-> expected = "Ok"]

ReportTells ==
    LET fix == resolved.transmit /\ HasFix(resolved)
    IN  /\ report.state = ExpectedState(resolved)
        /\ report.valid = fix
        /\ report.fixType = IF ~fix THEN "NONE" ELSE IF resolved.fixMode = 2 THEN "2D" ELSE "3D"
        /\ report.altitude = (fix /\ resolved.fixMode = 3)

PresentedOK ==
    /\ steady >= sinceLoop + Ready => LedsTell
    /\ steady >= sinceReport + Ready => ReportTells

BenchIInv == ChipOK /\ PaceOK /\ HeardOK /\ PresentedOK

\* What the chip can say.
LEMMA ChipStates ==
    ASSUME NEW state \in {States[i] : i \in 1 .. 5}
    PROVE  /\ state.transmit \in BOOLEAN /\ state.fixMode \in {0, 2, 3}
           /\ ~state.transmit => state.fixMode = 0
           /\ state.sats \in SatelliteCounts
<1>1. PICK i \in 1 .. 5 : state = States[i]  OBVIOUS
<1>2. state.sats \in SatelliteCounts  BY <1>1, BenchAssumption
<1>3. ASSUME NEW t \in BOOLEAN, NEW f \in {0, 2, 3}, NEW n, t \/ f = 0, state = MakeState(t, f, n)
      PROVE  /\ state.transmit \in BOOLEAN /\ state.fixMode \in {0, 2, 3}
             /\ ~state.transmit => state.fixMode = 0
  <2>1. state.transmit = t /\ state.fixMode = f  BY <1>3 DEF MakeState
  <2>. QED  BY <1>3, <2>1
<1>4. CASE i = 1  BY <1>1, <1>2, <1>3, <1>4 DEF States
<1>5. CASE i = 2  BY <1>1, <1>2, <1>3, <1>5 DEF States
<1>6. CASE i = 3  BY <1>1, <1>2, <1>3, <1>6 DEF States
<1>7. CASE i = 4  BY <1>1, <1>2, <1>3, <1>7 DEF States
<1>8. CASE i = 5  BY <1>1, <1>2, <1>3, <1>8 DEF States
<1>. QED  BY <1>4, <1>5, <1>6, <1>7, <1>8

\* The chip's sentences are ones the parser knows.
LEMMA ChipSentences ==
    ASSUME NEW state \in {States[i] : i \in 1 .. 5}
    PROVE  /\ GgaOf(state) \in GgaSentence /\ GgaOf(state).type = "GGA"
           /\ RmcOf(state) \in RmcSentence /\ RmcOf(state).type = "RMC"
           /\ GsaOf(state) \in GsaSentence /\ GsaOf(state).type = "GSA"
<1>1. state.sats \in SatelliteCounts /\ state.fixMode \in {0, 2, 3}  BY ChipStates
<1>. HasFix(state) \in BOOLEAN /\ TRUE \in TimeField  BY BenchAssumption DEF HasFix
<1>2. GgaOf(state) \in GgaSentence  BY <1>1 DEF GgaOf, GgaSentence
<1>3. RmcOf(state) \in RmcSentence  BY <1>1 DEF RmcOf, RmcSentence
<1>4. GsaOf(state) \in GsaSentence
  <2>1. (IF HasFix(state) THEN state.fixMode ELSE 1) \in 0 .. 3  BY <1>1
  <2>. QED  BY <2>1 DEF GsaOf, GsaSentence
<1>. QED  BY <1>2, <1>3, <1>4 DEF GgaOf, RmcOf, GsaOf

\* A step of the bench is one of the tracker, or leaves it alone.
LEMMA BenchStep == [Next]_vars => [TrackerNext]_trackerVars
<1>. SUFFICES ASSUME [Next]_vars PROVE [TrackerNext]_trackerVars  OBVIOUS
<1>1. ASSUME NEW s, HandleSentence(s) PROVE TrackerNext
  BY <1>1 DEF HandleSentence, TrackerNext
<1>2. CASE Send  BY <1>2 DEF Send
<1>3. CASE Select  BY <1>3 DEF Select
<1>4. CASE Arrive  BY <1>1, <1>4 DEF Arrive
<1>5. CASE ArriveDamaged  BY <1>1, <1>5 DEF ArriveDamaged
<1>6. CASE Lose  BY <1>6 DEF Lose
<1>7. CASE Loop  BY <1>7 DEF Loop, Present
<1>8. CASE Tick  BY <1>8 DEF Tick, TrackerNext
<1>9. CASE UNCHANGED vars  BY <1>9 DEF vars
<1>. QED  BY <1>2, <1>3, <1>4, <1>5, <1>6, <1>7, <1>8, <1>9 DEF Next

(* In the firmware that the simulated receiver drives, the GPS state goes *)
(* through the steps of GpsTracker and no others: what is proved of the   *)
(* tracker holds of the whole loop, at every phase of line and timers.    *)
THEOREM BenchRunsTracker == Spec => TrackerSpec
<1>1. Init => TrackerInit  BY DEF Init, RuntimeInit
<1>. QED  BY <1>1, BenchStep, PTL DEF Spec, TrackerSpec

LEMMA BenchTracked == Spec => []TrackerIInv
<1>. QED  BY BenchRunsTracker, TrackerAlways, PTL

-----------------------------------------------------------------------------
(* The line and the timer of the receiver. *)

LEMMA RemainderShape ==
    ASSUME NEW state, NEW n \in 0 .. 3
    PROVE  /\ Len(Remainder(state, n)) = n
           /\ Remainder(state, n) = << >> <=> n = 0
           /\ n # 0 => Tail(Remainder(state, n)) = Remainder(state, n - 1)
           /\ Head(Remainder(state, n)) = CASE n = 3 -> GgaOf(state) [] n = 2 -> RmcOf(state)
                                            [] n = 1 -> GsaOf(state) [] OTHER -> Head(<< >>)
<1>1. CASE n = 3  BY <1>1 DEF Remainder
<1>2. CASE n = 2  BY <1>2 DEF Remainder
<1>3. CASE n = 1  BY <1>3 DEF Remainder
<1>4. CASE n = 0  BY <1>4 DEF Remainder
<1>. QED  BY <1>1, <1>2, <1>3, <1>4

\* The first sentence on the line, and what is left behind it.
LEMMA LineShape ==
    ASSUME ChipOK
    PROVE  /\ Len(line) \in 0 .. 3 /\ line = Remainder(resolved, Len(line))
           /\ line = << >> <=> Len(line) = 0
           /\ line # << >> =>
                /\ Tail(line) = Remainder(resolved, Len(line) - 1)
                /\ Len(Tail(line)) = Len(line) - 1
                /\ Head(line) = CASE Len(line) = 3 -> GgaOf(resolved)
                                  [] Len(line) = 2 -> RmcOf(resolved)
                                  [] Len(line) = 1 -> GsaOf(resolved)
<1>1. PICK n \in 0 .. 3 : line = Remainder(resolved, n)  BY DEF ChipOK
<1>2. Len(line) = n  BY <1>1, RemainderShape
<1>3. line = << >> <=> n = 0  BY <1>1, RemainderShape
<1>4. n # 0 => /\ Tail(line) = Remainder(resolved, n - 1)
               /\ Len(Tail(line)) = n - 1
               /\ Head(line) = CASE n = 3 -> GgaOf(resolved) [] n = 2 -> RmcOf(resolved)
                                 [] n = 1 -> GsaOf(resolved)
  BY <1>1, RemainderShape
<1>. QED  BY <1>1, <1>2, <1>3, <1>4

\* A frame is off the line before the next is sent.
LEMMA SendsApart == ASSUME ChipOK, timer = 0 PROVE line = << >>
BY BenchAssumption, ChipAssumption DEF ChipOK

LEMMA ResolvedState ==
    ASSUME NEW selected \in AllScenarios, NEW second \in Nat
    PROVE  ResolveSelectedState(selected, second) \in {States[i] : i \in 1 .. 5}
<1>1. second \div AutoPhase \in Nat  BY ChipAssumption
<1>2. (second \div AutoPhase) % 5 \in 0 .. 4  BY <1>1
<1>3. ((second \div AutoPhase) % 5) + 1 \in 1 .. 5  BY <1>2
<1>. QED  BY <1>3 DEF ResolveSelectedState, AllScenarios

LEMMA ChipStarts == Init => ChipOK
<1>. SUFFICES ASSUME Init PROVE ChipOK  OBVIOUS
<1>1. line = Remainder(resolved, 0)  BY DEF Init, ChipInit, Remainder
<1>2. scenario \in AllScenarios /\ seconds \in Nat /\ timer \in 0 .. SendPeriod
  BY ChipAssumption DEF Init, ChipInit
<1>3. transit \in 0 .. Transit  BY BenchAssumption DEF Init
<1>. QED  BY <1>1, <1>2, <1>3 DEF Init, ChipInit, ChipOK

LEMMA ChipSends == ASSUME ChipOK, Send PROVE ChipOK'
<1>1. line = << >>  BY SendsApart DEF Send, SendNmeaFrame
<1>2. scenario \in AllScenarios /\ scenario' = scenario /\ seconds' \in Nat
  <2>1. 5 * AutoPhase \in Nat \ {0} /\ seconds + 1 \in Nat
    BY ChipAssumption DEF ChipOK
  <2>2. (seconds + 1) % (5 * AutoPhase) \in Nat  BY <2>1
  <2>. QED  BY <2>2 DEF ChipOK, Send, SendNmeaFrame
<1>3. resolved' \in {States[i] : i \in 1 .. 5}
  BY <1>2, ResolvedState DEF Send, SendNmeaFrame
<1>4. line' = IF resolved'.transmit THEN Remainder(resolved', 3) ELSE Remainder(resolved', 0)
  BY <1>1 DEF Send, SendNmeaFrame, Remainder
<1>5. /\ \E n \in 0 .. 3 : line' = Remainder(resolved', n)
      /\ line' # << >> => resolved'.transmit
  BY <1>4, RemainderShape
<1>6. /\ timer' = SendPeriod /\ timer' \in 0 .. SendPeriod
      /\ transit' = 0 /\ transit' \in 0 .. Transit
  BY BenchAssumption, ChipAssumption DEF Send, SendNmeaFrame
<1>7. transit' + timer' = SendPeriod  BY <1>6, ChipAssumption
<1>. QED  BY <1>2, <1>3, <1>5, <1>6, <1>7 DEF ChipOK

\* A sentence comes off the line, whole, damaged or lost.
LEMMA ChipDelivers ==
    ASSUME ChipOK, line # << >>, line' = Tail(line), UNCHANGED <<chipVars, transit>>
    PROVE  ChipOK'
<1>1. Len(line) - 1 \in 0 .. 3 /\ line' = Remainder(resolved, Len(line) - 1)
  BY LineShape
<1>. QED  BY <1>1 DEF ChipOK, chipVars

LEMMA ChipTicks == ASSUME ChipOK, Tick PROVE ChipOK'
<1>1. /\ timer' = timer - 1 /\ timer > 0
      /\ transit' = IF line = << >> THEN 0 ELSE transit + 1
      /\ line # << >> => transit < Transit
      /\ UNCHANGED <<scenario, seconds, resolved, line>>
  BY DEF Tick
<1>. QED  BY <1>1, BenchAssumption, ChipAssumption DEF ChipOK

LEMMA ChipSteps == ASSUME ChipOK, [Next]_vars PROVE ChipOK'
<1>1. CASE Send  BY <1>1, ChipSends
<1>2. CASE Select
  <2>1. scenario' \in AllScenarios /\ seconds' \in Nat
    BY <1>2, ChipAssumption DEF Select, SelectScenario, Cycle
  <2>. QED  BY <1>2, <2>1 DEF ChipOK, Select, SelectScenario, benchVars
<1>3. CASE Arrive  BY <1>3, ChipDelivers DEF Arrive
<1>4. CASE ArriveDamaged  BY <1>4, ChipDelivers DEF ArriveDamaged
<1>5. CASE Lose  BY <1>5, ChipDelivers DEF Lose
<1>6. CASE Loop  BY <1>6 DEF ChipOK, Loop, chipVars
<1>7. CASE Tick  BY <1>7, ChipTicks
<1>8. CASE UNCHANGED vars  BY <1>8 DEF ChipOK, vars, chipVars, benchVars
<1>. QED  BY <1>1, <1>2, <1>3, <1>4, <1>5, <1>6, <1>7, <1>8 DEF Next

-----------------------------------------------------------------------------
(* The timers of the loop. *)

LEMMA HandlingTakesNoTime ==
    ASSUME NEW s, HandleSentence(s) PROVE now' = now /\ UNCHANGED runtimeVars
BY DEF HandleSentence, Other, Gga, Gsa, Rmc, Receive

LEMMA PaceStarts == Init => PaceOK
<1>. SUFFICES ASSUME Init PROVE PaceOK  OBVIOUS
<1>1. /\ now = 1 /\ lastParsedJsonReportMs = 0 /\ sinceReport = 1
      /\ sinceLoop = 0 /\ steady = 0
  BY DEF Init, RuntimeInit, TrackerInit
<1>. QED  BY <1>1, IntervalAssumption DEF PaceOK, ElapsedMs, Millis, Settled

\* What the invariant speaks of, when no time passes and nothing is presented.
LEMMA PaceKept ==
    ASSUME PaceOK, UNCHANGED <<now, lastParsedJsonReportMs, sinceLoop, sinceReport>>,
           steady' \in {0, steady}
    PROVE  PaceOK'
BY IntervalAssumption DEF PaceOK, Settled

LEMMA PaceLoops ==
    ASSUME TrackerIInv, PaceOK, Loop
    PROVE  PaceOK'
<1>1. now \in Millis  BY DEF TrackerIInv, TrackerTypeOK
<1>2. /\ now' = now /\ steady' = steady /\ sinceLoop' = 0
      /\ sinceReport' = IF ReportDue THEN 0 ELSE sinceReport
      /\ lastParsedJsonReportMs' = IF ReportDue THEN now ELSE lastParsedJsonReportMs
  BY DEF Loop, Present, ReportParsedState, trackerVars
<1>3. ReportDue <=> sinceReport >= ReportInterval  BY DEF PaceOK, ReportDue
<1>. QED  BY <1>1, <1>2, <1>3, IntervalAssumption DEF PaceOK, ElapsedMs, Millis

LEMMA PaceTicks ==
    ASSUME TrackerIInv, PaceOK, Tick
    PROVE  PaceOK'
<1>1. now \in Millis  BY DEF TrackerIInv, TrackerTypeOK
<1>2. /\ now' = (IF now + 1 = Wrap THEN 0 ELSE now + 1)
      /\ sinceLoop = 0 /\ sinceLoop' = 1 /\ sinceReport' = sinceReport + 1
      /\ steady' = (IF steady < Settled THEN steady + 1 ELSE steady)
      /\ lastParsedJsonReportMs' = lastParsedJsonReportMs
  BY DEF Tick, AdvanceMillis, runtimeVars
<1>3. steady' \in 0 .. Settled  BY <1>2, IntervalAssumption DEF PaceOK, Settled
<1>4. sinceReport' \in 0 .. ReportInterval + 1
  BY <1>2, IntervalAssumption DEF PaceOK
<1>5. ElapsedMs(now', lastParsedJsonReportMs) = sinceReport + 1
  BY <1>1, <1>2, IntervalAssumption DEF PaceOK, ElapsedMs, Millis
<1>. QED  BY <1>2, <1>3, <1>4, <1>5 DEF PaceOK

LEMMA PaceSteps ==
    ASSUME TrackerIInv, PaceOK, [Next]_vars
    PROVE  PaceOK'
<1>1. CASE Send  BY <1>1, PaceKept DEF Send, trackerVars, runtimeVars
<1>2. CASE Select  BY <1>2, PaceKept DEF Select, trackerVars, runtimeVars, benchVars
<1>3. CASE Arrive  BY <1>3, PaceKept, HandlingTakesNoTime DEF Arrive, runtimeVars
<1>4. CASE ArriveDamaged  BY <1>4, PaceKept, HandlingTakesNoTime DEF ArriveDamaged, runtimeVars
<1>5. CASE Lose  BY <1>5, PaceKept DEF Lose, trackerVars, runtimeVars
<1>6. CASE Loop  BY <1>6, PaceLoops
<1>7. CASE Tick  BY <1>7, PaceTicks
<1>8. CASE UNCHANGED vars  BY <1>8, PaceKept DEF vars, trackerVars, runtimeVars, benchVars
<1>. QED  BY <1>1, <1>2, <1>3, <1>4, <1>5, <1>6, <1>7, <1>8 DEF Next

LEMMA PaceAlways == Spec => []PaceOK
<1>. QED  BY PaceStarts, PaceSteps, BenchTracked, PTL DEF Spec

(* Reports follow each other after the interval and at most one loop,     *)
(* whatever the clock's width and wherever it wraps between them.         *)
THEOREM PaceKeeps == Spec => ReportsKeepTheirPace
<1>. DEFINE AtPace == lastParsedJsonReportMs' # lastParsedJsonReportMs
                        => sinceReport >= ReportInterval
<1>1. PaceOK => sinceReport <= ReportInterval + 1
  BY IntervalAssumption DEF PaceOK
<1>2. ASSUME PaceOK, [Next]_vars PROVE [AtPace]_vars
  <2>. SUFFICES ASSUME Next, lastParsedJsonReportMs' # lastParsedJsonReportMs
                PROVE  sinceReport >= ReportInterval
    BY <1>2
  <2>1. Loop
    BY HandlingTakesNoTime DEF Next, Send, Select, Arrive, ArriveDamaged, Lose, Tick, runtimeVars
  <2>2. ReportDue  BY <2>1 DEF Loop, Present, ReportParsedState
  <2>. QED  BY <1>2, <2>2 DEF PaceOK, ReportDue
<1>3. Spec => [](sinceReport <= ReportInterval + 1)  BY <1>1, PaceAlways, PTL
<1>4. Spec => [][AtPace]_vars  BY <1>2, PaceAlways, PTL DEF Spec
<1>. QED  BY <1>3, <1>4 DEF ReportsKeepTheirPace

-----------------------------------------------------------------------------
(* The display and the report. *)

LEMMA AgreementStarts == Init => DisplayAgreesWithReport
BY DEF Init, RuntimeInit, BootScreen, NoReport, DisplayAgreesWithReport

\* The display words the fix as the report does.
LEMMA FixWordsAgree ==
    ASSUME NEW g, NEW t
    PROVE  FixTypeToText(g, t) = CASE FixTypeToDisplay(g, t) \in {"---", "NO"} -> "NONE"
                                   [] FixTypeToDisplay(g, t) = "YES" -> "UNKNOWN"
                                   [] OTHER -> FixTypeToDisplay(g, t)
BY DEF FixTypeToText, FixTypeToDisplay, CurrentFix

\* What is drawn and what is reported of one state at one time.
LEMMA ModelsAgree ==
    ASSUME NEW g, NEW t, NEW d, NEW r, d = BuildDisplayModel(g, t), r = ParsedState(g, t)
    PROVE  /\ d.state = r.state /\ d.position = r.valid /\ d.altitude = r.altitude
           /\ r.fixType = CASE d.fix \in {"---", "NO"} -> "NONE"
                            [] d.fix = "YES" -> "UNKNOWN"
                            [] OTHER -> d.fix
           /\ d.sats = {r.sats} \/ (d.sats = {} /\ r.sats = 0)
           /\ d.age = "seconds" <=> r.gpsData
<1>1. /\ d.state = r.state /\ d.position = r.valid /\ d.altitude = r.altitude
      /\ d.fix = FixTypeToDisplay(g, t) /\ r.fixType = FixTypeToText(g, t)
      /\ d.sats = {r.sats} \/ (d.sats = {} /\ r.sats = 0)
      /\ d.age = DisplayAge(g, t) /\ r.gpsData = FreshNmea(g, t)
  BY DEF BuildDisplayModel, ParsedState
<1>2. d.age = "seconds" <=> r.gpsData
  BY <1>1 DEF DisplayAge, FreshNmea
<1>. QED  BY <1>1, <1>2, FixWordsAgree

LEMMA AgreementKept ==
    ASSUME DisplayAgreesWithReport, UNCHANGED runtimeVars
    PROVE  DisplayAgreesWithReport'
BY DEF DisplayAgreesWithReport, runtimeVars

LEMMA AgreementLoops ==
    ASSUME DisplayAgreesWithReport, Loop
    PROVE  DisplayAgreesWithReport'
<1>1. lastDisplayUpdateMs = lastParsedJsonReportMs  BY DEF DisplayAgreesWithReport
<1>2. /\ displayReady' = displayReady
      /\ UpdateDisplay /\ ReportParsedState
  BY DEF Loop, Present
<1>3. CASE ReportDue
  <2>1. /\ lastDisplayUpdateMs' = now /\ lastParsedJsonReportMs' = now
        /\ displayReady => display' = BuildDisplayModel(gps, now)
        /\ report' = ParsedState(gps, now)
    BY <1>1, <1>2, <1>3, IntervalAssumption DEF UpdateDisplay, ReportParsedState, ReportDue
  <2>. QED  BY <1>2, <2>1, ModelsAgree DEF DisplayAgreesWithReport
<1>4. CASE ~ReportDue
  <2>1. UNCHANGED <<lastDisplayUpdateMs, lastParsedJsonReportMs, display, report>>
    BY <1>1, <1>2, <1>4, IntervalAssumption DEF UpdateDisplay, ReportParsedState, ReportDue
  <2>. QED  BY <1>2, <2>1 DEF DisplayAgreesWithReport
<1>. QED  BY <1>3, <1>4

LEMMA AgreementSteps ==
    ASSUME DisplayAgreesWithReport, [Next]_vars
    PROVE  DisplayAgreesWithReport'
<1>1. CASE Loop  BY <1>1, AgreementLoops
<1>2. CASE ~Loop
  <2>1. UNCHANGED runtimeVars
    BY <1>2, HandlingTakesNoTime
    DEF Next, Send, Select, Arrive, ArriveDamaged, Lose, Tick, vars
  <2>. QED  BY <2>1, AgreementKept
<1>. QED  BY <1>1, <1>2

(* The display and the last report tell the same of the receiver, though  *)
(* two functions word it and two timers that wrap decide when.            *)
THEOREM DisplayAgrees == Spec => []DisplayAgreesWithReport
<1>. QED  BY AgreementStarts, AgreementSteps, PTL DEF Spec

-----------------------------------------------------------------------------
(* What has been heard of the receiver. *)

\* A sentence of the receiver's is handled as one of its type.
LEMMA Handled ==
    ASSUME NEW state \in {States[i] : i \in 1 .. 5}
    PROVE  /\ HandleSentence(GgaOf(state)) => Gga(GgaOf(state))
           /\ HandleSentence(RmcOf(state)) => Rmc(RmcOf(state))
           /\ HandleSentence(GsaOf(state)) => Gsa(GsaOf(state))
BY ChipSentences DEF HandleSentence, OtherSentence, GgaSentence, RmcSentence, GsaSentence

\* A sentence of kind `k' leaves that kind new, and the others as they were.
Renewed(k) ==
    /\ now' = now /\ age' = [j \in Kinds |-> IF j \in {"nmea", k} THEN 0 ELSE age[j]]
    /\ gps'.lastNmeaMs = now
    /\ \A j \in Sentences : Stamp(j)' = IF j = k THEN now ELSE Stamp(j)

LEMMA GgaArrives ==
    ASSUME TrackerIInv, NEW state \in {States[i] : i \in 1 .. 5}, Gga(GgaOf(state))
    PROVE  /\ Renewed("gga")
           /\ gps'.hasFix = HasFix(state) /\ gps'.locationValid = HasFix(state)
           /\ gps'.altitudeValid /\ gps'.satellitesUsed = state.sats
           /\ gps'.fixTypeValid = gps.fixTypeValid /\ gps'.fixType = gps.fixType
<1>. DEFINE s == GgaOf(state)
<1>1. s \in GgaSentence /\ gps \in GpsData /\ now \in Millis
  BY ChipSentences DEF TrackerIInv, TrackerTypeOK
<1>2. /\ s.fix = HasFix(state) /\ s.coords = HasFix(state) /\ s.alt = TRUE
      /\ s.sats = state.sats /\ HasFix(state) \in BOOLEAN
  BY DEF GgaOf, HasFix
<1>3. /\ gps' = ProcessNmeaSentence(gps, s, now) /\ now' = now
      /\ age' = [j \in Kinds |-> IF j \in {"nmea", "gga"} THEN 0 ELSE age[j]]
  BY DEF Gga, Receive, Hear
<1>. HIDE DEF s
<1>4. /\ gps'.lastNmeaMs = now /\ gps'.lastGgaMs = now
      /\ gps'.lastGsaMs = gps.lastGsaMs /\ gps'.lastRmcMs = gps.lastRmcMs
      /\ gps'.hasFix = s.fix /\ gps'.locationValid = (s.fix /\ s.coords)
      /\ gps'.altitudeValid = s.alt /\ gps'.satellitesUsed = s.sats
      /\ gps'.fixTypeValid = gps.fixTypeValid /\ gps'.fixType = gps.fixType
  BY <1>1, <1>3, GgaEffect
<1>5. Renewed("gga")  BY <1>3, <1>4 DEF Renewed, Sentences, Stamp
<1>6. gps'.locationValid = HasFix(state)  BY <1>2, <1>4
<1>. QED  BY <1>2, <1>4, <1>5, <1>6

LEMMA RmcArrives ==
    ASSUME TrackerIInv, NEW state \in {States[i] : i \in 1 .. 5}, Rmc(RmcOf(state))
    PROVE  /\ Renewed("rmc")
           /\ gps'.hasFix = HasFix(state) /\ gps'.locationValid = HasFix(state)
           /\ gps'.altitudeValid = gps.altitudeValid
           /\ gps'.satellitesUsed = gps.satellitesUsed
           /\ gps'.fixTypeValid = gps.fixTypeValid /\ gps'.fixType = gps.fixType
<1>. DEFINE s == RmcOf(state)
<1>1. s \in RmcSentence /\ gps \in GpsData /\ now \in Millis
  BY ChipSentences DEF TrackerIInv, TrackerTypeOK
<1>2. s.active = HasFix(state) /\ s.coords = HasFix(state) /\ HasFix(state) \in BOOLEAN
  BY DEF RmcOf, HasFix
<1>3. /\ gps' = ProcessNmeaSentence(gps, s, now) /\ now' = now
      /\ age' = [j \in Kinds |-> IF j \in {"nmea", "rmc"} THEN 0 ELSE age[j]]
  BY DEF Rmc, Receive, Hear
<1>. HIDE DEF s
<1>4. /\ gps'.lastNmeaMs = now /\ gps'.lastRmcMs = now
      /\ gps'.lastGgaMs = gps.lastGgaMs /\ gps'.lastGsaMs = gps.lastGsaMs
      /\ gps'.hasFix = s.active /\ gps'.locationValid = (s.active /\ s.coords)
      /\ gps'.altitudeValid = gps.altitudeValid
      /\ gps'.satellitesUsed = gps.satellitesUsed
      /\ gps'.fixTypeValid = gps.fixTypeValid /\ gps'.fixType = gps.fixType
  BY <1>1, <1>3, RmcEffect
<1>5. Renewed("rmc")  BY <1>3, <1>4 DEF Renewed, Sentences, Stamp
<1>6. gps'.locationValid = HasFix(state)  BY <1>2, <1>4
<1>. QED  BY <1>2, <1>4, <1>5, <1>6

\* A GSA sentence agrees with the fix and location that were told before it.
LEMMA GsaArrives ==
    ASSUME TrackerIInv, NEW state \in {States[i] : i \in 1 .. 5}, Gsa(GsaOf(state))
    PROVE  /\ Renewed("gsa")
           /\ gps.locationValid = HasFix(state) =>
                gps'.hasFix = HasFix(state) /\ gps'.locationValid = HasFix(state)
           /\ gps'.altitudeValid = gps.altitudeValid
           /\ gps'.satellitesUsed = gps.satellitesUsed
           /\ gps'.fixTypeValid /\ gps'.fixType = state.fixMode
<1>. DEFINE s == GsaOf(state)
<1>1. s \in GsaSentence /\ gps \in GpsData /\ now \in Millis
  BY ChipSentences DEF TrackerIInv, TrackerTypeOK
<1>2. /\ state.fixMode \in {0, 2, 3} /\ (HasFix(state) <=> state.fixMode # 0)
      /\ s.fixType = IF HasFix(state) THEN state.fixMode ELSE 1
  BY ChipStates DEF GsaOf, HasFix
<1>3. gps' = ProcessNmeaSentence(gps, s, now)  BY DEF Gsa, Receive
<1>4. /\ now' = now
      /\ age' = [j \in Kinds |-> IF j \in {"nmea", "gsa"} THEN 0 ELSE age[j]]
  BY DEF Gsa, Receive, Hear
<1>. HIDE DEF s
<1>5. /\ gps'.lastNmeaMs = now /\ gps'.lastGsaMs = now
      /\ gps'.lastGgaMs = gps.lastGgaMs /\ gps'.lastRmcMs = gps.lastRmcMs
  BY <1>1, <1>3, GsaEffect
<1>6. /\ gps'.altitudeValid = gps.altitudeValid
      /\ gps'.satellitesUsed = gps.satellitesUsed
  BY <1>1, <1>3, GsaEffect
<1>7. s.fixType >= 1 => gps'.fixTypeValid  BY <1>1, <1>3, GsaEffect
<1>8. s.fixType \in {2, 3} => /\ gps'.hasFix = TRUE
                              /\ gps'.locationValid = gps.locationValid
                              /\ gps'.fixType = s.fixType
  <2>1. s.fixType \in {2, 3} => gps'.hasFix = TRUE  BY <1>1, <1>3, GsaEffect
  <2>2. s.fixType \in {2, 3} => gps'.locationValid = gps.locationValid
    BY <1>1, <1>3, GsaEffect
  <2>3. s.fixType \in {2, 3} => gps'.fixType = s.fixType  BY <1>1, <1>3, GsaEffect
  <2>. QED  BY <2>1, <2>2, <2>3
<1>9. s.fixType \notin {2, 3} => /\ gps'.hasFix = FALSE
                                 /\ gps'.locationValid = FALSE
                                 /\ gps'.fixType = 0
  BY <1>1, <1>3, GsaEffect DEF GsaSentence
<1>10. Renewed("gsa")  BY <1>4, <1>5 DEF Renewed, Sentences, Stamp
<1>11. HasFix(state) \in BOOLEAN  BY DEF HasFix
<1>12. CASE HasFix(state)
  <2>1. s.fixType = state.fixMode /\ state.fixMode \in {2, 3} /\ state.fixMode >= 1
    BY <1>2, <1>12
  <2>. QED  BY <1>6, <1>7, <1>8, <1>10, <1>11, <1>12, <2>1
<1>13. CASE ~HasFix(state)
  <2>1. s.fixType = 1 /\ state.fixMode = 0 /\ 1 \notin {2, 3} /\ 1 >= 1
    BY <1>2, <1>13
  <2>. QED  BY <1>6, <1>7, <1>9, <1>10, <1>11, <1>13, <2>1
<1>. QED  BY <1>12, <1>13

DueBounded == \A k \in Sentences : Due(k) \in 0 .. SendPeriod + Transit

LEMMA DueType == ChipOK => DueBounded
<1>. SUFFICES ASSUME ChipOK, NEW k \in Sentences PROVE Due(k) \in 0 .. SendPeriod + Transit
  BY DEF DueBounded
<1>1. timer \in 0 .. SendPeriod /\ transit \in 0 .. Transit  BY DEF ChipOK
<1>. QED  BY <1>1, BenchAssumption, ChipAssumption DEF Due

AllAwaited == \A k \in Sentences : Awaited(k)

\* After a change or a loss the receiver is waited for from the start.
LEMMA FromTheStart == ChipOK /\ steady = 0 => AllAwaited
BY DueType, BenchAssumption, ChipAssumption DEF Awaited, AllAwaited, DueBounded

LEMMA HeardStarts == Init => HeardOK
<1>. SUFFICES ASSUME Init PROVE HeardOK  OBVIOUS
<1>1. ~resolved.transmit  BY DEF Init, ChipInit, States, MakeState
<1>2. \A k \in Sentences : age[k] > Timeout
  BY SilenceAssumption, ClockAssumption
  DEF Init, RuntimeInit, TrackerInit, Sentences, Kinds, Never
<1>3. gps.lastNmeaMs = Stamp("gga") /\ age["nmea"] = age["gga"]
  BY DEF Init, RuntimeInit, TrackerInit, InitialGpsData, Stamp, Kinds
<1>. QED  BY <1>1, <1>2, <1>3 DEF HeardOK, Sentences

\* What HeardOK takes from the tracker; `steady' may only start again.
LEMMA HeardKept ==
    ASSUME HeardOK, ChipOK, ChipOK', UNCHANGED trackerVars, UNCHANGED resolved,
           PaceOK, steady' = 0 \/ (steady' = steady /\ \A k \in Sentences : Due(k)' = Due(k)),
           TrackerIInv
    PROVE  HeardOK'
<1>1. \A k \in Sentences : Stamp(k)' = Stamp(k) /\ age'[k] = age[k] /\ Said(k)' = Said(k)
  BY DEF trackerVars, Stamp, Said, FixAgrees
<1>2. \E k \in Sentences : gps'.lastNmeaMs = Stamp(k)' /\ age'["nmea"] = age'[k]
  <2>1. PICK k \in Sentences : gps.lastNmeaMs = Stamp(k) /\ age["nmea"] = age[k]
    BY DEF HeardOK
  <2>. QED  BY <1>1, <2>1 DEF trackerVars
<1>3. \A k \in Sentences : age[k] \in Nat
  BY DEF TrackerIInv, TrackerTypeOK, Sentences, Kinds, Never
<1>4. CASE steady' = 0
  <2>1. (ChipOK /\ steady = 0 => AllAwaited)'  BY FromTheStart, PTL
  <2>. QED  BY <1>1, <1>2, <1>3, <1>4, <2>1 DEF HeardOK, AllAwaited
<1>5. CASE steady' = steady /\ \A k \in Sentences : Due(k)' = Due(k)
  <2>1. \A k \in Sentences : Awaited(k)' = Awaited(k) /\ Heard(k)' = Heard(k)
    BY <1>1, <1>5 DEF Awaited, Heard
  <2>. QED  BY <1>1, <1>2, <1>5, <2>1 DEF HeardOK
<1>. QED  BY <1>4, <1>5

LEMMA HeardSends ==
    ASSUME HeardOK, ChipOK, ChipOK', PaceOK, TrackerIInv, Send
    PROVE  HeardOK'
<1>1. UNCHANGED trackerVars /\ timer = 0 /\ timer' = SendPeriod /\ transit' = 0
  BY DEF Send, SendNmeaFrame
<1>2. line = << >>  BY <1>1, SendsApart
<1>3. CASE resolved' = resolved
  <2>1. steady' = steady  BY <1>3 DEF Send
  <2>2. CASE resolved.transmit
    <3>1. line' = Remainder(resolved, 3)
      BY <1>2, <1>3, <2>2 DEF Send, SendNmeaFrame, Remainder
    <3>2. Len(line') = 3 /\ Len(line) = 0  BY <1>2, <3>1, RemainderShape
    <3>3. \A k \in Sentences : Due(k)' = Due(k)
      BY <1>1, <3>2, BenchAssumption, ChipAssumption DEF Due, OnLine, Sentences
    <3>. QED  BY <1>1, <1>3, <2>1, <3>3, HeardKept
  <2>3. CASE ~resolved.transmit
    <3>. QED  BY <1>1, <1>3, <2>1, <2>3 DEF HeardOK, trackerVars, Stamp
  <2>. QED  BY <2>2, <2>3
<1>4. CASE resolved' # resolved
  <2>1. steady' = 0  BY <1>4 DEF Send
  <2>2. (ChipOK /\ steady = 0 => AllAwaited)'  BY FromTheStart, PTL
  <2>3. \A k \in Sentences : age'[k] = age[k] /\ age[k] \in Nat /\ Stamp(k)' = Stamp(k)
    BY <1>1 DEF trackerVars, Stamp, TrackerIInv, TrackerTypeOK, Sentences, Kinds, Never
  <2>4. \E k \in Sentences : gps'.lastNmeaMs = Stamp(k)' /\ age'["nmea"] = age'[k]
    BY <1>1, <2>3 DEF HeardOK, trackerVars
  <2>. QED  BY <2>1, <2>2, <2>3, <2>4 DEF HeardOK, AllAwaited
<1>. QED  BY <1>3, <1>4

\* The sentence that arrives is the receiver's next, and is handled as such.
LEMMA NextArrives ==
    ASSUME ChipOK, TrackerIInv, Arrive
    PROVE  \E k \in Sentences :
             /\ Renewed(k) /\ Said(k)'
             /\ \A j \in Sentences \ {k} : /\ OnLine(j)' = OnLine(j)
                                           /\ Said(j) => Said(j)'
<1>1. /\ line # << >> /\ HandleSentence(Head(line)) /\ line' = Tail(line)
      /\ resolved' = resolved
  BY DEF Arrive, chipVars
<1>2. /\ Len(line) \in 1 .. 3 /\ Len(line') = Len(line) - 1
      /\ Len(line) = 3 => Head(line) = GgaOf(resolved)
      /\ Len(line) = 2 => Head(line) = RmcOf(resolved)
      /\ Len(line) = 1 => Head(line) = GsaOf(resolved)
  <2>1. /\ Len(line) \in 0 .. 3 /\ Len(line) # 0
        /\ Len(line') = Len(line) - 1
        /\ Head(line) = CASE Len(line) = 3 -> GgaOf(resolved)
                          [] Len(line) = 2 -> RmcOf(resolved)
                          [] Len(line) = 1 -> GsaOf(resolved)
    BY <1>1, LineShape
  <2>2. Len(line) = 3 => Head(line) = GgaOf(resolved)  BY <2>1
  <2>3. Len(line) = 2 => Head(line) = RmcOf(resolved)  BY <2>1
  <2>4. Len(line) = 1 => Head(line) = GsaOf(resolved)  BY <2>1
  <2>. QED  BY <2>1, <2>2, <2>3, <2>4
<1>3. resolved \in {States[i] : i \in 1 .. 5}  BY DEF ChipOK
<1>4. CASE Len(line) = 3
  <2>1. Gga(GgaOf(resolved))  BY <1>1, <1>2, <1>3, <1>4, Handled
  <2>2. /\ Renewed("gga")
        /\ gps'.hasFix = HasFix(resolved) /\ gps'.locationValid = HasFix(resolved)
        /\ gps'.altitudeValid /\ gps'.satellitesUsed = resolved.sats
        /\ gps'.fixTypeValid = gps.fixTypeValid /\ gps'.fixType = gps.fixType
    BY <1>3, <2>1, GgaArrives
  <2>3. Said("gga")'  BY <1>1, <2>2 DEF Said, FixAgrees
  <2>4. ASSUME NEW j \in Sentences \ {"gga"}
        PROVE  OnLine(j)' = OnLine(j) /\ (Said(j) => Said(j)')
    <3>1. OnLine(j)' = OnLine(j)  BY <1>2, <1>4 DEF OnLine, Sentences
    <3>2. Said(j) => Said(j)'  BY <1>1, <2>2 DEF Said, FixAgrees, Sentences
    <3>. QED  BY <3>1, <3>2
  <2>. QED  BY <2>2, <2>3, <2>4 DEF Sentences
<1>5. CASE Len(line) = 2
  <2>1. Rmc(RmcOf(resolved))  BY <1>1, <1>2, <1>3, <1>5, Handled
  <2>2. /\ Renewed("rmc")
        /\ gps'.hasFix = HasFix(resolved) /\ gps'.locationValid = HasFix(resolved)
        /\ gps'.altitudeValid = gps.altitudeValid
        /\ gps'.satellitesUsed = gps.satellitesUsed
        /\ gps'.fixTypeValid = gps.fixTypeValid /\ gps'.fixType = gps.fixType
    BY <1>3, <2>1, RmcArrives
  <2>3. Said("rmc")'  BY <1>1, <2>2 DEF Said, FixAgrees
  <2>4. ASSUME NEW j \in Sentences \ {"rmc"}
        PROVE  OnLine(j)' = OnLine(j) /\ (Said(j) => Said(j)')
    <3>1. OnLine(j)' = OnLine(j)  BY <1>2, <1>5 DEF OnLine, Sentences
    <3>2. Said(j) => Said(j)'  BY <1>1, <2>2 DEF Said, FixAgrees, Sentences
    <3>. QED  BY <3>1, <3>2
  <2>. QED  BY <2>2, <2>3, <2>4 DEF Sentences
<1>6. CASE Len(line) = 1
  <2>1. Gsa(GsaOf(resolved))  BY <1>1, <1>2, <1>3, <1>6, Handled
  <2>2. /\ Renewed("gsa")
        /\ gps.locationValid = HasFix(resolved) =>
             gps'.hasFix = HasFix(resolved) /\ gps'.locationValid = HasFix(resolved)
        /\ gps'.altitudeValid = gps.altitudeValid
        /\ gps'.satellitesUsed = gps.satellitesUsed
        /\ gps'.fixTypeValid /\ gps'.fixType = resolved.fixMode
    BY <1>3, <2>1, GsaArrives
  <2>3. Said("gsa")'  BY <1>1, <2>2 DEF Said
  <2>4. ASSUME NEW j \in Sentences \ {"gsa"}
        PROVE  OnLine(j)' = OnLine(j) /\ (Said(j) => Said(j)')
    <3>1. OnLine(j)' = OnLine(j)  BY <1>2, <1>6 DEF OnLine, Sentences
    <3>2. Said(j) => Said(j)'  BY <1>1, <2>2 DEF Said, FixAgrees, Sentences
    <3>. QED  BY <3>1, <3>2
  <2>. QED  BY <2>2, <2>3, <2>4 DEF Sentences
<1>. QED  BY <1>2, <1>4, <1>5, <1>6

LEMMA HeardArrives ==
    ASSUME HeardOK, ChipOK, ChipOK', TrackerIInv, Arrive
    PROVE  HeardOK'
<1>1. /\ resolved' = resolved /\ resolved.transmit
      /\ UNCHANGED <<timer, transit>>
      /\ steady' = IF now = 0 THEN 0 ELSE steady
  BY DEF Arrive, chipVars, ChipOK
<1>2. PICK k \in Sentences :
         /\ Renewed(k) /\ Said(k)'
         /\ \A j \in Sentences \ {k} : /\ OnLine(j)' = OnLine(j)
                                       /\ Said(j) => Said(j)'
  BY NextArrives
<1>3. \E j \in Sentences : gps'.lastNmeaMs = Stamp(j)' /\ age'["nmea"] = age'[j]
  BY <1>2 DEF Renewed, Kinds, Sentences
<1>4. CASE now = 0
  <2>1. (ChipOK /\ steady = 0 => AllAwaited)'  BY FromTheStart, PTL
  <2>. QED  BY <1>1, <1>3, <1>4, <2>1 DEF HeardOK, AllAwaited
<1>5. CASE now # 0
  <2>1. (ChipOK => DueBounded)'  BY DueType, PTL
  <2>2. Heard(k)'
    <3>1. age'[k] = 0 /\ Stamp(k)' = now  BY <1>2 DEF Renewed, Kinds, Sentences
    <3>2. Due(k)' \in 0 .. SendPeriod + Transit  BY <2>1 DEF DueBounded
    <3>. QED
      BY <1>2, <1>5, <3>1, <3>2, BenchAssumption, ChipAssumption DEF Heard
  <2>3. ASSUME NEW j \in Sentences \ {k} PROVE Awaited(j)' \/ Heard(j)'
    <3>1. age'[j] = age[j] /\ Stamp(j)' = Stamp(j)
      BY <1>2 DEF Renewed, Kinds, Sentences
    <3>2. Due(j)' = Due(j)  BY <1>1, <1>2 DEF Due
    <3>3. steady' = steady  BY <1>1, <1>5
    <3>4. Awaited(j) \/ Heard(j)  BY <1>1 DEF HeardOK
    <3>. QED  BY <1>2, <3>1, <3>2, <3>3, <3>4 DEF Awaited, Heard
  <2>. QED  BY <1>1, <1>3, <2>2, <2>3 DEF HeardOK
<1>. QED  BY <1>4, <1>5

\* A sentence that fails its checksum moves the counters only.
LEMMA HeardDamaged ==
    ASSUME HeardOK, ChipOK, ChipOK', TrackerIInv, ArriveDamaged
    PROVE  HeardOK'
<1>. DEFINE s == [type |-> "Corrupt"]
<1>1. /\ resolved' = resolved /\ resolved.transmit /\ steady' = 0
      /\ HandleSentence(s)
  BY DEF ArriveDamaged, chipVars, ChipOK
<1>2. s \in OtherSentence /\ Other(s)
  BY <1>1 DEF HandleSentence, OtherSentence, GgaSentence, RmcSentence, GsaSentence
<1>3. gps \in GpsData /\ now \in Millis  BY DEF TrackerIInv, TrackerTypeOK
<1>4. gps' = ProcessNmeaSentence(gps, s, now) /\ s.type = "Corrupt"
  BY <1>2 DEF Other, Receive
<1>5. age' = [j \in Kinds |-> age[j]]  BY <1>2 DEF Other, Hear
<1>. HIDE DEF s
<1>6. SamePosition(gps', gps) /\ gps'.lastNmeaMs = gps.lastNmeaMs
  BY <1>2, <1>3, <1>4, OtherEffect
<1>7. \E k \in Sentences : gps'.lastNmeaMs = Stamp(k)' /\ age'["nmea"] = age'[k]
  <2>1. PICK k \in Sentences : gps.lastNmeaMs = Stamp(k) /\ age["nmea"] = age[k]
    BY DEF HeardOK
  <2>2. Stamp(k)' = Stamp(k)  BY <1>6 DEF Stamp, SamePosition, Sentences
  <2>. QED  BY <1>5, <1>6, <2>1, <2>2 DEF Kinds, Sentences
<1>8. (ChipOK /\ steady = 0 => AllAwaited)'  BY FromTheStart, PTL
<1>. QED  BY <1>1, <1>7, <1>8 DEF HeardOK, AllAwaited

LEMMA HeardTicks ==
    ASSUME HeardOK, ChipOK, PaceOK, TrackerIInv, Tick
    PROVE  HeardOK'
<1>1. /\ gps' = gps /\ resolved' = resolved /\ line' = line
      /\ timer > 0 /\ timer' = timer - 1
      /\ line # << >> => transit < Transit
      /\ transit' = IF line = << >> THEN 0 ELSE transit + 1
      /\ steady' = IF steady < Settled THEN steady + 1 ELSE steady
      /\ age' = [j \in Kinds |-> IF age[j] = Never THEN Never ELSE age[j] + 1]
  BY DEF Tick, AdvanceMillis
<1>2. /\ timer \in 0 .. SendPeriod /\ transit \in 0 .. Transit
      /\ line = << >> <=> Len(line) = 0
      /\ Len(line) \in 0 .. 3
  BY LineShape DEF ChipOK
<1>3. ASSUME NEW k \in Sentences
      PROVE  /\ Due(k) = Due(k)' + 1 /\ Due(k)' \in Nat
             /\ Stamp(k)' = Stamp(k) /\ Said(k)' = Said(k)
             /\ age[k] \in 0 .. Never
             /\ age'[k] = IF age[k] = Never THEN Never ELSE age[k] + 1
  <2>1. OnLine(k)' = OnLine(k) /\ (OnLine(k) => Len(line) # 0)
    BY <1>1, <1>2 DEF OnLine, Sentences
  <2>2. Due(k) = Due(k)' + 1 /\ Due(k)' \in Nat
    BY <1>1, <1>2, <2>1, BenchAssumption, ChipAssumption DEF Due
  <2>3. Stamp(k)' = Stamp(k) /\ Said(k)' = Said(k)  BY <1>1 DEF Stamp, Said, FixAgrees
  <2>4. k \in Kinds /\ age[k] \in 0 .. Never
    BY DEF TrackerIInv, TrackerTypeOK, Kinds, Sentences
  <2>. QED  BY <1>1, <2>2, <2>3, <2>4
<1>4. steady \in 0 .. Settled /\ Settled \in Nat /\ Never \in Nat /\ Timeout < Never
  BY ClockAssumption, SilenceAssumption, IntervalAssumption DEF PaceOK, Settled, Never
<1>5. ASSUME NEW k \in Sentences, Awaited(k) \/ Heard(k) PROVE Awaited(k)' \/ Heard(k)'
  <2>1. steady' <= steady + 1 /\ steady' \in Nat  BY <1>1, <1>4
  <2>2. age'[k] <= age[k] + 1 /\ age'[k] \in Nat /\ age[k] \in Nat  BY <1>3, <1>4
  <2>3. SendPeriod + Transit \in Nat  BY BenchAssumption, ChipAssumption
  <2>4. Due(k) = Due(k)' + 1 /\ Due(k)' \in Nat  BY <1>3
  <2>5. CASE Awaited(k)  BY <1>4, <2>1, <2>3, <2>4, <2>5 DEF Awaited
  <2>6. CASE Heard(k)
    <3>1. age'[k] + Due(k)' <= SendPeriod + Transit  BY <2>2, <2>3, <2>4, <2>6 DEF Heard
    <3>. QED  BY <1>3, <2>6, <3>1 DEF Heard
  <2>. QED  BY <1>5, <2>5, <2>6
<1>6. ASSUME NEW k \in Sentences, age[k] > Timeout \/ age[k] >= steady
      PROVE  age'[k] > Timeout \/ age'[k] >= steady'
  <2>1. steady' <= steady + 1 /\ steady' \in Nat  BY <1>1, <1>4
  <2>2. /\ age[k] \in 0 .. Never
        /\ age'[k] = IF age[k] = Never THEN Never ELSE age[k] + 1
    BY <1>3
  <2>. QED  BY <1>4, <1>6, <2>1, <2>2, ClockAssumption
<1>7. \E k \in Sentences : gps'.lastNmeaMs = Stamp(k)' /\ age'["nmea"] = age'[k]
  <2>1. PICK k \in Sentences : gps.lastNmeaMs = Stamp(k) /\ age["nmea"] = age[k]
    BY DEF HeardOK
  <2>. QED  BY <1>1, <1>3, <2>1 DEF Kinds
<1>. QED  BY <1>1, <1>5, <1>6, <1>7 DEF HeardOK

LEMMA HeardSteps ==
    ASSUME HeardOK, ChipOK, ChipOK', PaceOK, TrackerIInv, [Next]_vars
    PROVE  HeardOK'
<1>1. CASE Send  BY <1>1, HeardSends
<1>2. CASE Select
  <2>1. /\ UNCHANGED <<trackerVars, resolved, steady, line, timer, transit>>
    BY <1>2 DEF Select, SelectScenario, benchVars
  <2>2. \A k \in Sentences : Due(k)' = Due(k)  BY <2>1 DEF Due, OnLine
  <2>. QED  BY <2>1, <2>2, HeardKept
<1>3. CASE Arrive  BY <1>3, HeardArrives
<1>4. CASE ArriveDamaged  BY <1>4, HeardDamaged
<1>5. CASE Lose
  <2>1. UNCHANGED <<trackerVars, resolved>> /\ steady' = 0  BY <1>5 DEF Lose, chipVars
  <2>. QED  BY <2>1, HeardKept
<1>6. CASE Loop
  <2>1. UNCHANGED <<trackerVars, resolved, steady, line, timer, transit>>
    BY <1>6 DEF Loop, Present, chipVars
  <2>2. \A k \in Sentences : Due(k)' = Due(k)  BY <2>1 DEF Due, OnLine
  <2>. QED  BY <2>1, <2>2, HeardKept
<1>7. CASE Tick  BY <1>7, HeardTicks
<1>8. CASE UNCHANGED vars
  <2>1. UNCHANGED <<trackerVars, resolved, steady, line, timer, transit>>
    BY <1>8 DEF vars, chipVars, benchVars
  <2>2. \A k \in Sentences : Due(k)' = Due(k)  BY <2>1 DEF Due, OnLine
  <2>. QED  BY <2>1, <2>2, HeardKept
<1>. QED  BY <1>1, <1>2, <1>3, <1>4, <1>5, <1>6, <1>7, <1>8 DEF Next

-----------------------------------------------------------------------------
(* What the state says once the receiver has said the same long enough. *)

\* A receiver that transmits is fresh in every kind.
LEMMA TransmitterIsFresh ==
    ASSUME TrackerIInv, ChipOK, PaceOK, HeardOK, steady >= Ready, resolved.transmit
    PROVE  /\ IsRecent(now, gps.lastGgaMs) /\ IsRecent(now, gps.lastRmcMs)
           /\ IsRecent(now, gps.lastGsaMs) /\ FreshNmea(gps, now)
           /\ \A k \in Sentences : Said(k)
<1>1. ASSUME NEW k \in Sentences PROVE IsRecent(now, Stamp(k)) /\ Said(k)
  <2>1. Due(k) \in 0 .. SendPeriod + Transit  BY DueType DEF DueBounded
  <2>2. steady \in Nat /\ age[k] \in Nat /\ k \in Kinds
    BY IntervalAssumption, ClockAssumption
    DEF PaceOK, Settled, TrackerIInv, TrackerTypeOK, Kinds, Sentences, Never
  <2>3. ~Awaited(k)
    BY <2>1, <2>2, BenchAssumption, ChipAssumption, ClockAssumption DEF Awaited, Ready
  <2>4. Heard(k)  BY <2>3 DEF HeardOK
  <2>5. age[k] <= Timeout
    BY <2>1, <2>2, <2>4, BenchAssumption, ChipAssumption, ClockAssumption DEF Heard
  <2>. QED  BY <2>2, <2>4, <2>5, IInvFreshness DEF Heard, FreshnessIsExact
<1>2. PICK k \in Sentences : gps.lastNmeaMs = Stamp(k)  BY DEF HeardOK
<1>3. IsRecent(now, gps.lastNmeaMs)  BY <1>1, <1>2
<1>4. gps.nmeaValid  BY <1>3 DEF IsRecent, TrackerIInv, NmeaIsYoungest
<1>. QED  BY <1>1, <1>3, <1>4 DEF Sentences, Stamp, FreshNmea

\* One that has stopped is stale in every kind.
LEMMA SilentIsStale ==
    ASSUME TrackerIInv, ChipOK, PaceOK, HeardOK, steady >= Ready, ~resolved.transmit
    PROVE  /\ ~IsRecent(now, gps.lastGgaMs) /\ ~IsRecent(now, gps.lastRmcMs)
           /\ ~IsRecent(now, gps.lastGsaMs) /\ ~FreshNmea(gps, now)
<1>1. ASSUME NEW k \in Sentences PROVE ~IsRecent(now, Stamp(k))
  <2>1. steady \in Nat /\ age[k] \in Nat /\ k \in Kinds
    BY IntervalAssumption, ClockAssumption
    DEF PaceOK, Settled, TrackerIInv, TrackerTypeOK, Kinds, Sentences, Never
  <2>2. age[k] > Timeout \/ age[k] >= steady  BY DEF HeardOK
  <2>3. ~(age[k] <= Timeout)  BY <2>1, <2>2, ClockAssumption DEF Ready
  <2>. QED  BY <2>1, <2>3, IInvFreshness DEF FreshnessIsExact
<1>2. PICK k \in Sentences : gps.lastNmeaMs = Stamp(k)  BY DEF HeardOK
<1>. QED  BY <1>1, <1>2 DEF Sentences, Stamp, FreshNmea

\* What is shown of the state is what the receiver says.
LEMMA StateTells ==
    ASSUME TrackerIInv, ChipOK, PaceOK, HeardOK, steady >= Ready
    PROVE  LET fix == resolved.transmit /\ HasFix(resolved) IN
           /\ DiagnosticState(gps, now) = ExpectedState(resolved)
           /\ FreshNmea(gps, now) <=> resolved.transmit
           /\ UsablePosition(gps, now) <=> fix
           /\ FixTypeToText(gps, now) =
                IF ~fix THEN "NONE" ELSE IF resolved.fixMode = 2 THEN "2D" ELSE "3D"
           /\ UsableAltitude(gps, now) <=> fix /\ resolved.fixMode = 3
<1>1. /\ resolved.transmit \in BOOLEAN /\ resolved.fixMode \in {0, 2, 3}
      /\ HasFix(resolved) <=> resolved.fixMode # 0
  BY ChipStates DEF ChipOK, HasFix
<1>2. CASE resolved.transmit
  <2>1. /\ IsRecent(now, gps.lastGgaMs) /\ IsRecent(now, gps.lastRmcMs)
        /\ IsRecent(now, gps.lastGsaMs) /\ FreshNmea(gps, now)
        /\ gps.satellitesUsed = resolved.sats /\ gps.altitudeValid
        /\ gps.hasFix = HasFix(resolved) /\ gps.locationValid = HasFix(resolved)
        /\ gps.fixTypeValid /\ gps.fixType = resolved.fixMode
    BY <1>2, TransmitterIsFresh DEF Said, FixAgrees, Sentences
  <2>2. UsablePosition(gps, now) <=> HasFix(resolved)
    BY <2>1 DEF UsablePosition, CurrentFix, FreshFixSource, FreshPositionSource
  <2>3. CurrentFix(gps, now) <=> HasFix(resolved)
    BY <2>1 DEF CurrentFix, FreshFixSource, FreshPositionSource
  <2>4. Fresh2D(gps, now) <=> resolved.fixMode = 2  BY <2>1 DEF Fresh2D
  <2>5. DiagnosticState(gps, now) = ExpectedState(resolved)
    BY <1>2, <2>1, <2>2, <2>4 DEF DiagnosticState, ExpectedState
  <2>6. FixTypeToText(gps, now) = IF ~HasFix(resolved) THEN "NONE"
                                  ELSE IF resolved.fixMode = 2 THEN "2D" ELSE "3D"
    BY <1>1, <2>1, <2>3 DEF FixTypeToText
  <2>7. UsableAltitude(gps, now) <=> HasFix(resolved) /\ resolved.fixMode = 3
    BY <1>1, <2>1, <2>2, <2>4 DEF UsableAltitude
  <2>. QED  BY <1>2, <2>1, <2>2, <2>5, <2>6, <2>7
<1>3. CASE ~resolved.transmit
  <2>1. /\ ~IsRecent(now, gps.lastGgaMs) /\ ~IsRecent(now, gps.lastRmcMs)
        /\ ~IsRecent(now, gps.lastGsaMs) /\ ~FreshNmea(gps, now)
    BY <1>3, SilentIsStale
  <2>2. ~CurrentFix(gps, now) /\ ~UsablePosition(gps, now) /\ ~UsableAltitude(gps, now)
    BY <2>1 DEF CurrentFix, FreshFixSource, FreshPositionSource, UsablePosition, UsableAltitude
  <2>3. DiagnosticState(gps, now) = "NoData" /\ ExpectedState(resolved) = "NoData"
    BY <1>3, <2>1 DEF DiagnosticState, ExpectedState
  <2>4. FixTypeToText(gps, now) = "NONE"  BY <2>2 DEF FixTypeToText
  <2>. QED  BY <1>3, <2>1, <2>2, <2>3, <2>4
<1>. QED  BY <1>1, <1>2, <1>3

\* The LEDs and a report that are made then tell it.
LEMMA PresentedTells ==
    ASSUME TrackerIInv, ChipOK, PaceOK, HeardOK, steady >= Ready, resolved' = resolved
    PROVE  /\ leds' = BuildLedPattern(gps, now) => LedsTell'
           /\ report' = ParsedState(gps, now) => ReportTells'
<1>1. /\ FreshNmea(gps, now) \in BOOLEAN /\ resolved.transmit \in BOOLEAN
      /\ UsablePosition(gps, now) \in BOOLEAN /\ UsableAltitude(gps, now) \in BOOLEAN
      /\ (resolved.transmit /\ HasFix(resolved)) \in BOOLEAN
      /\ (resolved.transmit /\ HasFix(resolved) /\ resolved.fixMode = 3) \in BOOLEAN
  BY ChipStates DEF ChipOK, HasFix, FreshNmea, UsablePosition, UsableAltitude
<1>2. FreshNmea(gps, now) = resolved.transmit  BY <1>1, StateTells
<1>3. UsablePosition(gps, now) = (resolved.transmit /\ HasFix(resolved))
  BY <1>1, StateTells
<1>4. UsableAltitude(gps, now)
        = (resolved.transmit /\ HasFix(resolved) /\ resolved.fixMode = 3)
  BY <1>1, StateTells
<1>5. DiagnosticState(gps, now) = ExpectedState(resolved)  BY StateTells
<1>6. FixTypeToText(gps, now) = IF ~(resolved.transmit /\ HasFix(resolved)) THEN "NONE"
                                ELSE IF resolved.fixMode = 2 THEN "2D" ELSE "3D"
  BY StateTells
<1>7. leds' = BuildLedPattern(gps, now) => LedsTell'
  BY <1>2, <1>5 DEF BuildLedPattern, LedsTell
<1>8. ASSUME report' = ParsedState(gps, now) PROVE ReportTells'
  <2>1. /\ report'.state = DiagnosticState(gps, now)
        /\ report'.valid = UsablePosition(gps, now)
        /\ report'.fixType = FixTypeToText(gps, now)
        /\ report'.altitude = UsableAltitude(gps, now)
    BY <1>8 DEF ParsedState
  <2>. QED  BY <1>3, <1>4, <1>5, <1>6, <2>1 DEF ReportTells
<1>. QED  BY <1>7, <1>8

\* Presenting nothing leaves what is presented, however `steady' starts again.
LEMMA PresentedKept ==
    ASSUME PresentedOK, PaceOK, UNCHANGED <<leds, report, sinceLoop, sinceReport>>,
           steady' = 0 \/ (steady' = steady /\ resolved' = resolved)
    PROVE  PresentedOK'
<1>1. CASE steady' = 0
  <2>1. ~(steady' >= sinceLoop' + Ready) /\ ~(steady' >= sinceReport' + Ready)
    BY <1>1, ClockAssumption, IntervalAssumption DEF PaceOK, Ready
  <2>. QED  BY <2>1 DEF PresentedOK
<1>2. CASE steady' = steady /\ resolved' = resolved
  BY <1>2 DEF PresentedOK, LedsTell, ReportTells
<1>. QED  BY <1>1, <1>2

LEMMA PresentedLoops ==
    ASSUME PresentedOK, PaceOK, ChipOK, HeardOK, TrackerIInv, Loop
    PROVE  PresentedOK'
<1>1. /\ leds' = BuildLedPattern(gps, now)
      /\ resolved' = resolved /\ steady' = steady /\ sinceLoop' = 0
      /\ IF ReportDue THEN sinceReport' = 0 /\ report' = ParsedState(gps, now)
                      ELSE sinceReport' = sinceReport /\ report' = report
  BY DEF Loop, Present, ReportParsedState, chipVars
<1>2. steady' >= sinceLoop' + Ready => LedsTell'
  BY <1>1, PresentedTells, ClockAssumption DEF Ready
<1>3. steady' >= sinceReport' + Ready => ReportTells'
  <2>1. CASE ReportDue
    BY <1>1, <2>1, PresentedTells, ClockAssumption DEF Ready
  <2>2. CASE ~ReportDue
    BY <1>1, <2>2 DEF PresentedOK, ReportTells
  <2>. QED  BY <2>1, <2>2
<1>. QED  BY <1>2, <1>3 DEF PresentedOK

LEMMA PresentedTicks ==
    ASSUME PresentedOK, PaceOK, Tick
    PROVE  PresentedOK'
<1>1. /\ leds' = leds /\ report' = report /\ resolved' = resolved
      /\ sinceLoop = 0 /\ sinceLoop' = 1 /\ sinceReport' = sinceReport + 1
      /\ steady' = IF steady < Settled THEN steady + 1 ELSE steady
  BY DEF Tick, runtimeVars
<1>2. steady \in Nat /\ sinceReport \in Nat /\ Settled \in Nat /\ Ready \in Nat
  BY ClockAssumption, IntervalAssumption DEF PaceOK, Settled, Ready
<1>3. steady' <= steady + 1 /\ steady' \in Nat  BY <1>1, <1>2
<1>4. steady' >= sinceLoop' + Ready => steady >= sinceLoop + Ready  BY <1>1, <1>2, <1>3
<1>5. steady' >= sinceReport' + Ready => steady >= sinceReport + Ready
  BY <1>1, <1>2, <1>3
<1>6. LedsTell' = LedsTell /\ ReportTells' = ReportTells
  BY <1>1 DEF LedsTell, ReportTells
<1>. QED  BY <1>4, <1>5, <1>6 DEF PresentedOK

LEMMA PresentedSteps ==
    ASSUME PresentedOK, PaceOK, ChipOK, HeardOK, TrackerIInv, [Next]_vars
    PROVE  PresentedOK'
<1>1. CASE Send  BY <1>1, PresentedKept DEF Send, runtimeVars
<1>2. CASE Select
  BY <1>2, PresentedKept DEF Select, SelectScenario, runtimeVars, benchVars
<1>3. CASE Arrive
  BY <1>3, PresentedKept, HandlingTakesNoTime DEF Arrive, runtimeVars, chipVars
<1>4. CASE ArriveDamaged
  BY <1>4, PresentedKept, HandlingTakesNoTime DEF ArriveDamaged, runtimeVars
<1>5. CASE Lose  BY <1>5, PresentedKept DEF Lose, runtimeVars
<1>6. CASE Loop  BY <1>6, PresentedLoops
<1>7. CASE Tick  BY <1>7, PresentedTicks
<1>8. CASE UNCHANGED vars
  BY <1>8, PresentedKept DEF vars, runtimeVars, benchVars, chipVars
<1>. QED  BY <1>1, <1>2, <1>3, <1>4, <1>5, <1>6, <1>7, <1>8 DEF Next

LEMMA BenchStarts == Init => BenchIInv
<1>. SUFFICES ASSUME Init PROVE BenchIInv  OBVIOUS
<1>1. steady = 0 /\ sinceLoop = 0 /\ sinceReport = 1  BY DEF Init
<1>2. PresentedOK  BY <1>1, ClockAssumption DEF PresentedOK, Ready
<1>. QED  BY <1>2, ChipStarts, PaceStarts, HeardStarts DEF BenchIInv

LEMMA BenchSteps == BenchIInv /\ TrackerIInv /\ [Next]_vars => BenchIInv'
<1>. SUFFICES ASSUME BenchIInv, TrackerIInv, [Next]_vars PROVE BenchIInv'  OBVIOUS
<1>1. ChipOK'  BY ChipSteps DEF BenchIInv
<1>2. PaceOK'  BY PaceSteps DEF BenchIInv
<1>3. HeardOK'  BY <1>1, HeardSteps DEF BenchIInv
<1>4. PresentedOK'  BY PresentedSteps DEF BenchIInv
<1>. QED  BY <1>1, <1>2, <1>3, <1>4 DEF BenchIInv

LEMMA BenchAlways == Spec => []BenchIInv
<1>. QED  BY BenchStarts, BenchSteps, BenchTracked, PTL DEF Spec

(* Once the receiver has said the same for the time-out and one report    *)
(* more, the report, the display and the LEDs say what it says, wherever  *)
(* frame, loop, report and the wrap of the clock stand to one another.    *)
THEOREM ScenarioReported == Spec => []ScenarioIsReported
<1>1. ASSUME BenchIInv, DisplayAgreesWithReport PROVE ScenarioIsReported
  <2>. SUFFICES ASSUME steady = Settled PROVE ScenarioIsReported
    BY DEF ScenarioIsReported
  <2>. DEFINE fix == resolved.transmit /\ HasFix(resolved)
  <2>1. steady >= sinceLoop + Ready /\ steady >= sinceReport + Ready
    BY <1>1, ClockAssumption, IntervalAssumption DEF BenchIInv, PaceOK, Settled, Ready
  <2>2. LedsTell /\ ReportTells  BY <1>1, <2>1 DEF BenchIInv, PresentedOK
  <2>3. /\ report.state = ExpectedState(resolved) /\ report.valid = fix
        /\ report.fixType = IF ~fix THEN "NONE"
                            ELSE IF resolved.fixMode = 2 THEN "2D" ELSE "3D"
        /\ report.altitude = (fix /\ resolved.fixMode = 3)
    BY <2>2 DEF ReportTells
  <2>4. /\ leds.ok <=> ExpectedState(resolved) = "Ok"
        /\ leds.warning <=> ExpectedState(resolved) \in {"Degraded2D", "DegradedLowSat"}
        /\ leds.error <=> ExpectedState(resolved) \in {"NoData", "NoFix"}
    BY <2>2 DEF LedsTell
  <2>5. displayReady => display.state = ExpectedState(resolved)
    BY <1>1, <2>3 DEF DisplayAgreesWithReport
  <2>6. resolved.fixMode \in {0, 2, 3} /\ (fix <=> resolved.fixMode # 0)
    BY <1>1, ChipStates DEF BenchIInv, ChipOK, HasFix
  <2>7. /\ report.valid <=> fix
        /\ report.altitude <=> fix /\ resolved.fixMode = 3
    BY <2>3, Zenon
  <2>. HIDE DEF fix
  <2>8. CASE resolved.fixMode = 0
    <3>1. ~report.valid /\ ~report.altitude /\ report.fixType = "NONE"
      BY <2>3, <2>6, <2>7, <2>8
    <3>. QED  BY <2>3, <2>4, <2>5, <2>7, <2>8, <3>1 DEF ScenarioIsReported, fix
  <2>9. CASE resolved.fixMode = 2
    <3>1. report.valid /\ ~report.altitude /\ report.fixType = "2D"
      BY <2>3, <2>6, <2>7, <2>9
    <3>. QED  BY <2>3, <2>4, <2>5, <2>7, <2>9, <3>1 DEF ScenarioIsReported, fix
  <2>10. CASE resolved.fixMode = 3
    <3>1. report.valid /\ report.altitude /\ report.fixType = "3D"
      BY <2>3, <2>6, <2>7, <2>10
    <3>. QED  BY <2>3, <2>4, <2>5, <2>7, <2>10, <3>1 DEF ScenarioIsReported, fix
  <2>. QED  BY <2>6, <2>8, <2>9, <2>10
<1>. QED  BY <1>1, BenchAlways, DisplayAgrees, PTL

-----------------------------------------------------------------------------
(* Types. *)

LEMMA ParsedStateType ==
    ASSUME NEW g \in GpsData, NEW t \in Millis PROVE ParsedState(g, t) \in Reports
<1>1. DiagnosticState(g, t) \in DiagnosticStates \cup {Nothing}
  BY DEF DiagnosticState, DiagnosticStates
<1>2. /\ UsablePosition(g, t) \in BOOLEAN /\ FreshNmea(g, t) \in BOOLEAN
      /\ CurrentFix(g, t) \in BOOLEAN /\ UsableAltitude(g, t) \in BOOLEAN
  BY DEF UsablePosition, FreshNmea, CurrentFix, UsableAltitude
<1>3. FixTypeToText(g, t) \in {"NONE", "UNKNOWN", "2D", "3D"}  BY DEF FixTypeToText
<1>4. (IF IsRecent(t, g.lastGgaMs) THEN g.satellitesUsed ELSE 0) \in SatelliteCounts
  BY ParameterAssumption DEF GpsData
<1>. QED  BY <1>1, <1>2, <1>3, <1>4 DEF ParsedState, Reports

LEMMA DisplayModelType ==
    ASSUME NEW g \in GpsData, NEW t \in Millis PROVE BuildDisplayModel(g, t) \in Displays
<1>1. DiagnosticState(g, t) \in DiagnosticStates \cup {Nothing}
  BY DEF DiagnosticState, DiagnosticStates
<1>2. UsablePosition(g, t) \in BOOLEAN /\ UsableAltitude(g, t) \in BOOLEAN
  BY DEF UsablePosition, UsableAltitude
<1>3. FixTypeToDisplay(g, t) \in {"---", "NO", "YES", "2D", "3D"}
  BY DEF FixTypeToDisplay, FixTypeToText, CurrentFix
<1>4. (IF IsRecent(t, g.lastGgaMs) THEN {g.satellitesUsed} ELSE {}) \in SUBSET SatelliteCounts
  BY DEF GpsData
<1>5. DisplayAge(g, t) \in {"---", "STALE", "seconds"}  BY DEF DisplayAge
<1>. QED  BY <1>1, <1>2, <1>3, <1>4, <1>5 DEF BuildDisplayModel, Displays

LEMMA LedPatternType ==
    ASSUME NEW g, NEW t
    PROVE  BuildLedPattern(g, t)
             \in [data: BOOLEAN, error: BOOLEAN, warning: BOOLEAN, ok: BOOLEAN]
BY DEF BuildLedPattern, FreshNmea

LEMMA TypeStarts == Init => TypeOK
<1>. SUFFICES ASSUME Init PROVE TypeOK  OBVIOUS
<1>1. TrackerTypeOK  BY TrackerStarts DEF Init, RuntimeInit, TrackerIInv
<1>2. RuntimeTypeOK
  <2>1. BootScreen \in Displays  BY DEF BootScreen, Displays
  <2>2. NoReport \in Reports  BY ParameterAssumption DEF NoReport, Reports
  <2>3. AllOff \in [data: BOOLEAN, error: BOOLEAN, warning: BOOLEAN, ok: BOOLEAN]
    BY DEF AllOff
  <2>4. 0 \in Millis  BY ClockAssumption DEF Millis
  <2>. QED  BY <1>1, <2>1, <2>2, <2>3, <2>4 DEF Init, RuntimeInit, RuntimeTypeOK
<1>3. /\ scenario \in Scenarios /\ changes \in 0 .. MaxChanges
      /\ seconds \in Cycle /\ timer \in 0 .. SendPeriod
  BY ChipAssumption DEF Init, ChipInit, Cycle
<1>4. Len(line) <= 3  BY DEF Init, ChipInit
<1>5. /\ transit \in 0 .. Transit /\ faults \in 0 .. MaxFaults
      /\ sinceLoop \in 0 .. 1 /\ sinceReport \in Nat /\ steady \in 0 .. Settled
  BY BenchAssumption, ClockAssumption, IntervalAssumption DEF Init, Settled
<1>. QED  BY <1>2, <1>3, <1>4, <1>5 DEF TypeOK

LEMMA RuntimeTypeSteps ==
    ASSUME RuntimeTypeOK, TrackerTypeOK', [Next]_vars
    PROVE  RuntimeTypeOK'
<1>1. CASE Loop
  <2>1. gps \in GpsData /\ now \in Millis  BY DEF RuntimeTypeOK, TrackerTypeOK
  <2>2. /\ leds' = BuildLedPattern(gps, now) /\ displayReady' = displayReady
        /\ UpdateDisplay /\ ReportParsedState
    BY <1>1 DEF Loop, Present
  <2>3. lastDisplayUpdateMs' \in Millis /\ display' \in Displays
    BY <2>1, <2>2, DisplayModelType DEF UpdateDisplay, RuntimeTypeOK
  <2>4. lastParsedJsonReportMs' \in Millis /\ report' \in Reports
    BY <2>1, <2>2, ParsedStateType DEF ReportParsedState, RuntimeTypeOK
  <2>. QED  BY <2>2, <2>3, <2>4, LedPatternType DEF RuntimeTypeOK
<1>2. CASE ~Loop
  <2>1. UNCHANGED runtimeVars
    BY <1>2, HandlingTakesNoTime
    DEF Next, Send, Select, Arrive, ArriveDamaged, Lose, Tick, vars
  <2>. QED  BY <2>1 DEF RuntimeTypeOK, runtimeVars
<1>. QED  BY <1>1, <1>2

\* The selection and the faults stay within their bounds.
BoundsOK ==
    /\ scenario \in Scenarios /\ changes \in 0 .. MaxChanges
    /\ seconds \in Cycle /\ faults \in 0 .. MaxFaults

LEMMA BoundsSteps ==
    ASSUME BoundsOK, [Next]_vars PROVE BoundsOK'
<1>1. CASE Send
  <2>1. 5 * AutoPhase \in Nat \ {0} /\ seconds + 1 \in Nat
    BY ChipAssumption DEF BoundsOK, Cycle
  <2>2. (seconds + 1) % (5 * AutoPhase) \in Cycle /\ 0 \in Cycle  BY <2>1 DEF Cycle
  <2>. QED  BY <1>1, <2>2 DEF BoundsOK, Send, SendNmeaFrame
<1>2. CASE Select
  <2>1. 0 \in Cycle  BY ChipAssumption DEF Cycle
  <2>2. scenario' \in Scenarios /\ seconds' \in Cycle
    BY <1>2, <2>1, ChipAssumption DEF Select, SelectScenario
  <2>. QED  BY <1>2, <2>2, ChipAssumption DEF BoundsOK, Select, SelectScenario, benchVars
<1>3. CASE Arrive  BY <1>3 DEF BoundsOK, Arrive, chipVars
<1>4. CASE ArriveDamaged  BY <1>4, BenchAssumption DEF BoundsOK, ArriveDamaged, chipVars
<1>5. CASE Lose  BY <1>5, BenchAssumption DEF BoundsOK, Lose, chipVars
<1>6. CASE Loop  BY <1>6 DEF BoundsOK, Loop, chipVars
<1>7. CASE Tick  BY <1>7 DEF BoundsOK, Tick
<1>8. CASE UNCHANGED vars  BY <1>8 DEF BoundsOK, vars, chipVars, benchVars
<1>. QED  BY <1>1, <1>2, <1>3, <1>4, <1>5, <1>6, <1>7, <1>8 DEF Next

\* What is typed and follows from the invariants.
LEMMA TypeFollows ==
    RuntimeTypeOK /\ BoundsOK /\ ChipOK /\ PaceOK => TypeOK
<1>. SUFFICES ASSUME RuntimeTypeOK, BoundsOK, ChipOK, PaceOK PROVE TypeOK  OBVIOUS
<1>1. Len(line) <= 3
  <2>1. Len(line) \in 0 .. 3  BY LineShape
  <2>2. \A n \in 0 .. 3 : n <= 3  OBVIOUS
  <2>. QED  BY <2>1, <2>2, Zenon
<1>2. sinceReport \in Nat  BY IntervalAssumption DEF PaceOK
<1>. QED  BY <1>1, <1>2 DEF TypeOK, BoundsOK, ChipOK, PaceOK

(* Every variable of the bench keeps its type: the line never holds more  *)
(* than one frame, though frames are sent on a timer that does not wait   *)
(* for it, and every record and every screen is one that consumers know.  *)
THEOREM BenchTypeCorrect == Spec => []TypeOK
<1>1. Init => RuntimeTypeOK /\ BoundsOK  BY TypeStarts DEF TypeOK, BoundsOK
<1>2. RuntimeTypeOK /\ BoundsOK /\ TrackerIInv' /\ [Next]_vars => (RuntimeTypeOK /\ BoundsOK)'
  BY RuntimeTypeSteps, BoundsSteps DEF TrackerIInv
<1>3. Spec => [](RuntimeTypeOK /\ BoundsOK)  BY <1>1, <1>2, BenchTracked, PTL DEF Spec
<1>. QED  BY <1>3, TypeFollows, BenchAlways, PTL DEF BenchIInv
=============================================================================

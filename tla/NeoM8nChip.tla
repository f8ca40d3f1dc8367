----------------------------- MODULE NeoM8nChip -----------------------------
(***************************************************************************)
(* simulation/assets/neo-m8n.chip.c: the simulated receiver.  A one-shot   *)
(* timer that restarts itself sends one frame of GGA, RMC and GSA per      *)
(* period over a serial line; the scenario, fixed or cycling, decides      *)
(* what they say.  Coordinates, jitter and checksums are left out: every   *)
(* sentence the chip sends is well formed.                                 *)
(***************************************************************************)
EXTENDS Naturals, Sequences

CONSTANTS
    SendPeriod,     \* ticks of GPS_SIM_SEND_PERIOD_US
    AutoPhase,      \* GPS_SIM_AUTO_PHASE_SECONDS
    Scenarios,      \* the scenarios the user of the simulation may select
    MaxChanges,     \* bound: times the user selects one
    AutoStarts      \* bound: the seconds of the auto cycle at which AUTO is selected

AllScenarios == {"AUTO", "NO_DATA", "NO_FIX", "FIX_2D", "FIX_3D_LOW_SAT", "REFERENCE_OK"}

Cycle == 0 .. 5 * AutoPhase - 1

ASSUME ChipAssumption ==
    /\ SendPeriod \in Nat \ {0} /\ AutoPhase \in Nat \ {0} /\ MaxChanges \in Nat
    /\ Scenarios \subseteq AllScenarios
    /\ AutoStarts \subseteq Cycle

VARIABLES
    scenario, changes,
    seconds,    \* simulated time at the last time-out, modulo the auto cycle
                \* (kept only while the scenario is AUTO, which alone reads it)
    timer,      \* ticks left until the timer fires
    resolved,   \* history: the state of the last time-out
    line        \* the sentences on their way, oldest first

chipVars == <<scenario, changes, seconds, timer, resolved>>

MakeState(transmit, fixMode, satellites) ==
    [transmit |-> transmit, fixMode |-> fixMode, sats |-> satellites]

\* make_state() of each fixed scenario, in the order AUTO runs through them.
States == << MakeState(FALSE, 0, 0), MakeState(TRUE, 0, 3), MakeState(TRUE, 2, 4),
             MakeState(TRUE, 3, 5), MakeState(TRUE, 3, 9) >>

ResolveSelectedState(selected, second) ==
    CASE selected = "AUTO" -> States[((second \div AutoPhase) % 5) + 1]
      [] selected = "NO_DATA" -> States[1]
      [] selected = "NO_FIX" -> States[2]
      [] selected = "FIX_2D" -> States[3]
      [] selected = "FIX_3D_LOW_SAT" -> States[4]
      [] selected = "REFERENCE_OK" -> States[5]

HasFix(state) == state.fixMode # 0

GgaOf(state) ==
    [type |-> "GGA", fix |-> HasFix(state), sats |-> state.sats,
     coords |-> HasFix(state), alt |-> TRUE, hdop |-> TRUE, time |-> TRUE]

RmcOf(state) ==
    [type |-> "RMC", active |-> HasFix(state), coords |-> HasFix(state), time |-> TRUE]

GsaOf(state) ==
    [type |-> "GSA", fixType |-> IF HasFix(state) THEN state.fixMode ELSE 1, hdop |-> TRUE]

\* The firmware boots at some point of the chip's period.
ChipInit ==
    /\ scenario \in Scenarios /\ changes = 0
    /\ seconds = 0 /\ timer \in 1 .. SendPeriod
    /\ resolved = States[1]
    /\ line = << >>

SelectScenario ==
    /\ changes < MaxChanges
    /\ changes' = changes + 1
    /\ scenario' \in Scenarios \ {scenario}
    /\ seconds' \in IF scenario' = "AUTO" THEN AutoStarts ELSE {0}
    /\ UNCHANGED <<timer, resolved, line>>

\* gps_timer_callback(): send_nmea_frame(), then start the timer again.
SendNmeaFrame ==
    /\ timer = 0
    /\ timer' = SendPeriod
    /\ seconds' = IF scenario = "AUTO" THEN (seconds + 1) % (5 * AutoPhase) ELSE 0
    /\ resolved' = ResolveSelectedState(scenario, seconds')
    /\ line' = IF resolved'.transmit
               THEN line \o <<GgaOf(resolved'), RmcOf(resolved'), GsaOf(resolved')>>
               ELSE line
    /\ UNCHANGED <<scenario, changes>>
=============================================================================

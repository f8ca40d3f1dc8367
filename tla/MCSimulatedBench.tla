--------------------------- MODULE MCSimulatedBench ---------------------------
(* SimulatedBench with time in fractions of a period: see the .cfg files. *)
EXTENDS SimulatedBench
=============================================================================

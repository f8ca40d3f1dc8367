---------------------------- MODULE MCGpsTracker ----------------------------
(* GpsTracker on a clock of a few ticks: see the .cfg files for the bounds. *)
EXTENDS GpsTracker
=============================================================================

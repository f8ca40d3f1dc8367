----------------------------- MODULE MCNmeaFramer -----------------------------
(* NmeaFramer with a buffer of a few bytes: see the .cfg files. *)
EXTENDS NmeaFramer
=============================================================================

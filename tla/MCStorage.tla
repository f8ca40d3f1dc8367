------------------------------ MODULE MCStorage ------------------------------
(* Storage and its history with a handful of rows: see the .cfg files for the bounds. *)
EXTENDS StorageLog
=============================================================================

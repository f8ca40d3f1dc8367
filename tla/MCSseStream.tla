----------------------------- MODULE MCSseStream -----------------------------
(* SseStream with two clients: see the .cfg files for the bounds. *)
EXTENDS SseStream
=============================================================================

---------------------------- MODULE MCSerialReader ----------------------------
(* SerialReader with the code's delays in seconds: see the .cfg files. *)
EXTENDS SerialReader
=============================================================================

---------------------------- MODULE MCSerialLines ----------------------------
(* One variable is set, next to a line limit that is accepted.              *)
EXTENDS SerialLines, TLC

Unset == [n \in Names |-> Absent]

MCDefaults == {Unset}

\* Next to each bound; 2 is a limit of two pieces.
MCValues(n) ==
    CASE n = "SERIAL_PORT" -> {Written("path"), Written("empty")}
      [] n = "STATE_STALE_SECONDS" ->
            {Number(0), Number(1), Written("text"), Written("nan"), Written("inf")}
      [] n = "HTTP_PORT" -> {Number(0), Number(65535), Number(65536), Written("nan")}
      [] n = "SERIAL_MAX_LINE_BYTES" -> {Number(0), Number(1), Number(2), Written("text")}
      [] OTHER -> {Number(0), Number(-1), Written("text"), Written("inf")}

MCEnvironments == UNION {{[Unset EXCEPT ![n] = v] : v \in MCValues(n)} : n \in Names}
=============================================================================

---------------------------- MODULE ServiceConfig ----------------------------
(***************************************************************************)
(* service/config.py: the settings that are read from the environment when *)
(* the module is imported, and validate(), which main.py calls first.  The *)
(* settings without a rule (paths, origins, token, webhook) are left out.  *)
(* A variable is absent, a text that is no number, or a number; a float is *)
(* also "nan" or "inf".                                                    *)
(***************************************************************************)
EXTENDS Integers

Absent == [text |-> "absent", value |-> 0]
Written(text) == [text |-> text, value |-> 0]
Number(n) == [text |-> "number", value |-> n]

Floats == {"STATE_STALE_SECONDS"}
Integrals == {"BAUD_RATE", "SERIAL_MAX_LINE_BYTES", "MAX_DB_BYTES", "HTTP_PORT",
              "MAX_SSE_CONNECTIONS"}
Names == {"SERIAL_PORT"} \cup Integrals \cup Floats

\* MAX_DB_BYTES counts MiB, SERIAL_MAX_LINE_BYTES pieces of 256 bytes.
Default == [SERIAL_PORT |-> Written("path"), BAUD_RATE |-> Number(115200),
            SERIAL_MAX_LINE_BYTES |-> Number(16), STATE_STALE_SECONDS |-> Number(3),
            MAX_DB_BYTES |-> Number(4096), HTTP_PORT |-> Number(8000),
            MAX_SSE_CONNECTIONS |-> Number(32)]

\* _int_env() and _float_env(): int("nan") and float("") raise.
Readable(env, n) ==
    env[n].text \in {"absent", "number"} \cup (IF n \in Floats THEN {"nan", "inf"} ELSE {})

Settings(env) == [n \in Names |-> IF env[n] = Absent THEN Default[n] ELSE env[n]]

Acceptable(s, n) ==
    CASE n = "SERIAL_PORT" -> s.text # "empty"
      [] n = "STATE_STALE_SECONDS" -> s.text = "number" /\ s.value > 0
      [] n = "HTTP_PORT" -> s.value \in 1 .. 65535
      [] OTHER -> s.value >= 1

\* The import of the module raises, or validate() does.
Refused(env) ==
    \/ \E n \in Integrals \cup Floats : ~Readable(env, n)
    \/ \E n \in Names : ~Acceptable(Settings(env)[n], n)
=============================================================================

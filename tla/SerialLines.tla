----------------------------- MODULE SerialLines -----------------------------
(***************************************************************************)
(* How service/reader.py cuts the bytes of the serial port into lines: a   *)
(* port with a time-out of one second, read_until() with the limit of      *)
(* config.py, and a loop that calls it again.  What SerialReader takes for *)
(* a line, or for another line, is decided here.                           *)
(*                                                                         *)
(* A line is some pieces of 256 bytes and a newline; the device sends one  *)
(* piece per tick and pauses between lines.  pyserial is external: each    *)
(* byte has the time-out for itself; after each byte read_until() looks    *)
(* for the newline, the limit and its own time-out, in this order.         *)
(***************************************************************************)
EXTENDS ServiceConfig, Sequences

CONSTANTS
    Environments,  \* the environments a service may be started in
    Timeout,       \* ticks of serial.Serial(timeout = 1)
    Sizes,         \* pieces of a line
    Pauses,        \* ticks the device is silent before a line
    Lag,           \* bound: ticks until the reader reads again after a line
    MaxLines       \* bound: lines the device sends

ASSUME LinesAssumption ==
    /\ Environments \subseteq [Names -> [text: STRING, value: Int]]
    /\ {Timeout, Lag, MaxLines} \subseteq Nat /\ Timeout > 0
    /\ Sizes \subseteq Nat \ {0} /\ Pauses \subseteq Nat

VARIABLES
    env,
    phase,    \* "starting", "reading", "handling" a line, or "refused"
    lines,    \* the lines of the device so far: their sizes and pauses
    at,       \* the pieces of the last of them that are sent, 0 is its newline
    pause,    \* ticks until the device goes on
    buffer,   \* pieces the system holds
    line,     \* pieces read_until() has read
    elapsed,  \* ticks since its call
    idle,     \* ticks since its last byte
    left,     \* ticks until the line is handled
    records,  \* the lines that came out whole
    read      \* history: the last line whose newline was read

deviceVars == <<lines, at, pause>>
vars == <<env, phase, deviceVars, buffer, line, elapsed, idle, left, records, read>>

Lines == 1 .. MaxLines
Pieces == Lines \X Nat
MaxLine == Settings(env)["SERIAL_MAX_LINE_BYTES"].value

TypeOK ==
    /\ env \in Environments
    /\ phase \in {"starting", "reading", "handling", "refused"}
    /\ lines \in Seq([size: Sizes, pause: Pauses]) /\ Len(lines) <= MaxLines
    /\ at \in Nat /\ pause \in Nat
    /\ buffer \in Seq(Pieces) /\ line \in Seq(Pieces)
    /\ elapsed \in Nat /\ idle \in 0 .. Timeout /\ left \in 0 .. Lag
    /\ records \in Seq(Lines) /\ read \in 0 .. MaxLines

\* The device is in a pause before its first line, or in the middle of it.
Init ==
    /\ env \in Environments /\ phase = "starting"
    /\ \E s \in Sizes, p \in Pauses :
          /\ lines = <<[size |-> s, pause |-> p]>>
          /\ \/ at = 0 /\ pause \in 0 .. p
             \/ at \in 1 .. s /\ pause = 0
    /\ buffer = <<>> /\ line = <<>> /\ elapsed = 0 /\ idle = 0 /\ left = 0
    /\ records = <<>> /\ read = 0

-----------------------------------------------------------------------------
(* The service. *)

\* The import of config, validate(), then the port.
Start ==
    /\ phase = "starting"
    /\ phase' = IF Refused(env) THEN "refused" ELSE "reading"
    /\ UNCHANGED <<env, deviceVars, buffer, line, elapsed, idle, left, records, read>>

IsNewline(piece) == piece[2] = 0

\* Fault: any part of a line will do.
ParsesInPart(text) == text # <<>>

\* strip(): only the last piece can be the newline.
Body(text) == IF IsNewline(text[Len(text)]) THEN SubSeq(text, 1, Len(text) - 1) ELSE text

\* A whole object, with its newline or without: anything less does not parse.
Parses(text) ==
    \E r \in DOMAIN lines : Body(text) = [k \in 1 .. lines[r].size |-> <<r, k>>]

\* Fault: one time-out for the whole connection.
ReadAgainInTime == line' = <<>> /\ idle' = 0 /\ UNCHANGED elapsed

ReadAgain == line' = <<>> /\ idle' = 0 /\ elapsed' = 0

\* _loop() has the line, or a part of it, and comes back for the next.
HandOn(text) ==
    /\ ReadAgain
    /\ phase' = "handling" /\ left' \in 0 .. Lag
    /\ records' = IF Parses(text) THEN Append(records, text[1][1]) ELSE records

\* Fault: only a silence ends a read.
EndsUnhurried(text) == IsNewline(text[Len(text)]) \/ Len(text) >= MaxLine

Ends(text) == IsNewline(text[Len(text)]) \/ Len(text) >= MaxLine \/ elapsed >= Timeout

ReadPiece ==
    /\ phase = "reading" /\ buffer # <<>>
    /\ LET piece == Head(buffer)
           text == Append(line, piece)
       IN  /\ read' = IF IsNewline(piece) THEN piece[1] ELSE read
           /\ IF Ends(text)
              THEN HandOn(text)
              ELSE /\ line' = text /\ idle' = 0
                   /\ UNCHANGED <<phase, elapsed, left, records>>
    /\ buffer' = Tail(buffer)
    /\ UNCHANGED <<env, deviceVars>>

\* No byte for a second: what there is of a line is handed on as one, and
\* _readline_interruptible() calls again if there is nothing.
ReadTimesOut ==
    /\ phase = "reading" /\ buffer = <<>> /\ idle = Timeout
    /\ IF line # <<>> THEN HandOn(line)
                      ELSE ReadAgain /\ UNCHANGED <<phase, left, records>>
    /\ UNCHANGED <<env, deviceVars, buffer, read>>

Handled ==
    /\ phase = "handling" /\ left = 0
    /\ phase' = "reading"
    /\ UNCHANGED <<env, deviceVars, buffer, line, elapsed, idle, left, records, read>>

-----------------------------------------------------------------------------
(* The device and the clock. *)

\* A pause, a piece, or the newline; then the next line, if there is one.
Send ==
    IF pause > 0
    THEN pause' = pause - 1 /\ UNCHANGED <<lines, at, buffer>>
    ELSE LET r == Len(lines)
         IN  IF at < lines[r].size
             THEN /\ at' = at + 1 /\ buffer' = Append(buffer, <<r, at + 1>>)
                  /\ UNCHANGED <<lines, pause>>
             ELSE /\ r < MaxLines
                  /\ buffer' = Append(buffer, <<r, 0>>)
                  /\ \E s \in Sizes, p \in Pauses :
                        lines' = Append(lines, [size |-> s, pause |-> p]) /\ pause' = p
                  /\ at' = 0

Silent == pause = 0 /\ Len(lines) = MaxLines /\ at = lines[MaxLines].size

Prompt ==
    \/ phase = "reading" /\ (buffer # <<>> \/ idle = Timeout)
    \/ phase = "handling" /\ left = 0

Tick ==
    /\ phase \in {"reading", "handling"} /\ ~Prompt
    /\ \/ Send
       \/ Silent /\ UNCHANGED <<deviceVars, buffer>>
    /\ IF phase = "reading"
       THEN elapsed' = elapsed + 1 /\ idle' = idle + 1 /\ UNCHANGED left
       ELSE left' = left - 1 /\ UNCHANGED <<elapsed, idle>>
    /\ UNCHANGED <<env, phase, line, records, read>>

Next == Start \/ ReadPiece \/ ReadTimesOut \/ Handled \/ Tick

Spec == Init /\ [][Next]_vars

-----------------------------------------------------------------------------
Fits(r) == lines[r].size <= MaxLine

\* The second of the read that began after the line before is enough.
Timely(r) == lines[r].pause + lines[r].size <= Timeout

Received == {records[i] : i \in DOMAIN records}

(* After the line it joined in the middle of, the reader gets every line   *)
(* that fits the limit and ends within a second of the line before,        *)
(* whatever overlong, late and split lines are in between.                 *)
TimelyLinesArrive == \A r \in 2 .. read : Fits(r) /\ Timely(r) => r \in Received

(* No line, split or not, yields two records, and they keep their order.   *)
RecordsAreSentLines == \A i, j \in DOMAIN records : i < j => records[i] < records[j]

(* A read returns within two of its time-outs, whatever trickles in: the   *)
(* stop request is seen before the three seconds of stop() are over.       *)
ReadsEndInTime == elapsed < 2 * Timeout

(* reader.py: one bounded line is read.  Every line that fits arrives.     *)
FittingLinesArrive == \A r \in 2 .. read : Fits(r) => r \in Received
=============================================================================

----------------------------- MODULE SerialReader -----------------------------
(***************************************************************************)
(* service/reader.py with the shutdown that main.py and the lifespan of    *)
(* api.py put around it: the task that opens the port, reads lines on a    *)
(* thread and inserts the records, against a device that comes, goes and   *)
(* stalls, a signal at any time, and the time-outs of the shutdown.        *)
(*                                                                         *)
(* Time advances in ticks.  Opening the port and inserting a record may    *)
(* take any time, also after they were cancelled: a thread goes on.  A     *)
(* read takes at most ReadTimeout; the rest is prompt.                     *)
(*                                                                         *)
(* External: uvicorn waits at most Drain for its connections, raises the   *)
(* signal again when the lifespan is over, and returns at once on a second *)
(* SIGINT; asyncio.run() cancels every task and joins the threads of       *)
(* to_thread(); aiosqlite runs statements one by one on a thread.          *)
(***************************************************************************)
EXTENDS Naturals, FiniteSets

CONSTANTS
    ReadTimeout,    \* the longest read: SerialLines says two of pyserial's time-outs
    RetryDelay,     \* SERIAL_RETRY_DELAY_SECONDS
    StallTimeout,   \* SERIAL_STALL_TIMEOUT_SECONDS
    Drain,          \* timeout_graceful_shutdown
    StopWait,       \* wait_for(shield(task), timeout = 3)
    Grace,          \* the sleep of a cancelled lifespan
    MaxRecords,     \* bound: parsed_state records the device sends
    MaxFailures,    \* bound: inserts that fail
    MaxReplugs      \* bound: times the device changes

ASSUME ReaderAssumption ==
    /\ {ReadTimeout, RetryDelay, StallTimeout, Drain, StopWait, Grace} \subseteq Nat \ {0}
    /\ ReadTimeout < StopWait
    /\ {MaxRecords, MaxFailures, MaxReplugs} \subseteq Nat

VARIABLES
    device,     \* "talking", "silent", or "absent"
    fd,         \* the open file descriptor: "good", "stalled", or "broken"
    replugs,
    task,       \* what the reader task awaits
    left,       \* ticks left of its read or of its retry delay
    sinceOpen,  \* ticks since the port was opened, up to StallTimeout + 1
    receivedAny,
    stop,       \* the _stop event
    cancelled,  \* the task was cancelled
    abandoned,  \* cancelled calls that their threads have not ended
    made,       \* records set live so far: those in the table, those in a
    stored,     \* transaction that is still open, and those dropped
    pending,
    lost,
    failures,
    life,       \* where the server and the lifespan are
    timer,      \* ticks left of its current time-out
    database,   \* "open" or "closed"
    interrupt,  \* the signal was SIGINT, not SIGTERM
    elapsed     \* ticks since the signal, but for those in which it is Held

deviceVars == <<device, fd, replugs>>
recordVars == <<made, stored, pending, lost, failures>>
lifeVars == <<life, timer, database, interrupt, elapsed>>
taskVars == <<task, left, sinceOpen, receivedAny, cancelled>>
vars == <<deviceVars, taskVars, stop, abandoned, recordVars, lifeVars>>

Records == 1 .. MaxRecords
Longest == Drain + StopWait + Grace

TypeOK ==
    /\ device \in {"talking", "silent", "absent"}
    /\ fd \in {"good", "stalled", "broken"} /\ replugs \in 0 .. MaxReplugs
    /\ task \in {"opening", "reading", "inserting", "closing", "retry", "done"}
    /\ left \in 0 .. ReadTimeout + RetryDelay
    /\ sinceOpen \in 0 .. StallTimeout + 1 /\ receivedAny \in BOOLEAN
    /\ stop \in BOOLEAN /\ cancelled \in BOOLEAN
    /\ abandoned \subseteq {"open", "insert"}
    /\ made \in 0 .. MaxRecords /\ stored \subseteq Records
    /\ pending \subseteq Records /\ lost \subseteq Records
    /\ failures \in 0 .. MaxFailures
    /\ life \in {"serving", "draining", "stopping", "cancelling", "grace",
                 "closing", "exited", "gone"}
    /\ timer \in 0 .. Longest
    /\ database \in {"open", "closed"}
    /\ interrupt \in BOOLEAN /\ elapsed \in 0 .. Longest

\* lifespan: database.init(), then reader.start().
Init ==
    /\ device \in {"talking", "silent", "absent"} /\ fd = "broken" /\ replugs = 0
    /\ task = "opening" /\ left = 0 /\ sinceOpen = 0 /\ receivedAny = FALSE
    /\ stop = FALSE /\ cancelled = FALSE /\ abandoned = {}
    /\ made = 0 /\ stored = {} /\ pending = {} /\ lost = {} /\ failures = 0
    /\ life = "serving" /\ timer = 0 /\ database = "open"
    /\ interrupt = FALSE /\ elapsed = 0

-----------------------------------------------------------------------------
(* The reader task. *)

Become(state, ticks) == task' = state /\ left' = ticks

\* `while not _stop.is_set()' of _loop(): read on, or leave through finally.
ReadOn == IF stop THEN Become("closing", 0) ELSE Become("reading", ReadTimeout)

\* Fault: _run() ends with its first connection.
GiveUp == Become("done", 0)

\* _run() after _loop() ended: it stops, or waits and tries again.
TryAgain == IF stop THEN Become("done", 0) ELSE Become("retry", RetryDelay)

OpenSucceeds ==
    /\ task = "opening" /\ device # "absent"
    /\ sinceOpen' = 0 /\ receivedAny' = FALSE /\ fd' \in {"good", "stalled"}
    /\ ReadOn
    /\ UNCHANGED <<device, replugs, stop, cancelled, abandoned,
                   recordVars, lifeVars>>

OpenFails ==
    /\ task = "opening" /\ device = "absent"
    /\ TryAgain
    /\ UNCHANGED <<deviceVars, sinceOpen, receivedAny, stop, cancelled, abandoned,
                   recordVars, lifeVars>>

Hears == task = "reading" /\ device = "talking" /\ fd = "good"

\* A line that is no parsed_state object: noise, a fragment, another type.
OtherLine ==
    /\ Hears
    /\ receivedAny' = TRUE
    /\ ReadOn
    /\ UNCHANGED <<deviceVars, sinceOpen, stop, cancelled, abandoned,
                   recordVars, lifeVars>>

\* Fault: the insert is not awaited.
RecordLineUnawaited ==
    /\ Hears /\ made < MaxRecords
    /\ receivedAny' = TRUE
    /\ made' = made + 1
    /\ ReadOn
    /\ UNCHANGED <<deviceVars, sinceOpen, stop, cancelled, abandoned,
                   stored, pending, lost, failures, lifeVars>>

\* A record is set live, then its insert begins.
RecordLine ==
    /\ Hears /\ made < MaxRecords
    /\ receivedAny' = TRUE
    /\ made' = made + 1
    /\ Become("inserting", 0)
    /\ UNCHANGED <<deviceVars, sinceOpen, stop, cancelled, abandoned,
                   stored, pending, lost, failures, lifeVars>>

\* Fault: _readline_interruptible() never looks at _stop.
ReadTimesOutAndReadsOn ==
    /\ task = "reading" /\ left = 0 /\ fd # "broken"
    /\ Become("reading", ReadTimeout)
    /\ UNCHANGED <<deviceVars, sinceOpen, receivedAny, stop, cancelled, abandoned,
                   recordVars, lifeVars>>

\* `if not raw' of _loop().
LineIsEmpty ==
    IF ~receivedAny /\ sinceOpen > StallTimeout
    THEN Become("closing", 0)  \* OSError("stalled port")
    ELSE ReadOn

\* read_until() returned nothing.  _readline_interruptible() reads again until
\* it is stopped, so _loop() sees an empty line only then.
ReadTimesOut ==
    /\ task = "reading" /\ left = 0 /\ fd # "broken"
    /\ IF stop THEN LineIsEmpty ELSE Become("reading", ReadTimeout)
    /\ UNCHANGED <<deviceVars, sinceOpen, receivedAny, stop, cancelled, abandoned,
                   recordVars, lifeVars>>

\* read_until() raises.
ReadFails ==
    /\ task = "reading" /\ fd = "broken"
    /\ Become("closing", 0)
    /\ UNCHANGED <<deviceVars, sinceOpen, receivedAny, stop, cancelled, abandoned,
                   recordVars, lifeVars>>

\* A COMMIT takes along what earlier ones left in the transaction.
Stores ==
    /\ stored' = stored \cup pending \cup {made} /\ pending' = {}
    /\ UNCHANGED <<made, lost>>

\* A statement raises: the record is not in the table, it waits for the next
\* COMMIT after its own has failed, or SQLite has rolled the transaction back.
Fails ==
    /\ \/ lost' = lost \cup {made} /\ pending' = pending
       \/ pending' = pending \cup {made} /\ lost' = lost
       \/ lost' = lost \cup pending \cup {made} /\ pending' = {}
    /\ UNCHANGED <<made, stored>>

InsertDone ==
    /\ task = "inserting" /\ database = "open"
    /\ Stores
    /\ ReadOn
    /\ UNCHANGED <<deviceVars, sinceOpen, receivedAny, stop, cancelled, abandoned,
                   failures, lifeVars>>

\* The exception closes the port.
InsertFails ==
    /\ task = "inserting" /\ failures < MaxFailures
    /\ failures' = failures + 1
    /\ Fails
    /\ Become("closing", 0)
    /\ UNCHANGED <<deviceVars, sinceOpen, receivedAny, stop, cancelled, abandoned, lifeVars>>

PortClosed ==
    /\ task = "closing"
    /\ IF cancelled THEN Become("done", 0) ELSE TryAgain
    /\ UNCHANGED <<deviceVars, sinceOpen, receivedAny, stop, cancelled, abandoned,
                   recordVars, lifeVars>>

RetryEnds ==
    /\ task = "retry" /\ (left = 0 \/ stop)
    /\ Become(IF stop THEN "done" ELSE "opening", 0)
    /\ UNCHANGED <<deviceVars, sinceOpen, receivedAny, stop, cancelled, abandoned,
                   recordVars, lifeVars>>

\* The steps that the device or SQLite may hold up for ever, and the prompt ones.
MayHang == OpenSucceeds \/ OpenFails \/ InsertDone \/ InsertFails
Waits == ReadTimesOut \/ ReadFails \/ PortClosed \/ RetryEnds
Reader == MayHang \/ OtherLine \/ RecordLine \/ Waits

\* task.cancel(): CancelledError at the await.  The thread goes on with the
\* open or with the statement it was given; a read ends in time by itself.
Cancel ==
    /\ cancelled' = TRUE
    /\ Become(IF task \in {"reading", "inserting"} THEN "closing" ELSE "done", 0)
    /\ abandoned' = abandoned \cup (CASE task = "opening" -> {"open"}
                                      [] task = "inserting" -> {"insert"}
                                      [] OTHER -> {})
    /\ UNCHANGED <<sinceOpen, receivedAny, recordVars>>

\* The port that was opened for nobody is dropped.
OpenEnds ==
    /\ "open" \in abandoned
    /\ abandoned' = abandoned \ {"open"}
    /\ UNCHANGED <<deviceVars, taskVars, stop, recordVars, lifeVars>>

\* It was the INSERT, which nobody commits now, the COMMIT, or one after it.
StatementEnds ==
    /\ "insert" \in abandoned
    /\ abandoned' = abandoned \ {"insert"}
    /\ Stores \/ Fails
    /\ UNCHANGED <<deviceVars, taskVars, stop, failures, lifeVars>>

-----------------------------------------------------------------------------
(* The shutdown. *)

Enter(phase, ticks) == life' = phase /\ timer' = ticks

\* _handle_exit(): the reader hears of the signal before the server does.
Signal ==
    /\ life = "serving"
    /\ stop' = TRUE
    /\ Enter("draining", Drain)
    /\ interrupt' \in BOOLEAN
    /\ UNCHANGED <<deviceVars, taskVars, abandoned, recordVars, database, elapsed>>

\* The connections are closed, or have had their time: reader.stop().
StopBegins ==
    /\ life = "draining"
    /\ stop' = TRUE
    /\ IF task = "done" THEN Enter("closing", 0) ELSE Enter("stopping", StopWait)
    /\ UNCHANGED <<deviceVars, taskVars, abandoned, recordVars, database, interrupt, elapsed>>

\* A second SIGINT: asyncio.run() cancels the reader and the lifespan, whose
\* reader.stop() then waits for the cancelled task.
ForceExit ==
    /\ life = "draining" /\ interrupt
    /\ IF task = "done"
       THEN Enter("closing", 0) /\ UNCHANGED <<taskVars, abandoned, recordVars>>
       ELSE Enter("stopping", StopWait) /\ Cancel
    /\ UNCHANGED <<deviceVars, stop, database, interrupt, elapsed>>

\* The shielded task ended; its CancelledError leads to the grace sleep.
StopEnds ==
    /\ life = "stopping" /\ task = "done"
    /\ IF cancelled THEN Enter("grace", Grace) ELSE Enter("closing", 0)
    /\ UNCHANGED <<deviceVars, taskVars, stop, abandoned, recordVars, database, interrupt,
                   elapsed>>

\* Faults: the cancelled task is not awaited; stop() waits again, or for ever.
StopTimesOutAndGoesOn ==
    /\ life = "stopping" /\ timer = 0 /\ task # "done"
    /\ Cancel
    /\ Enter("closing", 0)
    /\ UNCHANGED <<deviceVars, stop, database, interrupt, elapsed>>

StopTimesOutAndWaitsAgain ==
    /\ life = "stopping" /\ timer = 0 /\ task # "done"
    /\ Enter("stopping", StopWait)
    /\ UNCHANGED <<deviceVars, taskVars, stop, abandoned, recordVars, database, interrupt,
                   elapsed>>

StopNeverTimesOut == FALSE /\ UNCHANGED vars

StopTimesOut ==
    /\ life = "stopping" /\ timer = 0 /\ task # "done"
    /\ Cancel
    /\ Enter("cancelling", 0)
    /\ UNCHANGED <<deviceVars, stop, database, interrupt, elapsed>>

\* `await task' after the cancellation.
CancelAwaited ==
    /\ life = "cancelling" /\ task = "done"
    /\ Enter("closing", 0)
    /\ UNCHANGED <<deviceVars, taskVars, stop, abandoned, recordVars, database, interrupt,
                   elapsed>>

GraceEnds ==
    /\ life = "grace" /\ timer = 0
    /\ Enter("closing", 0)
    /\ UNCHANGED <<deviceVars, taskVars, stop, abandoned, recordVars, database, interrupt,
                   elapsed>>

\* What may hold up the end: close() waits its turn on aiosqlite's thread, and
\* after a SIGINT asyncio.run() joins the thread that opens the port.
Held ==
    \/ life = "closing" /\ "insert" \in abandoned
    \/ life = "exited" /\ interrupt /\ "open" \in abandoned

\* Closing rolls an open transaction back.
CloseDatabase ==
    /\ life = "closing" /\ ~Held
    /\ database' = "closed"
    /\ lost' = lost \cup pending /\ pending' = {}
    /\ Enter("exited", 0)
    /\ UNCHANGED <<deviceVars, taskVars, stop, abandoned, made, stored, failures, interrupt,
                   elapsed>>

\* The lifespan is over; SIGTERM, raised again, ends the process, or
\* asyncio.run() does.
ProcessEnds ==
    /\ life = "exited" /\ ~Held
    /\ Enter("gone", 0)
    /\ UNCHANGED <<deviceVars, taskVars, stop, abandoned, recordVars, database, interrupt,
                   elapsed>>

Shutdown ==
    \/ StopBegins \/ StopEnds \/ StopTimesOut \/ CancelAwaited \/ GraceEnds
    \/ CloseDatabase \/ ProcessEnds

-----------------------------------------------------------------------------
(* The device and the clock. *)

Replug ==
    /\ life \notin {"exited", "gone"} /\ replugs < MaxReplugs
    /\ replugs' = replugs + 1
    /\ device' \in {"talking", "silent", "absent"} \ {device}
    /\ fd' = IF device' = "absent" THEN "broken" ELSE fd
    /\ UNCHANGED <<taskVars, stop, abandoned, recordVars, lifeVars>>

Prompt ==
    \/ task = "reading" /\ left = 0
    \/ task = "retry" /\ (left = 0 \/ stop)
    \/ task = "closing"
    \/ life \in {"cancelling", "gone"}
    \/ life \in {"closing", "exited"} /\ ~Held
    \/ life = "stopping" /\ task = "done"
    \/ life \in {"draining", "stopping", "grace"} /\ timer = 0

Before(n) == IF n > 0 THEN n - 1 ELSE 0

Tick ==
    /\ ~Prompt
    /\ left' = Before(left) /\ timer' = Before(timer)
    /\ sinceOpen' = IF sinceOpen > StallTimeout THEN sinceOpen ELSE sinceOpen + 1
    /\ elapsed' = IF life = "serving" \/ Held THEN elapsed ELSE elapsed + 1
    /\ UNCHANGED <<deviceVars, task, receivedAny, cancelled, stop, abandoned, recordVars,
                   life, database, interrupt>>

Next == Reader \/ OpenEnds \/ StatementEnds \/ Signal \/ Shutdown \/ ForceExit \/ Replug \/ Tick

Spec == Init /\ [][Next]_vars

\* The event loop and the clock go on.  Nothing makes a device talk, an open
\* or an insert end, cancelled or not, or a signal come.
FairSpec == Spec /\ WF_vars(Waits) /\ WF_vars(Shutdown) /\ WF_vars(Tick)
NothingHangs == WF_vars(MayHang)
StatementsEnd == WF_vars(StatementEnds)

-----------------------------------------------------------------------------
(* The database is closed only when nothing is being inserted and nothing  *)
(* will be, however the stop request, the time-outs, a cancellation and    *)
(* the reader's last record fall together.                                 *)
DatabaseOutlivesReader ==
    database = "closed" => task = "done" /\ "insert" \notin abandoned

(* The shutdown takes its three time-outs at most, however late the open,  *)
(* an insert or the connections end, and beyond them only what it waits    *)
(* for a cancelled call: close() for SQLite's statement, and after a       *)
(* SIGINT asyncio.run() for the open.  No time-out bounds these two.       *)
ExitsInTime == elapsed <= Longest

\* The record whose insert has not ended.
UnderWay == IF task = "inserting" \/ "insert" \in abandoned THEN {made} ELSE {}

(* Every record that was shown live is stored, or an insert that failed or *)
(* was cancelled leaves it to the next COMMIT or drops it: each failure    *)
(* costs one record at most, and reconnecting or the shutdown none.        *)
RecordsAccountedFor ==
    /\ stored \cap (pending \cup lost) = {}
    /\ 1 .. made = stored \cup pending \cup lost \cup UnderWay
    /\ Cardinality(pending \cup lost) <= failures + (IF cancelled THEN 1 ELSE 0)

(* stop() never cancels a reader that waits for a line or for its next     *)
(* try: those end in time by themselves, only an open or an insert hangs.  *)
OnlyTheHungAreCancelled ==
    [][life = "stopping" /\ life' = "cancelling" => task \notin {"reading", "retry"}]_vars

(* Whatever fault ended its last connection, a reader whose device is      *)
(* there reads from a live descriptor again, if no open or insert hangs.   *)
ReaderRecovers ==
    NothingHangs =>
        (device # "absent" ~> \/ task = "reading" /\ fd # "broken"
                              \/ device = "absent" \/ stop)

(* A signal ends the process, even when an open hangs or an insert lasts   *)
(* long, if SQLite ends the statement at last; only a SIGINT waits for the *)
(* open, with the database closed.                                         *)
ServiceExits ==
    StatementsEnd =>
        (stop ~> \/ life = "gone"
                 \/ Held /\ database = "closed" /\ "open" \in abandoned)

(* reader.py: a port that delivers nothing within the stall time-out of    *)
(* being opened is closed and reopened.                                    *)
StalledPortIsReopened ==
    task = "reading" /\ fd = "stalled" ~> task # "reading" \/ receivedAny

(* docs/design.md: the service shuts down within 5 s.  With ticks of one   *)
(* second the time-outs alone add up to more.                              *)
ShutdownTakesFiveSeconds == elapsed <= 5
=============================================================================

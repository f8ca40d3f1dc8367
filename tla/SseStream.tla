------------------------------ MODULE SseStream ------------------------------
(***************************************************************************)
(* The live state of service/reader.py (get_state, _set_state) and the     *)
(* event streams of service/api.py that poll it: one generator per client, *)
(* a counter that caps them, a notice when the state goes stale.           *)
(*                                                                         *)
(* A tick is SSE_POLL_INTERVAL_SECONDS.  Sleeping generators are resumed   *)
(* in time; a yield may be held up by a client that does not read.         *)
(* Starlette is external: it starts the generator some time after the      *)
(* handler returned, or not at all if the client left first, and closes a  *)
(* started generator when its client leaves.                               *)
(***************************************************************************)
EXTENDS Naturals, FiniteSets

CONSTANTS
    Clients,
    MaxConnections, \* MAX_SSE_CONNECTIONS
    Stale,          \* STATE_STALE_SECONDS
    Keepalive,      \* SSE_KEEPALIVE_SECONDS
    MaxRecords,     \* bound: records the reader sets live
    MaxBlocked,     \* bound: ticks a yield is held up
    MaxLeaks        \* bound: clients that leave before their generator starts

ASSUME StreamAssumption ==
    /\ IsFiniteSet(Clients)
    /\ {MaxConnections, Stale, Keepalive} \subseteq Nat \ {0}
    /\ {MaxRecords, MaxBlocked, MaxLeaks} \subseteq Nat

VARIABLES
    current, age,   \* the live record (0: none yet), and its age up to Stale + 1
    active,         \* _active_sse_connections
    stream,         \* each client's request, and its generator
    leaks           \* clients that left before their generator started

vars == <<current, age, active, stream, leaks>>

Records == 1 .. MaxRecords
Nothing == 0
Unavailable == MaxRecords + 1
Comment == MaxRecords + 2

\* A client without a request.  `lastAge' is the age of the record `last',
\* `sent' the last record that was yielded, `shown' the last event the client
\* got, `blocked' the ticks its latest poll was held up in a yield, `owed' the
\* outages the client was not told of.
NoStream == [pc |-> "none", wake |-> 0, last |-> Nothing, unavailableSent |-> FALSE,
             silence |-> 0, event |-> Comment,
             sent |-> Nothing, shown |-> Nothing, lastAge |-> 0, blocked |-> 0,
             owed |-> 0]

OldestAge == Stale + MaxBlocked + 2

Streams ==
    [pc: {"none", "accepted", "sleeping", "yielding"}, wake: 0 .. 1,
     last: 0 .. MaxRecords, unavailableSent: BOOLEAN,
     silence: 0 .. Keepalive + MaxBlocked + 1,
     event: Records \cup {Unavailable, Comment},
     sent: 0 .. MaxRecords, shown: Records \cup {Nothing, Unavailable},
     lastAge: 0 .. OldestAge, blocked: 0 .. MaxBlocked, owed: 0 .. MaxRecords]

TypeOK ==
    /\ current \in 0 .. MaxRecords /\ age \in 0 .. Stale + 1
    /\ active \in 0 .. MaxConnections /\ leaks \in 0 .. MaxLeaks
    /\ stream \in [Clients -> Streams]

Init ==
    /\ current = Nothing /\ age = 0 /\ active = 0 /\ leaks = 0
    /\ stream = [c \in Clients |-> NoStream]

\* Fault: get_state() never expires.
StateOfAnyAge == current

\* get_state(): the live record, or nothing when there is none or it is stale.
State == IF age > Stale THEN Nothing ELSE current

Started(s) == s.pc \in {"sleeping", "yielding"}

-----------------------------------------------------------------------------
(* The reader and the clock. *)

SetState ==
    /\ current < MaxRecords
    /\ current' = current + 1 /\ age' = 0
    /\ UNCHANGED <<active, stream, leaks>>

UpTo(n, bound) == IF n < bound THEN n ELSE bound

\* A sleeping generator whose second is over runs before the next one begins.
CanWait(s) ==
    /\ s.pc = "sleeping" => s.wake = 1
    /\ s.pc = "yielding" => s.blocked < MaxBlocked

GoesStale == current # Nothing /\ age = Stale

Older(s) ==
    IF ~Started(s) THEN s
    ELSE [s EXCEPT !.wake = 0, !.silence = @ + 1, !.lastAge = UpTo(@ + 1, OldestAge),
                   !.blocked = IF s.pc = "yielding" THEN @ + 1 ELSE @,
                   !.owed = IF GoesStale THEN @ + 1 ELSE @]

Tick ==
    /\ \A c \in Clients : CanWait(stream[c])
    /\ age' = IF current = Nothing THEN 0 ELSE UpTo(age + 1, Stale + 1)
    /\ stream' = [c \in Clients |-> Older(stream[c])]
    /\ UNCHANGED <<current, active, leaks>>

-----------------------------------------------------------------------------
(* stream() and its generator. *)

Accept(c) ==
    /\ stream[c].pc = "none" /\ active < MaxConnections
    /\ active' = active + 1
    /\ stream' = [stream EXCEPT ![c].pc = "accepted"]
    /\ UNCHANGED <<current, age, leaks>>

\* The generator runs its first lines and enters the loop.
Start(c) ==
    /\ stream[c].pc = "accepted"
    /\ stream' = [stream EXCEPT ![c] = [NoStream EXCEPT !.pc = "sleeping"]]
    /\ UNCHANGED <<current, age, active, leaks>>

\* A generator that never started has no finally to run.
LeaveEarly(c) ==
    /\ stream[c].pc = "accepted" /\ leaks < MaxLeaks
    /\ stream' = [stream EXCEPT ![c] = NoStream]
    /\ leaks' = leaks + 1
    /\ UNCHANGED <<current, age, active>>

\* One turn of the loop up to its yield or its sleep: `new' is the generator
\* before it yields `what'.  `now' was taken first, so its silence starts here.
Polls(c) == stream[c].pc = "sleeping" /\ stream[c].wake = 0

Yield(c, new, what) ==
    /\ stream' = [stream EXCEPT ![c] =
          [new EXCEPT !.pc = "yielding", !.event = what, !.silence = 0, !.blocked = 0,
                      !.sent = IF what \in Records THEN what ELSE @]]
    /\ UNCHANGED <<current, age, active, leaks>>

\* Faults: only the first record is new; any is, sent or not; every poll of an
\* outage finds it; `>' for `>='.
IsAny(s) == State # Nothing
IsFirst(s) == State # Nothing /\ s.last = Nothing
IsLostStill(s) == State = Nothing /\ s.last # Nothing
IsVeryQuiet(s) == s.silence > Keepalive

IsNew(s) == State # Nothing /\ State # s.last
IsLost(s) == State = Nothing /\ s.last # Nothing /\ ~s.unavailableSent
IsQuiet(s) == s.silence >= Keepalive

\* Fault: unavailable_sent is not reset.
PollsNewStateOnly(c) ==
    /\ Polls(c) /\ IsNew(stream[c])
    /\ Yield(c, [stream[c] EXCEPT !.last = State, !.lastAge = age], State)

PollsNewState(c) ==
    /\ Polls(c) /\ IsNew(stream[c])
    /\ Yield(c, [stream[c] EXCEPT !.last = State, !.lastAge = age, !.unavailableSent = FALSE],
             State)

PollsOutage(c) ==
    /\ Polls(c) /\ IsLost(stream[c])
    /\ Yield(c, [stream[c] EXCEPT !.unavailableSent = TRUE], Unavailable)

PollsKeepalive(c) ==
    /\ Polls(c) /\ ~IsNew(stream[c]) /\ ~IsLost(stream[c]) /\ IsQuiet(stream[c])
    /\ Yield(c, stream[c], Comment)

PollsNothing(c) ==
    /\ Polls(c) /\ ~IsNew(stream[c]) /\ ~IsLost(stream[c]) /\ ~IsQuiet(stream[c])
    /\ stream' = [stream EXCEPT ![c].wake = 1, ![c].blocked = 0]
    /\ UNCHANGED <<current, age, active, leaks>>

\* The client got the event; the generator goes to sleep.
Got(s) ==
    [s EXCEPT !.pc = "sleeping", !.wake = 1,
              !.shown = IF s.event = Comment THEN @ ELSE s.event,
              !.owed = IF s.event = Unavailable THEN @ - 1 ELSE @]

Yielded(c) ==
    /\ stream[c].pc = "yielding"
    /\ stream' = [stream EXCEPT ![c] = Got(stream[c])]
    /\ UNCHANGED <<current, age, active, leaks>>

\* Fault: no finally clause.
LeaveSilently(c) ==
    /\ Started(stream[c])
    /\ stream' = [stream EXCEPT ![c] = NoStream]
    /\ UNCHANGED <<current, age, active, leaks>>

\* CancelledError at the sleep, or at a yield: the finally clause runs.
Leave(c) ==
    /\ Started(stream[c])
    /\ active' = active - 1
    /\ stream' = [stream EXCEPT ![c] = NoStream]
    /\ UNCHANGED <<current, age, leaks>>

Generator(c) ==
    \/ Start(c) \/ PollsNewState(c) \/ PollsOutage(c)
    \/ PollsKeepalive(c) \/ PollsNothing(c) \/ Yielded(c)

Next ==
    \/ SetState \/ Tick
    \/ \E c \in Clients : Accept(c) \/ LeaveEarly(c) \/ Generator(c) \/ Leave(c)

Spec == Init /\ [][Next]_vars

\* The event loop resumes every generator, a client reads in the end, and the
\* clock goes on: clients cannot come and leave for ever within one tick, hence
\* the strong fairness.  Nothing makes the reader set a state.
FairSpec == Spec /\ SF_vars(Tick) /\ \A c \in Clients : WF_vars(Generator(c))

-----------------------------------------------------------------------------
(* The counter is the number of open streams and of slots lost to clients  *)
(* that left early: a stream that ends in its loop gives its slot back.    *)
SlotsAreCounted ==
    active = Cardinality({c \in Clients : stream[c].pc # "none"}) + leaks

(* Between its polls a client never sees a record that is older than the   *)
(* stale time-out, the poll interval and the time it held up its own event. *)
ShownIsRecent ==
    \A c \in Clients :
        LET s == stream[c] IN
        s.pc = "sleeping" /\ s.shown \in Records
            => s.shown = s.last /\ s.lastAge <= Stale + 1 + s.blocked

(* A client is told of an outage at most once, and of none that did not    *)
(* happen while it was connected: a notice answers one expiry.             *)
NoticesAnswerOutages ==
    \A c \in Clients : stream[c].event = Unavailable /\ stream[c].pc = "yielding"
        => stream[c].owed > 0

(* No client is left in silence for longer than the keepalive interval and *)
(* the poll interval, unless it held up the last event itself.             *)
SilenceIsBroken ==
    \A c \in Clients :
        LET s == stream[c] IN
        s.pc = "sleeping" => s.silence <= Keepalive \/ s.silence <= s.blocked + 1

(* Every record that is sent to a client is newer than all that were sent *)
(* on its stream before: however often the live state is polled, held up,  *)
(* expires and comes back, none is sent twice.                             *)
RecordsAdvance ==
    [][\A c \in Clients :
          stream[c].pc = "sleeping" /\ stream'[c].pc = "yielding" /\ stream'[c].event \in Records
              => stream'[c].event > stream[c].sent]_vars

(* A client that shows a record learns that it went stale, unless a new    *)
(* record comes first.                                                     *)
OutageIsTold ==
    \A c \in Clients :
        stream[c].shown \in Records /\ State = Nothing
            ~> stream[c].shown = Unavailable \/ State # Nothing \/ stream[c].pc = "none"

(* A stream that has polled shows the live record, unless the record is no *)
(* older than the time the client held up its last event.                  *)
RecordIsDelivered ==
    \A c \in Clients :
        LET s == stream[c] IN
        s.pc = "sleeping" /\ s.wake = 1 /\ State # Nothing /\ age > s.blocked
            => s.last = State /\ s.shown = State
=============================================================================

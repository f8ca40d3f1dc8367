--------------------------- MODULE SseStreamProofs ---------------------------
(***************************************************************************)
(* What the event streams promise their clients, for every number of       *)
(* clients, records and ticks and every setting of the time-outs.          *)
(***************************************************************************)
EXTENDS SseStream, FiniteSetTheorems, TLAPS

USE StreamAssumption

StreamType ==
    [pc: {"none", "accepted", "sleeping", "yielding"}, wake: Nat, last: Nat,
     unavailableSent: BOOLEAN, silence: Nat, event: Nat, shown: Nat, lastAge: Nat,
     blocked: Nat, owed: Nat, sent: Nat]

\* What the client shows, or will when it has got the event on its way.
Told(s) == IF s.pc = "yielding" /\ s.event # Comment THEN s.event ELSE s.shown

Live(now, old) == IF old > Stale THEN Nothing ELSE now

\* The generator's memory, what it has sent and the client's screen say the same.
Agrees(s, now, old) ==
    /\ s.last <= now /\ s.sent = s.last
    /\ Told(s) = IF s.unavailableSent THEN Unavailable ELSE s.last
    /\ s.unavailableSent => s.last # Nothing /\ (old > Stale \/ s.last < now)
    /\ s.pc = "yielding" /\ s.event = Unavailable => s.unavailableSent

\* An outage that the client has not been told of is owed to it.
Owes(s, now, old) ==
    /\ s.pc = "yielding" /\ s.event = Unavailable => s.owed > 0
    /\ s.last # Nothing /\ ~s.unavailableSent /\ Live(now, old) = Nothing => s.owed > 0

\* How old the record is that the client shows, and how long it was silent.
Fresh(s, now, old) ==
    LET waited == s.blocked + (IF s.pc = "sleeping" /\ s.wake = 0 THEN 1 ELSE 0) IN
    /\ s.last = now /\ s.last # Nothing /\ old <= Stale => s.lastAge <= old
    /\ s.last # Nothing /\ ~s.unavailableSent => s.lastAge <= Stale + waited
    /\ s.pc = "yielding" => s.silence <= s.blocked
    /\ s.pc = "sleeping" => \/ s.silence <= waited
                            \/ s.silence < Keepalive
                            \/ s.wake = 0 /\ s.silence = Keepalive

\* Since its last poll the generator can have missed only a younger record.
Delivers(s, now, old) ==
    (/\ Live(now, old) # Nothing /\ old > s.blocked
     /\ s.pc = "yielding" \/ (s.pc = "sleeping" /\ s.wake = 1))
    => s.last = now /\ ~s.unavailableSent

Good(s, now, old) ==
    Started(s) => Agrees(s, now, old) /\ Owes(s, now, old) /\ Fresh(s, now, old)
                  /\ Delivers(s, now, old)

StateOK ==
    /\ current \in Nat /\ age \in Nat /\ current <= MaxRecords /\ age <= Stale + 1
    /\ stream \in [Clients -> StreamType]

IInv == StateOK /\ \A c \in Clients : Good(stream[c], current, age)

LEMMA InitIInv == Init => IInv
<1>. SUFFICES ASSUME Init PROVE IInv  OBVIOUS
<1>1. NoStream \in StreamType /\ ~Started(NoStream)
  BY DEF NoStream, StreamType, Nothing, Comment, Started
<1>. QED  BY <1>1 DEF Init, IInv, StateOK, Good, Nothing

-----------------------------------------------------------------------------
(* The reader and the clock. *)

LEMMA SetStateIInv ==
    ASSUME IInv, SetState
    PROVE  IInv'
<1>1. /\ current' = current + 1 /\ age' = 0 /\ stream' = stream /\ current < MaxRecords
  BY DEF SetState
<1>2. StateOK'  BY <1>1 DEF IInv, StateOK
<1>3. ASSUME NEW c \in Clients, Started(stream[c])
      PROVE  Good(stream[c], current + 1, 0)
  <2>. DEFINE s == stream[c]
  <2>1. s \in StreamType  BY <1>3 DEF IInv, StateOK
  <2>2. Agrees(s, current, age) /\ Owes(s, current, age) /\ Fresh(s, current, age)
    BY <1>3 DEF IInv, Good
  <2>3. Agrees(s, current + 1, 0)
    BY <2>1, <2>2 DEF Agrees, IInv, StateOK, StreamType, Nothing
  <2>4. Owes(s, current + 1, 0)
    BY <2>1, <2>2 DEF Owes, Live, IInv, StateOK, StreamType, Nothing
  <2>5. Fresh(s, current + 1, 0) /\ Delivers(s, current + 1, 0)
    BY <2>1, <2>2 DEF Agrees, Fresh, Delivers, IInv, StateOK, StreamType
  <2>. QED  BY <2>3, <2>4, <2>5 DEF Good
<1>. QED  BY <1>1, <1>2, <1>3 DEF IInv, Good, Started

LEMMA OlderFields ==
    ASSUME NEW s \in StreamType, Started(s)
    PROVE  /\ Older(s) \in StreamType
           /\ Older(s).pc = s.pc /\ Older(s).last = s.last /\ Older(s).event = s.event
           /\ Older(s).unavailableSent = s.unavailableSent /\ Older(s).shown = s.shown
           /\ Older(s).sent = s.sent
           /\ Older(s).wake = 0 /\ Older(s).silence = s.silence + 1
           /\ Older(s).lastAge \in Nat /\ Older(s).lastAge <= s.lastAge + 1
           /\ Older(s).blocked = s.blocked + (IF s.pc = "yielding" THEN 1 ELSE 0)
           /\ Older(s).owed = s.owed + (IF GoesStale THEN 1 ELSE 0)
<1>1. UpTo(s.lastAge + 1, OldestAge) \in Nat /\ UpTo(s.lastAge + 1, OldestAge) <= s.lastAge + 1
  BY DEF UpTo, OldestAge, StreamType
<1>. DEFINE w == UpTo(s.lastAge + 1, OldestAge)
             b == IF s.pc = "yielding" THEN s.blocked + 1 ELSE s.blocked
             o == IF GoesStale THEN s.owed + 1 ELSE s.owed
             q == s.silence + 1
<1>6. w \in Nat /\ b \in Nat /\ o \in Nat /\ q \in Nat  BY <1>1 DEF StreamType
<1>7. Older(s) = [s EXCEPT !.wake = 0, !.silence = q, !.lastAge = w, !.blocked = b, !.owed = o]
  BY DEF Older
<1>2. Older(s) \in StreamType
  <2>. DEFINE r == [s EXCEPT !.wake = 0, !.silence = q]
  <2>. HIDE DEF w, b, o, q
  <2>1. r \in StreamType  BY <1>6 DEF StreamType
  <2>2. Older(s) = [r EXCEPT !.lastAge = w, !.blocked = b, !.owed = o]  BY <1>7 DEF StreamType
  <2>. HIDE DEF r
  <2>. QED  BY <1>6, <2>1, <2>2 DEF StreamType
<1>3. Older(s).unavailableSent = s.unavailableSent  BY DEF Older, StreamType
<1>4. /\ Older(s).pc = s.pc /\ Older(s).last = s.last /\ Older(s).event = s.event
      /\ Older(s).shown = s.shown /\ Older(s).sent = s.sent
      /\ Older(s).wake = 0 /\ Older(s).silence = s.silence + 1
  BY DEF Older, StreamType
<1>5. /\ Older(s).lastAge = UpTo(s.lastAge + 1, OldestAge)
      /\ Older(s).blocked = s.blocked + (IF s.pc = "yielding" THEN 1 ELSE 0)
      /\ Older(s).owed = s.owed + (IF GoesStale THEN 1 ELSE 0)
  BY DEF Older, StreamType
<1>. QED  BY <1>1, <1>2, <1>3, <1>4, <1>5

LEMMA TickIInv ==
    ASSUME IInv, Tick
    PROVE  IInv'
<1>. DEFINE old == IF current = Nothing THEN 0 ELSE UpTo(age + 1, Stale + 1)
<1>1. /\ age' = old /\ current' = current
      /\ stream' = [c \in Clients |-> Older(stream[c])]
  BY DEF Tick
<1>2. /\ old \in Nat /\ old <= Stale + 1
      /\ current # Nothing /\ old <= Stale => old = age + 1
      /\ current # Nothing /\ age > Stale => old > Stale
      /\ current # Nothing /\ old > Stale /\ age <= Stale => GoesStale
  BY DEF IInv, StateOK, UpTo, GoesStale
<1>. HIDE DEF old
<1>3. ASSUME NEW c \in Clients
      PROVE  Older(stream[c]) \in StreamType /\ Good(Older(stream[c]), current, old)
  <2>. DEFINE s == stream[c]  t == Older(s)
  <2>1. s \in StreamType  BY DEF IInv, StateOK
  <2>2. CASE ~Started(s)
    BY <2>1, <2>2 DEF Older, Good
  <2>3. CASE Started(s)
    <3>1. Agrees(s, current, age) /\ Owes(s, current, age) /\ Fresh(s, current, age)
          /\ Delivers(s, current, age)
      BY <2>3 DEF IInv, Good
    <3>2. s.pc = "sleeping" => s.wake = 1  BY <1>1 DEF Tick, CanWait
    <3>3. /\ t \in StreamType
          /\ t.pc = s.pc /\ t.last = s.last /\ t.event = s.event
          /\ t.unavailableSent = s.unavailableSent /\ t.shown = s.shown /\ t.sent = s.sent
          /\ t.wake = 0 /\ t.silence = s.silence + 1
          /\ t.lastAge \in Nat /\ t.lastAge <= s.lastAge + 1
          /\ t.blocked = s.blocked + (IF s.pc = "yielding" THEN 1 ELSE 0)
          /\ t.owed = s.owed + (IF GoesStale THEN 1 ELSE 0)
      BY <2>1, <2>3, OlderFields
    <3>. HIDE DEF s, t
    <3>4. Agrees(t, current, old)
      BY <2>1, <3>1, <3>3, <1>2 DEF Agrees, Told, IInv, StateOK, StreamType, Nothing
    <3>5. Owes(t, current, old)
      BY <2>1, <3>1, <3>3, <1>2
      DEF Owes, Agrees, Live, IInv, StateOK, StreamType, Nothing
    <3>6. Fresh(t, current, old)
      <4>1. /\ s.pc \in {"sleeping", "yielding"} /\ s.last \in Nat /\ s.lastAge \in Nat
            /\ s.silence \in Nat /\ s.blocked \in Nat /\ s.wake \in Nat
            /\ Stale \in Nat /\ Keepalive \in Nat \ {0} /\ age \in Nat
        BY <2>1, <2>3 DEF Started, StreamType, IInv, StateOK
      <4>2. /\ t.last = current /\ t.last # Nothing /\ old <= Stale => t.lastAge <= old
            /\ t.last # Nothing /\ ~t.unavailableSent =>
                  t.lastAge <= Stale + t.blocked + (IF t.pc = "sleeping" THEN 1 ELSE 0)
        BY <1>2, <3>1, <3>2, <3>3, <4>1 DEF Fresh
      <4>3. /\ t.pc = "yielding" => t.silence <= t.blocked
            /\ t.pc = "sleeping" => t.silence <= t.blocked + 1 \/ t.silence <= Keepalive
        BY <3>1, <3>2, <3>3, <4>1 DEF Fresh
      <4>. QED  BY <3>3, <4>1, <4>2, <4>3 DEF Fresh
    <3>7. Delivers(t, current, old)
      BY <2>1, <3>1, <3>3, <1>2 DEF Delivers, Live, IInv, StateOK, StreamType, Nothing
    <3>8. Good(t, current, old)  BY <3>4, <3>5, <3>6, <3>7 DEF Good
    <3>. QED  BY <3>3, <3>8 DEF s, t
  <2>. QED  BY <2>2, <2>3
<1>4. StateOK'  BY <1>1, <1>2, <1>3 DEF IInv, StateOK
<1>. QED  BY <1>1, <1>3, <1>4 DEF IInv

-----------------------------------------------------------------------------
(* A step of one client's stream. *)

LEMMA OneStream ==
    ASSUME IInv, NEW c \in Clients, NEW new \in StreamType, Good(new, current, age),
           stream' = [stream EXCEPT ![c] = new], UNCHANGED <<current, age>>
    PROVE  IInv'
<1>1. StateOK'  BY DEF IInv, StateOK
<1>2. \A d \in Clients : stream'[d] = new \/ stream'[d] = stream[d]
  BY DEF IInv, StateOK
<1>3. \A d \in Clients : Good(stream[d], current, age)  BY DEF IInv
<1>4. \A d \in Clients : Good(stream'[d], current, age)  BY <1>2, <1>3
<1>. QED  BY <1>1, <1>4 DEF IInv

LEMMA IdleIInv ==
    ASSUME IInv, NEW c \in Clients, Accept(c) \/ LeaveEarly(c) \/ Leave(c) \/ Start(c)
    PROVE  IInv'
<1>1. stream[c] \in StreamType  BY DEF IInv, StateOK
<1>2. NoStream \in StreamType /\ Good(NoStream, current, age)
  BY DEF NoStream, StreamType, Nothing, Comment, Started, Good
<1>3. CASE LeaveEarly(c) \/ Leave(c)
  BY <1>2, <1>3, OneStream DEF LeaveEarly, Leave
<1>4. CASE Accept(c)
  <2>. DEFINE new == [stream[c] EXCEPT !.pc = "accepted"]
  <2>1. new \in StreamType /\ Good(new, current, age)
    BY <1>1 DEF StreamType, Good, Started
  <2>2. stream' = [stream EXCEPT ![c] = new] /\ UNCHANGED <<current, age>>
    BY <1>4 DEF Accept
  <2>. QED  BY <2>1, <2>2, OneStream
<1>5. CASE Start(c)
  <2>. DEFINE new == [NoStream EXCEPT !.pc = "sleeping"]
  <2>1. /\ new \in StreamType /\ new.pc = "sleeping" /\ new.wake = 0 /\ new.last = Nothing
        /\ new.unavailableSent = FALSE /\ new.shown = Nothing /\ new.silence = 0
        /\ new.sent = Nothing
        /\ new.blocked = 0
    <3>1. new \in StreamType
      <4>1. NoStream \in StreamType  BY <1>2
      <4>. HIDE DEF NoStream
      <4>. QED  BY <4>1 DEF StreamType
    <3>. QED  BY <3>1 DEF NoStream
  <2>2. stream' = [stream EXCEPT ![c] = new] /\ UNCHANGED <<current, age>>
    BY <1>5 DEF Start
  <2>. HIDE DEF new
  <2>3. Good(new, current, age)
    BY <2>1 DEF Good, Agrees, Told, Owes, Fresh, Delivers, IInv, StateOK, Nothing
  <2>. QED  BY <2>1, <2>2, <2>3, OneStream
<1>. QED  BY <1>3, <1>4, <1>5

LEMMA YieldedIInv ==
    ASSUME IInv, NEW c \in Clients, Yielded(c)
    PROVE  IInv'
<1>. DEFINE s == stream[c]  t == Got(s)
<1>1. s \in StreamType  BY DEF IInv, StateOK
<1>2. s.pc = "yielding" /\ stream' = [stream EXCEPT ![c] = t] /\ UNCHANGED <<current, age>>
  BY DEF Yielded
<1>3. Agrees(s, current, age) /\ Owes(s, current, age) /\ Fresh(s, current, age)
      /\ Delivers(s, current, age)
  BY <1>2 DEF IInv, Good, Started
<1>4. s.event = Unavailable => s.owed > 0  BY <1>2, <1>3 DEF Owes
<1>5. /\ t \in StreamType /\ t.pc = "sleeping" /\ t.wake = 1 /\ t.last = s.last
      /\ t.unavailableSent = s.unavailableSent /\ t.silence = s.silence
      /\ t.lastAge = s.lastAge /\ t.blocked = s.blocked /\ t.sent = s.sent
      /\ t.shown = (IF s.event = Comment THEN s.shown ELSE s.event)
      /\ t.owed = (IF s.event = Unavailable THEN s.owed - 1 ELSE s.owed)
  <2>. DEFINE shows == IF s.event = Comment THEN s.shown ELSE s.event
              owes == IF s.event = Unavailable THEN s.owed - 1 ELSE s.owed
  <2>1. shows \in Nat /\ owes \in Nat  BY <1>1, <1>4 DEF StreamType
  <2>2. t = [s EXCEPT !.pc = "sleeping", !.wake = 1, !.shown = shows, !.owed = owes]
    BY DEF Got
  <2>. HIDE DEF s, t, shows, owes
  <2>3. t \in StreamType  BY <1>1, <2>1, <2>2 DEF StreamType
  <2>4. t.unavailableSent = s.unavailableSent  BY <1>1, <2>2 DEF StreamType
  <2>5. /\ t.pc = "sleeping" /\ t.wake = 1 /\ t.last = s.last /\ t.silence = s.silence
        /\ t.lastAge = s.lastAge /\ t.blocked = s.blocked /\ t.sent = s.sent
        /\ t.shown = shows /\ t.owed = owes
    BY <1>1, <2>2 DEF StreamType
  <2>. QED  BY <2>3, <2>4, <2>5 DEF shows, owes
<1>. HIDE DEF s, t
<1>6. Agrees(t, current, age)  BY <1>2, <1>3, <1>5 DEF Agrees, Told
<1>7. Owes(t, current, age)
  BY <1>1, <1>2, <1>3, <1>5 DEF Owes, Agrees, StreamType
<1>8. Fresh(t, current, age)
  BY <1>1, <1>2, <1>3, <1>5 DEF Fresh, StreamType
<1>9. Delivers(t, current, age)  BY <1>2, <1>3, <1>5 DEF Delivers
<1>10. Good(t, current, age)  BY <1>6, <1>7, <1>8, <1>9 DEF Good
<1>. QED  BY <1>2, <1>5, <1>10, OneStream

\* What a yield does to the generator it is given.
LEMMA YieldFields ==
    ASSUME NEW s \in StreamType, NEW what \in Nat
    PROVE  LET t == [s EXCEPT !.pc = "yielding", !.event = what, !.silence = 0, !.blocked = 0,
                              !.sent = IF what \in Records THEN what ELSE @]
           IN /\ t \in StreamType /\ t.pc = "yielding" /\ t.event = what /\ t.silence = 0
              /\ t.blocked = 0 /\ t.last = s.last /\ t.unavailableSent = s.unavailableSent
              /\ t.shown = s.shown /\ t.lastAge = s.lastAge /\ t.owed = s.owed
              /\ t.sent = IF what \in Records THEN what ELSE s.sent
<1>. DEFINE sends == IF what \in Records THEN what ELSE s.sent
            r == [s EXCEPT !.pc = "yielding", !.event = what]
            t == [s EXCEPT !.pc = "yielding", !.event = what, !.silence = 0, !.blocked = 0,
                           !.sent = sends]
<1>1. sends \in Nat  BY DEF StreamType
<1>. HIDE DEF sends
<1>2. r \in StreamType  BY DEF StreamType
<1>3. t = [r EXCEPT !.silence = 0, !.blocked = 0, !.sent = sends]  BY DEF StreamType
<1>4. t \in StreamType
  <2>. HIDE DEF r, t
  <2>. QED  BY <1>1, <1>2, <1>3 DEF StreamType
<1>5. t.unavailableSent = s.unavailableSent  BY DEF StreamType
<1>6. /\ t.pc = "yielding" /\ t.event = what /\ t.silence = 0 /\ t.blocked = 0
      /\ t.last = s.last /\ t.shown = s.shown /\ t.lastAge = s.lastAge
      /\ t.owed = s.owed /\ t.sent = sends
  BY DEF StreamType
<1>. QED  BY <1>4, <1>5, <1>6 DEF sends

LEMMA YieldIInv ==
    ASSUME IInv, NEW c \in Clients, NEW s \in StreamType, NEW what \in Nat,
           Yield(c, s, what),
           s.last <= current,
           (IF what \in Records THEN what ELSE s.sent) = s.last,
           (IF what # Comment THEN what ELSE s.shown)
               = (IF s.unavailableSent THEN Unavailable ELSE s.last),
           s.unavailableSent => s.last # Nothing /\ (age > Stale \/ s.last < current),
           what = Unavailable => s.unavailableSent /\ s.owed > 0,
           s.last # Nothing /\ ~s.unavailableSent =>
               age <= Stale /\ s.last = current /\ s.lastAge <= age,
           State # Nothing => s.last = current /\ ~s.unavailableSent,
           s.last = current /\ s.last # Nothing /\ age <= Stale => s.lastAge <= age
    PROVE  IInv'
<1>. DEFINE t == [s EXCEPT !.pc = "yielding", !.event = what, !.silence = 0, !.blocked = 0,
                           !.sent = IF what \in Records THEN what ELSE @]
<1>1. stream' = [stream EXCEPT ![c] = t] /\ UNCHANGED <<current, age>>
  BY DEF Yield
<1>2. /\ t \in StreamType /\ t.pc = "yielding" /\ t.event = what /\ t.silence = 0
      /\ t.blocked = 0 /\ t.last = s.last /\ t.unavailableSent = s.unavailableSent
      /\ t.shown = s.shown /\ t.lastAge = s.lastAge /\ t.owed = s.owed
      /\ t.sent = IF what \in Records THEN what ELSE s.sent
  BY YieldFields
<1>. HIDE DEF t
<1>3. current \in Nat /\ age \in Nat  BY DEF IInv, StateOK
<1>4. Agrees(t, current, age)  BY <1>2 DEF Agrees, Told
<1>5. Owes(t, current, age)  BY <1>2, <1>3 DEF Owes, Live, Nothing
<1>6. Fresh(t, current, age)  BY <1>2, <1>3 DEF Fresh, StreamType
<1>7. Delivers(t, current, age)  BY <1>2 DEF Delivers, Live, State
<1>8. Good(t, current, age)  BY <1>4, <1>5, <1>6, <1>7 DEF Good
<1>. QED  BY <1>1, <1>2, <1>8, OneStream

\* What a generator that polls knows.
LEMMA PollFacts ==
    ASSUME IInv, NEW c \in Clients, Polls(c)
    PROVE  LET s == stream[c] IN
           /\ s \in StreamType /\ s.last <= current /\ s.sent = s.last
           /\ s.shown = IF s.unavailableSent THEN Unavailable ELSE s.last
           /\ s.unavailableSent => s.last # Nothing /\ (age > Stale \/ s.last < current)
           /\ s.last # Nothing /\ ~s.unavailableSent /\ State = Nothing => s.owed > 0
           /\ s.last = current /\ s.last # Nothing /\ age <= Stale => s.lastAge <= age
<1>1. stream[c].pc = "sleeping"  BY DEF Polls
<1>2. stream[c] \in StreamType  BY DEF IInv, StateOK
<1>3. Good(stream[c], current, age)  BY DEF IInv
<1>. QED  BY <1>1, <1>2, <1>3 DEF Good, Started, Agrees, Told, Owes, Fresh, Live, State

LEMMA PollIInv ==
    ASSUME IInv, NEW c \in Clients,
           PollsNewState(c) \/ PollsOutage(c) \/ PollsKeepalive(c) \/ PollsNothing(c)
    PROVE  IInv'
<1>. DEFINE s == stream[c]
<1>1. Polls(c)  BY DEF PollsNewState, PollsOutage, PollsKeepalive, PollsNothing
<1>2. /\ s \in StreamType /\ s.last <= current /\ s.sent = s.last
      /\ s.shown = IF s.unavailableSent THEN Unavailable ELSE s.last
      /\ s.unavailableSent => s.last # Nothing /\ (age > Stale \/ s.last < current)
      /\ s.last # Nothing /\ ~s.unavailableSent /\ State = Nothing => s.owed > 0
      /\ s.last = current /\ s.last # Nothing /\ age <= Stale => s.lastAge <= age
  BY <1>1, PollFacts
<1>3. /\ current \in Nat /\ age \in Nat /\ current <= MaxRecords
      /\ Comment \in Nat /\ Unavailable \in Nat /\ Unavailable # Comment
      /\ current # Comment /\ s.last # Comment /\ current # Unavailable
      /\ Comment \notin Records /\ Unavailable \notin Records
      /\ current # Nothing => current \in Records
  BY <1>2 DEF IInv, StateOK, StreamType, Comment, Unavailable, Records, Nothing
<1>4. CASE PollsNewState(c)
  <2>. DEFINE new == [s EXCEPT !.last = State, !.lastAge = age, !.unavailableSent = FALSE]
  <2>1. State = current /\ age <= Stale /\ State # Nothing
    BY <1>3, <1>4 DEF PollsNewState, IsNew, State, Nothing
  <2>2. /\ new \in StreamType /\ new.last = current /\ new.lastAge = age
        /\ new.unavailableSent = FALSE
    BY <1>2, <1>3, <2>1 DEF StreamType
  <2>3. Yield(c, new, current)  BY <1>4, <2>1 DEF PollsNewState
  <2>. HIDE DEF new
  <2>. QED  BY <1>3, <2>1, <2>2, <2>3, YieldIInv
<1>5. CASE PollsOutage(c)
  <2>. DEFINE new == [s EXCEPT !.unavailableSent = TRUE]
  <2>1. State = Nothing /\ s.last # Nothing /\ ~s.unavailableSent
    BY <1>5 DEF PollsOutage, IsLost
  <2>2. age > Stale  BY <1>2, <1>3, <2>1 DEF State, StreamType, Nothing
  <2>3. /\ new \in StreamType /\ new.last = s.last /\ new.lastAge = s.lastAge
        /\ new.unavailableSent = TRUE /\ new.owed = s.owed /\ new.sent = s.sent
    BY <1>2 DEF StreamType
  <2>4. Yield(c, new, Unavailable)  BY <1>5 DEF PollsOutage
  <2>. HIDE DEF new
  <2>. QED  BY <1>2, <1>3, <2>1, <2>2, <2>3, <2>4, YieldIInv
<1>6. CASE PollsKeepalive(c) \/ PollsNothing(c)
  <2>1. (State = Nothing \/ State = s.last)
        /\ (State = Nothing => s.last = Nothing \/ s.unavailableSent)
    BY <1>6 DEF PollsKeepalive, PollsNothing, IsNew, IsLost
  <2>2. /\ State # Nothing => s.last = current /\ ~s.unavailableSent /\ age <= Stale
        /\ s.last # Nothing /\ ~s.unavailableSent =>
               age <= Stale /\ s.last = current /\ s.lastAge <= age
    BY <1>2, <1>3, <2>1 DEF State, StreamType, Nothing
  <2>3. CASE PollsKeepalive(c)
    <3>1. Yield(c, s, Comment)  BY <2>3 DEF PollsKeepalive
    <3>. HIDE DEF s
    <3>. QED  BY <1>2, <1>3, <2>2, <3>1, YieldIInv
  <2>4. CASE PollsNothing(c)
    <3>. DEFINE new == [s EXCEPT !.wake = 1, !.blocked = 0]
    <3>1. /\ new \in StreamType /\ new.pc = "sleeping" /\ new.wake = 1 /\ new.blocked = 0
          /\ new.last = s.last /\ new.unavailableSent = s.unavailableSent
          /\ new.shown = s.shown /\ new.lastAge = s.lastAge /\ new.owed = s.owed
          /\ new.silence = s.silence /\ new.sent = s.sent
      <4>1. s \in StreamType /\ s.pc = "sleeping"  BY <1>1, <1>2 DEF Polls
      <4>. HIDE DEF s
      <4>2. new \in StreamType  BY <4>1 DEF StreamType
      <4>3. new.unavailableSent = s.unavailableSent  BY <4>1 DEF StreamType
      <4>4. /\ new.pc = "sleeping" /\ new.wake = 1 /\ new.blocked = 0
            /\ new.last = s.last /\ new.shown = s.shown /\ new.lastAge = s.lastAge
            /\ new.owed = s.owed /\ new.silence = s.silence /\ new.sent = s.sent
        BY <4>1 DEF StreamType
      <4>. QED  BY <4>2, <4>3, <4>4
    <3>2. stream' = [stream EXCEPT ![c] = new] /\ UNCHANGED <<current, age>>
      BY <2>4, <1>2 DEF PollsNothing, IInv, StateOK, StreamType
    <3>3. s.silence < Keepalive
      BY <2>4, <1>2 DEF PollsNothing, IsQuiet, StreamType
    <3>. HIDE DEF s, new
    <3>4. Agrees(new, current, age)  BY <1>2, <3>1 DEF Agrees, Told
    <3>5. Owes(new, current, age)
      BY <1>2, <2>2, <3>1 DEF Owes, Live, State
    <3>6. Fresh(new, current, age)
      BY <1>2, <1>3, <2>2, <3>1, <3>3 DEF Fresh, StreamType
    <3>7. Delivers(new, current, age)  BY <2>2, <3>1 DEF Delivers, Live, State
    <3>8. Good(new, current, age)  BY <3>4, <3>5, <3>6, <3>7 DEF Good
    <3>. QED  BY <3>1, <3>2, <3>8, OneStream
  <2>. QED  BY <1>6, <2>3, <2>4
<1>. QED  BY <1>4, <1>5, <1>6

LEMMA StepIInv == IInv /\ [Next]_vars => IInv'
<1>. SUFFICES ASSUME IInv, [Next]_vars PROVE IInv'  OBVIOUS
<1>1. CASE SetState  BY <1>1, SetStateIInv
<1>2. CASE Tick  BY <1>2, TickIInv
<1>3. ASSUME NEW c \in Clients, Accept(c) \/ LeaveEarly(c) \/ Leave(c) \/ Generator(c)
      PROVE  IInv'
  BY <1>3, IdleIInv, YieldedIInv, PollIInv DEF Generator
<1>4. CASE UNCHANGED vars  BY <1>4 DEF vars, IInv, StateOK
<1>. QED  BY <1>1, <1>2, <1>3, <1>4 DEF Next

LEMMA AlwaysIInv == Spec => []IInv
<1>. QED  BY InitIInv, StepIInv, PTL DEF Spec

-----------------------------------------------------------------------------
(* A client that stream() told of an outage was connected when one began   *)
(* that it had not been told of.                                           *)
THEOREM NoticesAnswer == Spec => []NoticesAnswerOutages
<1>1. IInv => NoticesAnswerOutages
  BY DEF IInv, Good, Started, Owes, NoticesAnswerOutages
<1>. QED  BY <1>1, AlwaysIInv, PTL

(* What a client of stream() shows is no older than the stale time-out,    *)
(* one poll and the time it held up its own event.                         *)
THEOREM ShownRecent == Spec => []ShownIsRecent
<1>1. ASSUME IInv, NEW c \in Clients, stream[c].pc = "sleeping", stream[c].shown \in Records
      PROVE  stream[c].shown = stream[c].last
             /\ stream[c].lastAge <= Stale + 1 + stream[c].blocked
  <2>. DEFINE s == stream[c]
  <2>1. s \in StreamType  BY <1>1 DEF IInv, StateOK
  <2>2. Agrees(s, current, age) /\ Fresh(s, current, age)
    BY <1>1 DEF IInv, Good, Started
  <2>. HIDE DEF s
  <2>3. s.pc = "sleeping" /\ s.shown \in 1 .. MaxRecords  BY <1>1 DEF s, Records
  <2>4. s.shown # Unavailable /\ s.shown # Nothing  BY <2>3 DEF Unavailable, Nothing
  <2>5. s.shown = s.last /\ ~s.unavailableSent  BY <2>2, <2>3, <2>4 DEF Agrees, Told
  <2>6. s.lastAge <= Stale + 1 + s.blocked
    BY <2>1, <2>2, <2>3, <2>4, <2>5 DEF Fresh, StreamType
  <2>. QED  BY <2>5, <2>6 DEF s
<1>2. IInv => ShownIsRecent  BY <1>1 DEF ShownIsRecent
<1>. QED  BY <1>2, AlwaysIInv, PTL

(* A generator that waits has spoken within the keepalive interval, or its *)
(* client held it up.                                                      *)
THEOREM SilenceBroken == Spec => []SilenceIsBroken
<1>1. ASSUME IInv, NEW c \in Clients, stream[c].pc = "sleeping"
      PROVE  stream[c].silence <= Keepalive \/ stream[c].silence <= stream[c].blocked + 1
  <2>1. stream[c] \in StreamType /\ Fresh(stream[c], current, age)
    BY <1>1 DEF IInv, StateOK, Good, Started
  <2>. QED  BY <1>1, <2>1 DEF Fresh, StreamType
<1>2. IInv => SilenceIsBroken  BY <1>1 DEF SilenceIsBroken
<1>. QED  BY <1>2, AlwaysIInv, PTL

(* A generator that polled in this second shows the live record, or one    *)
(* that came while its client held up the last event.                      *)
THEOREM Delivered == Spec => []RecordIsDelivered
<1>1. ASSUME IInv, NEW c \in Clients, stream[c].pc = "sleeping", stream[c].wake = 1,
             State # Nothing, age > stream[c].blocked
      PROVE  stream[c].last = State /\ stream[c].shown = State
  <2>1. Agrees(stream[c], current, age) /\ Delivers(stream[c], current, age)
    BY <1>1 DEF IInv, Good, Started
  <2>2. stream[c].last = current /\ ~stream[c].unavailableSent
    BY <1>1, <2>1 DEF Delivers, Live, State
  <2>. QED  BY <1>1, <2>1, <2>2 DEF Agrees, Told, State
<1>2. IInv => RecordIsDelivered  BY <1>1 DEF RecordIsDelivered
<1>. QED  BY <1>2, AlwaysIInv, PTL

-----------------------------------------------------------------------------
(* Slots. *)

Opened == {c \in Clients : stream[c].pc # "none"}

SlotsOK ==
    /\ stream \in [Clients -> StreamType] /\ leaks \in Nat
    /\ active = Cardinality(Opened) + leaks

LEMMA OpenedFinite == IsFiniteSet(Opened) /\ Cardinality(Opened) \in Nat
BY FS_Subset, FS_CardinalityType DEF Opened

LEMMA SameOpened ==
    ASSUME SlotsOK, \A c \in Clients : stream'[c].pc = "none" <=> stream[c].pc = "none",
           stream' \in [Clients -> StreamType], UNCHANGED <<active, leaks>>
    PROVE  SlotsOK'
<1>1. Opened' = Opened  BY DEF Opened
<1>. QED  BY <1>1 DEF SlotsOK

LEMMA SlotsStep == IInv /\ IInv' /\ SlotsOK /\ [Next]_vars => SlotsOK'
<1>. SUFFICES ASSUME IInv, IInv', SlotsOK, [Next]_vars PROVE SlotsOK'  OBVIOUS
<1>0. stream \in [Clients -> StreamType] /\ stream' \in [Clients -> StreamType]
  BY DEF IInv, StateOK
<1>1. CASE SetState \/ UNCHANGED vars
  BY <1>0, <1>1, SameOpened DEF SetState, vars
<1>2. CASE Tick
  <2>1. \A c \in Clients : stream'[c] = Older(stream[c])  BY <1>2 DEF Tick
  <2>2. \A s \in StreamType : Older(s).pc = s.pc
    <3>1. ASSUME NEW s \in StreamType, ~Started(s) PROVE Older(s) = s  BY <3>1 DEF Older
    <3>. QED  BY <3>1, OlderFields
  <2>3. UNCHANGED <<active, leaks>>  BY <1>2 DEF Tick
  <2>. QED  BY <1>0, <2>1, <2>2, <2>3, SameOpened
<1>3. ASSUME NEW c \in Clients, Accept(c)
      PROVE  SlotsOK'
  <2>1. c \notin Opened /\ Opened' = Opened \cup {c}
    BY <1>0, <1>3 DEF Accept, Opened, StreamType
  <2>2. Cardinality(Opened') = Cardinality(Opened) + 1
    BY <2>1, OpenedFinite, FS_AddElement
  <2>3. active' = active + 1 /\ leaks' = leaks  BY <1>3 DEF Accept
  <2>. QED  BY <1>0, <2>2, <2>3, OpenedFinite DEF SlotsOK
<1>4. ASSUME NEW c \in Clients, LeaveEarly(c) \/ Leave(c)
      PROVE  SlotsOK'
  <2>1. stream[c].pc # "none" /\ stream' = [stream EXCEPT ![c] = NoStream]
    BY <1>4 DEF LeaveEarly, Leave, Started
  <2>2. c \in Opened /\ Opened' = Opened \ {c}
    BY <1>0, <2>1 DEF Opened, NoStream
  <2>3. Cardinality(Opened') = Cardinality(Opened) - 1
    BY <2>2, OpenedFinite, FS_RemoveElement
  <2>4. active' - leaks' = active - leaks - 1 /\ leaks' \in Nat /\ active' \in Int
    BY <1>4, OpenedFinite DEF LeaveEarly, Leave, SlotsOK
  <2>. QED  BY <1>0, <2>3, <2>4, OpenedFinite DEF SlotsOK
<1>5. ASSUME NEW c \in Clients, Generator(c)
      PROVE  SlotsOK'
  <2>1. stream[c] \in StreamType  BY <1>0
  <2>2. UNCHANGED <<active, leaks>>
    BY <1>5 DEF Generator, Start, PollsNewState, PollsOutage, PollsKeepalive, PollsNothing,
                Yielded, Yield
  <2>3. stream[c].pc # "none"
    BY <1>5 DEF Generator, Start, PollsNewState, PollsOutage, PollsKeepalive, PollsNothing,
                Yielded, Polls
  <2>4. \A d \in Clients \ {c} : stream'[d] = stream[d]
    BY <1>0, <1>5 DEF Generator, Start, PollsNewState, PollsOutage, PollsKeepalive,
                      PollsNothing, Yielded, Yield
  <2>5. stream'[c].pc # "none"
    <3>1. CASE Start(c)  BY <1>0, <3>1 DEF Start, NoStream
    <3>2. CASE Yielded(c)  BY <1>0, <2>1, <3>2 DEF Yielded, Got, StreamType
    <3>3. CASE PollsNothing(c)
      BY <1>0, <2>1, <3>3 DEF PollsNothing, Polls, StreamType
    <3>4. CASE PollsKeepalive(c)
      BY <1>0, <2>1, <3>4 DEF PollsKeepalive, Yield, StreamType
    <3>5. CASE PollsNewState(c)
      BY <1>0, <2>1, <3>5 DEF PollsNewState, Yield, StreamType
    <3>6. CASE PollsOutage(c)
      BY <1>0, <2>1, <3>6 DEF PollsOutage, Yield, StreamType
    <3>. QED  BY <1>5, <3>1, <3>2, <3>3, <3>4, <3>5, <3>6 DEF Generator
  <2>. QED  BY <1>0, <2>2, <2>3, <2>4, <2>5, SameOpened
<1>. QED  BY <1>1, <1>2, <1>3, <1>4, <1>5 DEF Next

(* The counter that caps the streams counts those that are open, and the   *)
(* clients whose slot no finally clause will ever give back.               *)
THEOREM SlotsCounted == Spec => []SlotsAreCounted
<1>1. Init => SlotsOK
  <2>. SUFFICES ASSUME Init PROVE SlotsOK  OBVIOUS
  <2>1. stream \in [Clients -> StreamType]  BY InitIInv DEF IInv, StateOK
  <2>2. Opened = {}  BY DEF Init, Opened, NoStream
  <2>3. Cardinality(Opened) = 0  BY <2>2, FS_EmptySet
  <2>. QED  BY <2>1, <2>3 DEF Init, SlotsOK
<1>2. SlotsOK => SlotsAreCounted  BY DEF SlotsOK, SlotsAreCounted, Opened
<1>. QED  BY <1>1, <1>2, SlotsStep, AlwaysIInv, PTL DEF Spec

-----------------------------------------------------------------------------
Sends(s, t) == s.pc = "sleeping" /\ t.pc = "yielding" /\ t.event \in Records

Advances ==
    \A c \in Clients : Sends(stream[c], stream'[c]) => stream'[c].event > stream[c].sent

(* A generator of stream() yields a record only if it is newer than all it *)
(* has yielded: the identity check never lets one through a second time,   *)
(* not after a held-up yield and not across an outage.                     *)
THEOREM RecordsOnlyAdvance == Spec => RecordsAdvance
<1>1. IInv /\ [Next]_vars => [Advances]_vars
  <2>. SUFFICES ASSUME IInv, Next, NEW c \in Clients, Sends(stream[c], stream'[c])
                PROVE  stream'[c].event > stream[c].sent
    BY DEF Advances
  <2>0. stream[c].pc = "sleeping" /\ stream'[c].pc = "yielding" /\ stream'[c].event \in Records
    BY DEF Sends
  <2>1. /\ stream \in [Clients -> StreamType] /\ stream[c] \in StreamType
        /\ current \in Nat /\ current <= MaxRecords
        /\ stream[c].sent = stream[c].last /\ stream[c].last <= current
    BY <2>0 DEF IInv, StateOK, Good, Agrees, Started
  <2>2. ~SetState  BY <2>0 DEF SetState
  <2>3. ~Tick  BY <2>0, <2>1, OlderFields DEF Tick, Started
  <2>4. ASSUME NEW d \in Clients, Accept(d) \/ LeaveEarly(d) \/ Leave(d) \/ Start(d)
        PROVE  FALSE
    BY <2>0, <2>1, <2>4 DEF Accept, LeaveEarly, Leave, Start, NoStream, StreamType
  <2>5. ASSUME NEW d \in Clients, Yielded(d) \/ PollsNothing(d)
        PROVE  FALSE
    BY <2>0, <2>1, <2>5 DEF Yielded, Got, PollsNothing, StreamType
  <2>6. ASSUME NEW d \in Clients, NEW new, NEW what, Yield(d, new, what)
        PROVE  d = c /\ stream'[c].event = what
    BY <2>0, <2>1, <2>6 DEF Yield
  <2>7. ASSUME NEW d \in Clients, PollsKeepalive(d) \/ PollsOutage(d)
        PROVE  FALSE
    <3>1. stream'[c].event \in {Comment, Unavailable}
      BY <2>6, <2>7 DEF PollsKeepalive, PollsOutage
    <3>. QED  BY <2>0, <3>1 DEF Comment, Unavailable, Records
  <2>8. ASSUME NEW d \in Clients, PollsNewState(d)
        PROVE  stream'[c].event > stream[c].sent
    <3>1. d = c /\ stream'[c].event = State  BY <2>6, <2>8 DEF PollsNewState
    <3>2. State # Nothing /\ State # stream[c].last
      BY <2>8, <3>1 DEF PollsNewState, IsNew
    <3>3. State = current  BY <3>2 DEF State
    <3>. QED  BY <2>1, <3>1, <3>2, <3>3 DEF StreamType
  <2>. QED  BY <2>2, <2>3, <2>4, <2>5, <2>7, <2>8 DEF Next, Generator
<1>2. Spec => [][Advances]_vars  BY <1>1, AlwaysIInv, PTL DEF Spec
<1>. QED  BY <1>2 DEF RecordsAdvance, Advances, Sends
=============================================================================

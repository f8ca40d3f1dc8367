-------------------------- MODULE SerialReaderProofs --------------------------
(***************************************************************************)
(* The reader's records and the service's shutdown, for all delays in the  *)
(* order of the code's and any number of records, failures and replugs.    *)
(***************************************************************************)
EXTENDS SerialReader, FiniteSetTheorems, TLAPS

USE ReaderAssumption

LEMMA Delays == {Drain, StopWait, Grace, Longest} \subseteq Nat
<1>1. {Drain, StopWait, Grace} \subseteq Nat  OBVIOUS
<1>. QED  BY <1>1 DEF Longest

TaskOK ==
    /\ task \in {"opening", "reading", "inserting", "closing", "retry", "done"}
    /\ left \in Nat
    /\ task = "reading" => left <= ReadTimeout
    /\ cancelled \in BOOLEAN
    /\ cancelled => task \in {"closing", "done"}
    /\ "insert" \in abandoned => cancelled

\* Where the shutdown is tells what the reader and SQLite can still be at.
LifeOK ==
    /\ life \in {"serving", "draining", "stopping", "cancelling", "grace", "closing", "exited",
                 "gone"}
    /\ life # "serving" => stop = TRUE
    /\ life \in {"grace", "closing", "exited", "gone"} => task = "done"
    /\ database = "closed" => life \in {"exited", "gone"} /\ "insert" \notin abandoned

\* The insert of the last record has not ended.
Busy == task = "inserting" \/ "insert" \in abandoned

\* The records that a failure or the cancellation kept from being stored, if
\* only until the next COMMIT.
Dropped == pending \cup lost

RecordsOK ==
    /\ made \in Nat /\ failures \in Nat
    /\ stored \cap Dropped = {} /\ pending \cap lost = {}
    /\ ~Busy => stored \cup Dropped = 1 .. made
    /\ Busy => made > 0 /\ stored \cup Dropped = 1 .. (made - 1)
    /\ IsFiniteSet(Dropped)
    /\ Cardinality(Dropped) <=
          failures + (IF cancelled /\ "insert" \notin abandoned THEN 1 ELSE 0)

\* What is left of the shutdown's time-outs is left of the whole.
TimeOK ==
    /\ timer \in Nat /\ elapsed \in Nat
    /\ life = "serving" => elapsed = 0
    /\ life = "draining" => elapsed + timer + StopWait + Grace <= Longest
    /\ life = "stopping" => elapsed + timer + Grace <= Longest
    /\ life = "grace" => elapsed + timer <= Longest
    /\ elapsed <= Longest

\* A read and a retry that stop() finds under way end before its time-out.
EndsBefore ==
    life = "stopping" =>
        /\ task = "reading" => left < timer
        /\ task = "retry" => timer = StopWait

IInv == TaskOK /\ LifeOK /\ RecordsOK /\ TimeOK /\ EndsBefore

LEMMA InitIInv == Init => IInv
<1>. SUFFICES ASSUME Init PROVE IInv  OBVIOUS
<1>1. IsFiniteSet({}) /\ Cardinality({}) = 0  BY FS_EmptySet
<1>2. 1 .. 0 = {}  OBVIOUS
<1>3. RecordsOK
  <2>1. /\ Dropped = {} /\ stored = {} /\ pending = {} /\ lost = {} /\ made = 0
        /\ failures = 0 /\ ~Busy /\ ~cancelled
    BY DEF Init, Dropped, Busy
  <2>. QED  BY <1>1, <1>2, <2>1 DEF RecordsOK
<1>4. TaskOK /\ LifeOK /\ EndsBefore  BY DEF Init, TaskOK, LifeOK, EndsBefore
<1>5. TimeOK  BY DEF Init, TimeOK, Longest
<1>. QED  BY <1>3, <1>4, <1>5 DEF IInv

-----------------------------------------------------------------------------
(* The reader task. *)

\* A step of the task that ends no insert and begins none.
LEMMA QuietStep ==
    ASSUME IInv, task \notin {"inserting", "done"},
           task' \in {"opening", "reading", "closing", "retry", "done"}, left' \in Nat,
           task' = "reading" => left' = ReadTimeout,
           cancelled => task' = "done",
           stop => task' \in {"closing", "done"},
           UNCHANGED <<stop, cancelled, abandoned, recordVars, lifeVars>>
    PROVE  IInv'
<1>. USE DEF IInv
<1>1. UNCHANGED <<made, stored, pending, lost, failures, life, timer, database, elapsed>>
  BY DEF recordVars, lifeVars
<1>2. TaskOK'  BY DEF TaskOK
<1>3. LifeOK'  BY <1>1 DEF LifeOK
<1>4. RecordsOK'  BY <1>1 DEF RecordsOK, Dropped, Busy
<1>5. TimeOK'  BY Delays, <1>1 DEF TimeOK
<1>6. EndsBefore'  BY <1>1 DEF EndsBefore, LifeOK
<1>. QED  BY <1>2, <1>3, <1>4, <1>5, <1>6

LEMMA ReadOnFacts ==
    ASSUME ReadOn
    PROVE  /\ task' \in {"reading", "closing"} /\ left' \in Nat
           /\ task' = "reading" => left' = ReadTimeout /\ ~stop
           /\ stop => task' = "closing"
BY DEF ReadOn, Become

LEMMA TryAgainFacts ==
    ASSUME TryAgain
    PROVE  task' \in {"retry", "done"} /\ left' \in Nat /\ (stop => task' = "done")
BY DEF TryAgain, Become

LEMMA QuietIInv ==
    ASSUME IInv, OpenSucceeds \/ OpenFails \/ OtherLine \/ Waits
    PROVE  IInv'
<1>1. task \notin {"inserting", "done"}
  BY DEF OpenSucceeds, OpenFails, OtherLine, Hears, Waits, ReadTimesOut, ReadFails, PortClosed,
         RetryEnds
<1>2. UNCHANGED <<stop, cancelled, abandoned, recordVars, lifeVars>>
  BY DEF OpenSucceeds, OpenFails, OtherLine, Waits, ReadTimesOut, ReadFails, PortClosed, RetryEnds
<1>3. cancelled => task = "closing"  BY <1>1 DEF IInv, TaskOK
<1>4. CASE OpenSucceeds \/ OtherLine
  <2>1. ReadOn /\ ~cancelled  BY <1>3, <1>4 DEF OpenSucceeds, OtherLine, Hears
  <2>. QED  BY <1>1, <1>2, <2>1, ReadOnFacts, QuietStep
<1>5. CASE OpenFails
  <2>1. TryAgain /\ ~cancelled  BY <1>3, <1>5 DEF OpenFails
  <2>. QED  BY <1>1, <1>2, <2>1, TryAgainFacts, QuietStep
<1>6. CASE ReadTimesOut
  <2>1. ~cancelled  BY <1>3, <1>6 DEF ReadTimesOut
  <2>2. CASE ~stop
    <3>1. task' = "reading" /\ left' = ReadTimeout  BY <1>6, <2>2 DEF ReadTimesOut, Become
    <3>. QED  BY <1>1, <1>2, <2>1, <2>2, <3>1, QuietStep
  <2>3. CASE stop
    <3>1. task' = "closing" /\ left' = 0
      BY <1>6, <2>3 DEF ReadTimesOut, LineIsEmpty, ReadOn, Become
    <3>. QED  BY <1>1, <1>2, <2>1, <3>1, QuietStep
  <2>. QED  BY <2>2, <2>3
<1>7. CASE ReadFails
  <2>1. task' = "closing" /\ left' = 0 /\ ~cancelled  BY <1>3, <1>7 DEF ReadFails, Become
  <2>. QED  BY <1>1, <1>2, <2>1, QuietStep
<1>8. CASE PortClosed
  <2>1. /\ task' \in {"retry", "done"} /\ left' \in Nat
        /\ stop \/ cancelled => task' = "done"
    BY <1>8, TryAgainFacts DEF PortClosed, Become
  <2>. QED  BY <1>1, <1>2, <2>1, QuietStep
<1>9. CASE RetryEnds
  <2>1. /\ task' \in {"opening", "done"} /\ left' = 0 /\ ~cancelled
        /\ stop => task' = "done"
    BY <1>3, <1>9 DEF RetryEnds, Become
  <2>. QED  BY <1>1, <1>2, <2>1, QuietStep
<1>. QED  BY <1>4, <1>5, <1>6, <1>7, <1>8, <1>9 DEF Waits

LEMMA RecordLineIInv ==
    ASSUME IInv, RecordLine
    PROVE  IInv'
<1>. USE DEF IInv
<1>1. /\ task = "reading" /\ task' = "inserting" /\ left' = 0 /\ made' = made + 1
      /\ UNCHANGED <<stop, cancelled, abandoned, stored, pending, lost, failures, life, timer,
                     database, elapsed>>
  BY DEF RecordLine, Hears, Become, lifeVars
<1>2. ~cancelled /\ "insert" \notin abandoned  BY <1>1 DEF TaskOK
<1>3. RecordsOK'  BY <1>1, <1>2 DEF RecordsOK, Dropped, Busy
<1>4. TaskOK' /\ LifeOK' /\ TimeOK' /\ EndsBefore'
  BY <1>1 DEF TaskOK, LifeOK, TimeOK, EndsBefore
<1>. QED  BY <1>3, <1>4

\* A COMMIT that ends the last insert stores all but what SQLite rolled back.
LEMMA StoresFacts ==
    ASSUME RecordsOK, Busy, Stores
    PROVE  /\ made' = made
           /\ stored' \cap Dropped' = {} /\ stored' \cup Dropped' = 1 .. made
           /\ pending' \cap lost' = {}
           /\ IsFiniteSet(Dropped') /\ Cardinality(Dropped') <= Cardinality(Dropped)
           /\ Cardinality(Dropped') \in Nat /\ Cardinality(Dropped) \in Nat
<1>1. /\ stored' = stored \cup pending \cup {made} /\ pending' = {} /\ lost' = lost
      /\ Dropped' = lost /\ made' = made
  BY DEF Stores, Dropped
<1>2. /\ made \in Nat /\ made > 0 /\ stored \cup pending \cup lost = 1 .. (made - 1)
      /\ stored \cap lost = {} /\ pending \cap lost = {}
      /\ IsFiniteSet(Dropped) /\ lost \subseteq Dropped
  BY DEF RecordsOK, Dropped
<1>3. made \notin lost  BY <1>2
<1>4. stored \cup pending \cup {made} \cup lost = 1 .. made  BY <1>2
<1>5. /\ IsFiniteSet(lost) /\ Cardinality(lost) <= Cardinality(Dropped)
      /\ Cardinality(lost) \in Nat /\ Cardinality(Dropped) \in Nat
  BY <1>2, FS_Subset, FS_CardinalityType
<1>. QED  BY <1>1, <1>2, <1>3, <1>4, <1>5

\* One record more that is not stored.
LEMMA FailsFacts ==
    ASSUME RecordsOK, Busy, Fails
    PROVE  /\ made' = made
           /\ stored' \cap Dropped' = {} /\ stored' \cup Dropped' = 1 .. made
           /\ pending' \cap lost' = {}
           /\ IsFiniteSet(Dropped') /\ Cardinality(Dropped') = Cardinality(Dropped) + 1
           /\ Cardinality(Dropped) \in Nat
<1>1. Dropped' = Dropped \cup {made} /\ stored' = stored /\ made' = made
  BY DEF Fails, Dropped
<1>2. /\ made \in Nat /\ made > 0 /\ stored \cup Dropped = 1 .. (made - 1)
      /\ stored \cap Dropped = {} /\ pending \cap lost = {} /\ IsFiniteSet(Dropped)
  BY DEF RecordsOK
<1>3. made \notin stored /\ made \notin Dropped  BY <1>2
<1>4. stored \cup Dropped \cup {made} = 1 .. made  BY <1>2
<1>5. /\ IsFiniteSet(Dropped \cup {made})
      /\ Cardinality(Dropped \cup {made}) = Cardinality(Dropped) + 1
  BY <1>2, <1>3, FS_AddElement
<1>6. Cardinality(Dropped) \in Nat  BY <1>2, FS_CardinalityType
<1>7. pending' \cap lost' = {}  BY <1>2, <1>3 DEF Fails, Dropped
<1>. QED  BY <1>1, <1>2, <1>3, <1>4, <1>5, <1>6, <1>7

LEMMA InsertDoneIInv ==
    ASSUME IInv, InsertDone
    PROVE  IInv'
<1>. USE DEF IInv
<1>1. /\ task = "inserting" /\ Stores /\ ReadOn
      /\ UNCHANGED <<stop, cancelled, abandoned, failures, life, timer, database, elapsed>>
  BY DEF InsertDone, lifeVars
<1>2. /\ task' \in {"reading", "closing"} /\ left' \in Nat
      /\ task' = "reading" => left' = ReadTimeout /\ ~stop
  BY <1>1, ReadOnFacts
<1>3. ~cancelled /\ "insert" \notin abandoned  BY <1>1 DEF TaskOK
<1>4. Busy /\ ~Busy'  BY <1>1, <1>2, <1>3 DEF Busy
<1>5. RecordsOK'  BY <1>1, <1>3, <1>4, StoresFacts DEF RecordsOK
<1>6. TaskOK' /\ LifeOK' /\ TimeOK' /\ EndsBefore'
  BY <1>1, <1>2 DEF TaskOK, LifeOK, TimeOK, EndsBefore
<1>. QED  BY <1>5, <1>6

LEMMA InsertFailsIInv ==
    ASSUME IInv, InsertFails
    PROVE  IInv'
<1>. USE DEF IInv
<1>1. /\ task = "inserting" /\ task' = "closing" /\ left' = 0
      /\ Fails /\ failures' = failures + 1
      /\ UNCHANGED <<stop, cancelled, abandoned, life, timer, database, elapsed>>
  BY DEF InsertFails, Become, lifeVars
<1>2. ~cancelled /\ "insert" \notin abandoned  BY <1>1 DEF TaskOK
<1>3. Busy /\ ~Busy'  BY <1>1, <1>2 DEF Busy
<1>4. RecordsOK'  BY <1>1, <1>2, <1>3, FailsFacts DEF RecordsOK
<1>5. TaskOK' /\ LifeOK' /\ TimeOK' /\ EndsBefore'
  BY <1>1 DEF TaskOK, LifeOK, TimeOK, EndsBefore
<1>. QED  BY <1>4, <1>5

\* The thread of a cancelled open or insert comes to its end.
LEMMA AbandonedIInv ==
    ASSUME IInv, OpenEnds \/ StatementEnds
    PROVE  IInv'
<1>. USE DEF IInv
<1>1. /\ abandoned' \subseteq abandoned
      /\ UNCHANGED <<task, left, cancelled, stop, failures, life, timer, database, elapsed>>
  BY DEF OpenEnds, StatementEnds, taskVars, recordVars, lifeVars
<1>2. TaskOK' /\ LifeOK' /\ TimeOK' /\ EndsBefore'
  BY <1>1 DEF TaskOK, LifeOK, TimeOK, EndsBefore
<1>3. CASE OpenEnds
  <2>1. /\ "insert" \in abandoned' <=> "insert" \in abandoned
        /\ UNCHANGED <<made, stored, pending, lost>>
    BY <1>3 DEF OpenEnds, recordVars
  <2>2. RecordsOK'  BY <1>1, <2>1 DEF RecordsOK, Dropped, Busy
  <2>. QED  BY <1>2, <2>2
<1>4. CASE StatementEnds
  <2>1. "insert" \in abandoned /\ "insert" \notin abandoned' /\ (Stores \/ Fails)
    BY <1>4 DEF StatementEnds
  <2>2. cancelled /\ task # "inserting"  BY <2>1 DEF TaskOK
  <2>3. Busy /\ ~Busy'  BY <1>1, <2>1, <2>2 DEF Busy
  <2>4. RecordsOK'  BY <1>1, <2>1, <2>2, <2>3, StoresFacts, FailsFacts DEF RecordsOK
  <2>. QED  BY <1>2, <2>4
<1>. QED  BY <1>3, <1>4

-----------------------------------------------------------------------------
(* The shutdown. *)

LEMMA CancelStep ==
    ASSUME IInv, Cancel, task # "done"
    PROVE  TaskOK' /\ RecordsOK' /\ task' \in {"closing", "done"}
<1>. USE DEF IInv
<1>1. /\ cancelled' = TRUE /\ task' \in {"closing", "done"} /\ left' = 0
      /\ UNCHANGED <<made, stored, pending, lost, failures>>
  BY DEF Cancel, Become, recordVars
<1>2. TaskOK'  BY <1>1 DEF TaskOK
<1>3. Cardinality(Dropped) \in Nat  BY FS_CardinalityType DEF RecordsOK
<1>4. "insert" \in abandoned' <=> task = "inserting" \/ "insert" \in abandoned
  BY DEF Cancel
<1>5. task = "inserting" => ~cancelled /\ "insert" \notin abandoned  BY DEF TaskOK
<1>6. RecordsOK'  BY <1>1, <1>3, <1>4, <1>5 DEF RecordsOK, Dropped, Busy
<1>. QED  BY <1>1, <1>2, <1>6

LEMMA ForceExitIInv ==
    ASSUME IInv, ForceExit
    PROVE  IInv'
<1>. USE DEF IInv
<1>1. life = "draining" /\ UNCHANGED <<stop, database, elapsed>>
  BY DEF ForceExit
<1>2. CASE task = "done"
  <2>1. /\ life' = "closing" /\ timer' = 0
        /\ UNCHANGED <<task, left, cancelled, abandoned, made, stored, pending, lost, failures>>
    BY <1>2 DEF ForceExit, Enter, taskVars, recordVars
  <2>2. TaskOK' /\ RecordsOK'  BY <2>1 DEF TaskOK, RecordsOK, Dropped, Busy
  <2>3. LifeOK' /\ TimeOK' /\ EndsBefore'
    BY Delays, <1>1, <1>2, <2>1 DEF LifeOK, TimeOK, EndsBefore
  <2>. QED  BY <2>2, <2>3
<1>3. CASE task # "done"
  <2>1. life' = "stopping" /\ timer' = StopWait /\ Cancel
    BY <1>3 DEF ForceExit, Enter
  <2>2. TaskOK' /\ RecordsOK' /\ task' \in {"closing", "done"}
    BY <1>3, <2>1, CancelStep
  <2>3. LifeOK' /\ EndsBefore'
    BY <1>1, <2>1, <2>2 DEF LifeOK, EndsBefore
  <2>4. TimeOK'  BY Delays, <1>1, <2>1 DEF TimeOK
  <2>. QED  BY <2>2, <2>3, <2>4
<1>. QED  BY <1>2, <1>3

LEMMA StopTimesOutIInv ==
    ASSUME IInv, StopTimesOut
    PROVE  IInv'
<1>. USE DEF IInv
<1>1. /\ life = "stopping" /\ life' = "cancelling" /\ timer' = 0 /\ task # "done" /\ Cancel
      /\ UNCHANGED <<stop, database, elapsed>>
  BY DEF StopTimesOut, Enter
<1>2. TaskOK' /\ RecordsOK' /\ task' \in {"closing", "done"}
  BY <1>1, CancelStep
<1>3. LifeOK' /\ TimeOK' /\ EndsBefore'
  BY Delays, <1>1, <1>2 DEF LifeOK, TimeOK, EndsBefore
<1>. QED  BY <1>2, <1>3

\* The other steps of the shutdown leave the reader and its records alone.
LEMMA ShutdownIInv ==
    ASSUME IInv,
           Signal \/ StopBegins \/ StopEnds \/ CancelAwaited \/ GraceEnds \/ ProcessEnds
    PROVE  IInv'
<1>. USE DEF IInv
<1>0. UNCHANGED <<taskVars, abandoned, recordVars, elapsed>>
  BY DEF Signal, StopBegins, StopEnds, CancelAwaited, GraceEnds, ProcessEnds
<1>1. UNCHANGED <<task, left, cancelled, abandoned, made, stored, pending, lost, failures,
                  elapsed>>
  BY <1>0 DEF taskVars, recordVars
<1>2. TaskOK' /\ RecordsOK'  BY <1>1 DEF TaskOK, RecordsOK, Dropped, Busy
<1>3. CASE Signal
  <2>1. /\ life = "serving" /\ life' = "draining" /\ timer' = Drain /\ stop' = TRUE
        /\ database' = database
    BY <1>3 DEF Signal, Enter
  <2>. QED  BY <1>1, <1>2, <2>1 DEF LifeOK, TimeOK, EndsBefore, Longest
<1>4. CASE StopBegins
  <2>1. /\ life = "draining" /\ stop' = TRUE /\ database' = database
        /\ \/ task = "done" /\ life' = "closing" /\ timer' = 0
           \/ life' = "stopping" /\ timer' = StopWait
    BY <1>4 DEF StopBegins, Enter
  <2>2. task = "reading" => left < StopWait  BY DEF TaskOK
  <2>3. LifeOK'  BY <1>1, <1>2, <2>1, <2>2 DEF LifeOK
  <2>4. TimeOK'  BY Delays, <1>1, <1>2, <2>1, <2>2 DEF TimeOK
  <2>5. EndsBefore'  BY <1>1, <1>2, <2>1, <2>2 DEF EndsBefore
  <2>. QED  BY <1>2, <2>3, <2>4, <2>5
<1>5. CASE StopEnds
  <2>1. /\ life = "stopping" /\ task = "done" /\ UNCHANGED <<stop, database>>
        /\ \/ life' = "grace" /\ timer' = Grace
           \/ life' = "closing" /\ timer' = 0
    BY <1>5 DEF StopEnds, Enter
  <2>3. LifeOK'  BY <1>1, <1>2, <2>1 DEF LifeOK
  <2>4. TimeOK'  BY Delays, <1>1, <1>2, <2>1 DEF TimeOK
  <2>5. EndsBefore'  BY <1>1, <1>2, <2>1 DEF EndsBefore
  <2>. QED  BY <1>2, <2>3, <2>4, <2>5
<1>6. CASE CancelAwaited \/ GraceEnds
  <2>1. /\ life \in {"cancelling", "grace"} /\ task = "done" /\ UNCHANGED <<stop, database>>
        /\ life' = "closing" /\ timer' = 0
    BY <1>6 DEF CancelAwaited, GraceEnds, Enter, LifeOK
  <2>3. LifeOK'  BY <1>1, <1>2, <2>1 DEF LifeOK
  <2>4. TimeOK'  BY Delays, <1>1, <1>2, <2>1 DEF TimeOK
  <2>5. EndsBefore'  BY <1>1, <1>2, <2>1 DEF EndsBefore
  <2>. QED  BY <1>2, <2>3, <2>4, <2>5
<1>7. CASE ProcessEnds
  <2>1. life = "exited" /\ UNCHANGED <<stop, database>> /\ life' = "gone" /\ timer' = 0
    BY <1>7 DEF ProcessEnds, Enter
  <2>. QED  BY Delays, <1>1, <1>2, <2>1 DEF LifeOK, TimeOK, EndsBefore
<1>. QED  BY <1>3, <1>4, <1>5, <1>6, <1>7

\* close() runs behind the last statement, and rolls back what none committed.
LEMMA CloseDatabaseIInv ==
    ASSUME IInv, CloseDatabase
    PROVE  IInv'
<1>. USE DEF IInv
<1>1. /\ life = "closing" /\ "insert" \notin abandoned /\ life' = "exited" /\ timer' = 0
      /\ UNCHANGED <<task, left, cancelled, stop, abandoned, made, stored, failures, elapsed>>
  BY DEF CloseDatabase, Held, Enter, taskVars
<1>2. Dropped' = Dropped /\ pending' \cap lost' = {}  BY DEF CloseDatabase, Dropped
<1>3. RecordsOK'  BY <1>1, <1>2 DEF RecordsOK, Busy
<1>4. TaskOK' /\ LifeOK' /\ TimeOK' /\ EndsBefore'
  BY Delays, <1>1 DEF TaskOK, LifeOK, TimeOK, EndsBefore
<1>. QED  BY <1>3, <1>4

-----------------------------------------------------------------------------
(* The device and the clock. *)

LEMMA TickIInv ==
    ASSUME IInv, Tick
    PROVE  IInv'
<1>. USE DEF IInv
<1>1. /\ left' = Before(left) /\ timer' = Before(timer)
      /\ elapsed' = IF life = "serving" \/ Held THEN elapsed ELSE elapsed + 1
      /\ UNCHANGED <<task, cancelled, stop, abandoned, made, stored, pending, lost, failures,
                     life, database>>
  BY DEF Tick, recordVars
<1>2. /\ task = "reading" => left # 0
      /\ task = "retry" => ~stop
      /\ life \notin {"cancelling", "gone"}
      /\ life \in {"closing", "exited"} => Held
      /\ life \in {"draining", "stopping", "grace"} => timer # 0
  BY DEF Tick, Prompt
<1>3. /\ left' \in Nat /\ left' <= left /\ (left # 0 => left' = left - 1)
      /\ timer' \in Nat /\ (timer # 0 => timer' = timer - 1)
  BY <1>1 DEF Before, TaskOK, TimeOK
<1>4. TaskOK'  BY <1>1, <1>3 DEF TaskOK
<1>5. LifeOK' /\ RecordsOK'  BY <1>1 DEF LifeOK, RecordsOK, Dropped, Busy
<1>6. TimeOK'
  <2>1. CASE life \in {"serving", "closing", "exited"}
    BY <1>1, <1>2, <1>3, <2>1 DEF TimeOK
  <2>2. CASE life \in {"draining", "stopping", "grace"}
    <3>1. elapsed' \in {elapsed, elapsed + 1} /\ timer' = timer - 1  BY <1>1, <1>2, <1>3, <2>2
    <3>. QED  BY Delays, <1>1, <1>3, <2>2, <3>1 DEF TimeOK
  <2>. QED  BY <1>2, <2>1, <2>2 DEF LifeOK
<1>7. EndsBefore'
  BY <1>1, <1>2, <1>3 DEF EndsBefore, LifeOK, TaskOK, TimeOK
<1>. QED  BY <1>4, <1>5, <1>6, <1>7

LEMMA StepIInv == IInv /\ [Next]_vars => IInv'
<1>. SUFFICES ASSUME IInv, [Next]_vars PROVE IInv'  OBVIOUS
<1>1. CASE Reader
  BY <1>1, QuietIInv, RecordLineIInv, InsertDoneIInv, InsertFailsIInv DEF Reader, MayHang
<1>2. CASE Signal \/ Shutdown
  BY <1>2, ShutdownIInv, StopTimesOutIInv, CloseDatabaseIInv DEF Shutdown
<1>3. CASE ForceExit  BY <1>3, ForceExitIInv
<1>4. CASE Tick  BY <1>4, TickIInv
<1>5. CASE Replug \/ UNCHANGED vars
  <2>1. UNCHANGED <<taskVars, stop, abandoned, recordVars, lifeVars>>
    BY <1>5 DEF Replug, vars
  <2>2. UNCHANGED <<task, left, cancelled, stop, abandoned, made, stored, pending, lost, failures,
                    life, timer, database, elapsed>>
    BY <2>1 DEF taskVars, recordVars, lifeVars
  <2>. QED  BY <2>2 DEF IInv, TaskOK, LifeOK, RecordsOK, TimeOK, EndsBefore, Dropped, Busy
<1>6. CASE OpenEnds \/ StatementEnds  BY <1>6, AbandonedIInv
<1>. QED  BY <1>1, <1>2, <1>3, <1>4, <1>5, <1>6 DEF Next

LEMMA AlwaysIInv == Spec => []IInv
<1>. QED  BY InitIInv, StepIInv, PTL DEF Spec

-----------------------------------------------------------------------------
(* The lifespan of api.py closes the database after the reader's task is   *)
(* over and SQLite has ended its statement, however signals, time-outs and *)
(* a cancellation fall together.                                           *)
THEOREM DatabaseOutlives == Spec => []DatabaseOutlivesReader
<1>1. IInv => DatabaseOutlivesReader  BY DEF IInv, LifeOK, DatabaseOutlivesReader
<1>. QED  BY <1>1, AlwaysIInv, PTL

(* The three time-outs bound the shutdown but for the time in which it is  *)
(* Held: close() waits for a cancelled insert's statement, or              *)
(* asyncio.run() for the open after a SIGINT.                              *)
THEOREM ExitsTimely == Spec => []ExitsInTime
<1>1. IInv => ExitsInTime  BY DEF IInv, TimeOK, ExitsInTime
<1>. QED  BY <1>1, AlwaysIInv, PTL

(* Records that _loop() has set live are stored, or one failure or the     *)
(* cancellation accounts for each that is not.                             *)
THEOREM RecordsAccounted == Spec => []RecordsAccountedFor
<1>1. ASSUME IInv PROVE RecordsAccountedFor
  <2>. USE <1>1 DEF IInv
  <2>1. stored \cap (pending \cup lost) = {}  BY DEF RecordsOK, Dropped
  <2>2. 1 .. made = stored \cup pending \cup lost \cup UnderWay
    <3>1. CASE Busy  BY <3>1 DEF RecordsOK, Dropped, Busy, UnderWay
    <3>2. CASE ~Busy  BY <3>2 DEF RecordsOK, Dropped, Busy, UnderWay
    <3>. QED  BY <3>1, <3>2
  <2>3. Cardinality(pending \cup lost) <= failures + (IF cancelled THEN 1 ELSE 0)
    <3>1. Cardinality(Dropped) \in Nat  BY FS_CardinalityType DEF RecordsOK
    <3>. QED  BY <3>1 DEF RecordsOK, Dropped, TaskOK
  <2>. QED  BY <2>1, <2>2, <2>3 DEF RecordsAccountedFor
<1>. QED  BY <1>1, AlwaysIInv, PTL

Hung ==
    life = "stopping" /\ life' = "cancelling" => task \notin {"reading", "retry"}

(* stop()'s time-out is longer than a read and than the step of a retry:   *)
(* only an open or an insert is ever cancelled by it.                      *)
THEOREM OnlyHungCancelled == Spec => OnlyTheHungAreCancelled
<1>1. IInv /\ [Next]_vars => [Hung]_vars
  <2>. SUFFICES ASSUME IInv, Next, life = "stopping", life' = "cancelling"
                PROVE  task \notin {"reading", "retry"}
    BY DEF Hung
  <2>1. StopTimesOut
    BY DEF Next, Reader, MayHang, Waits, OpenSucceeds, OpenFails, OtherLine, RecordLine,
           InsertDone, InsertFails, ReadTimesOut, ReadFails, PortClosed, RetryEnds, Signal,
           Shutdown, StopBegins, StopEnds, CancelAwaited, GraceEnds, CloseDatabase, ProcessEnds,
           ForceExit, OpenEnds, StatementEnds, Replug, Tick, Enter, lifeVars
  <2>. QED  BY <2>1 DEF StopTimesOut, IInv, EndsBefore, TaskOK
<1>2. Spec => [][Hung]_vars  BY <1>1, AlwaysIInv, PTL DEF Spec
<1>. QED  BY <1>2 DEF OnlyTheHungAreCancelled, Hung
=============================================================================

---------------------------- MODULE StorageProofs ----------------------------
(***************************************************************************)
(* What Storage promises for every number of records, failures and         *)
(* restarts, every storage cap, cleanup share and polling limit.           *)
(***************************************************************************)
EXTENDS StorageLog, FiniteSetTheorems, TLAPS

USE StorageAssumption

-----------------------------------------------------------------------------
(* Databases one by one: what the table looks like after k records. *)

WellFormed(db, k) ==
    /\ IsDatabase(db)
    /\ db.seq <= k
    /\ \A i \in DOMAIN db.rows : i <= db.seq /\ db.rows[i] <= k
    /\ \A i \in DOMAIN db.rows, j \in Ids : i < j /\ j <= db.seq => j \in DOMAIN db.rows
    /\ \A i, j \in DOMAIN db.rows : i < j => db.rows[i] < db.rows[j]

LEMMA FiniteRows ==
    ASSUME NEW db, DOMAIN db.rows \subseteq Ids
    PROVE  IsFiniteSet(DOMAIN db.rows) /\ Cardinality(DOMAIN db.rows) \in Nat
<1>1. IsFiniteSet(Ids)  BY FS_Interval DEF Ids
<1>. QED  BY <1>1, FS_Subset, FS_CardinalityType

LEMMA PagesType == ASSUME NEW db, IsDatabase(db) PROVE Pages(db) \in Nat /\ Total(db) \in Nat
BY FiniteRows DEF Pages, Total, IsDatabase

LEMMA EmptyWellFormed == WellFormed(EmptyDatabase, 0)
BY DEF WellFormed, EmptyDatabase, IsDatabase

\* Inserting the next record keeps a database well formed.
LEMMA WithRowWellFormed ==
    ASSUME NEW k \in 0 .. MaxRecords, k < MaxRecords, NEW db, WellFormed(db, k)
    PROVE  WellFormed(WithRow(db, k + 1), k + 1)
<1>. DEFINE new == WithRow(db, k + 1)
<1>1. /\ new.seq = db.seq + 1
      /\ DOMAIN new.rows = DOMAIN db.rows \cup {db.seq + 1}
      /\ new.free \in Nat
      /\ DOMAIN new = {"rows", "seq", "free"}
  BY DEF WithRow, WellFormed, IsDatabase
<1>2. \A i \in DOMAIN new.rows : new.rows[i] = IF i = db.seq + 1 THEN k + 1 ELSE db.rows[i]
  BY DEF WithRow
<1>3. /\ db.seq \in 0 .. MaxRecords /\ db.seq <= k
      /\ DOMAIN db.rows \subseteq Ids
      /\ \A i \in DOMAIN db.rows : i <= db.seq /\ db.rows[i] <= k /\ db.rows[i] \in Records
  BY DEF WellFormed, IsDatabase
<1>. HIDE DEF new
<1>4. IsDatabase(new)
  BY <1>1, <1>2, <1>3 DEF IsDatabase, Ids, Records
<1>5. \A i \in DOMAIN new.rows : i <= new.seq /\ new.rows[i] <= k + 1
  BY <1>1, <1>2, <1>3 DEF Ids, Records
<1>6. \A i \in DOMAIN new.rows, j \in Ids : i < j /\ j <= new.seq => j \in DOMAIN new.rows
  BY <1>1, <1>3 DEF WellFormed, Ids
<1>7. \A i, j \in DOMAIN new.rows : i < j => new.rows[i] < new.rows[j]
  BY <1>1, <1>2, <1>3 DEF WellFormed, Ids, Records
<1>. QED  BY <1>1, <1>3, <1>4, <1>5, <1>6, <1>7 DEF WellFormed, new

\* Deleting the oldest rows keeps a database well formed.
LEMMA WithoutWellFormed ==
    ASSUME NEW k \in 0 .. MaxRecords, NEW db, WellFormed(db, k),
           NEW n \in Nat, NEW oldest \in Firsts(DOMAIN db.rows, n)
    PROVE  WellFormed(Without(db, oldest), k)
<1>. DEFINE new == Without(db, oldest)
<1>1. /\ DOMAIN new = {"rows", "seq", "free"}
      /\ new.seq = db.seq
      /\ DOMAIN new.rows = DOMAIN db.rows \ oldest
      /\ new.free = db.free + Cardinality(oldest)
      /\ \A i \in DOMAIN new.rows : new.rows[i] = db.rows[i]
  BY DEF Without
<1>2. IsDatabase(db) /\ oldest \subseteq DOMAIN db.rows
  BY DEF WellFormed, Firsts
<1>3. Cardinality(oldest) \in Nat
  BY <1>2, FiniteRows, FS_Subset, FS_CardinalityType DEF IsDatabase
<1>4. \A i \in oldest, j \in DOMAIN db.rows \ oldest : i < j
  BY DEF Firsts
<1>. HIDE DEF new
<1>5. IsDatabase(new)
  BY <1>1, <1>2, <1>3 DEF IsDatabase
<1>6. \A i \in DOMAIN new.rows, j \in Ids : i < j /\ j <= new.seq => j \in DOMAIN new.rows
  <2>. SUFFICES ASSUME NEW i \in DOMAIN new.rows, NEW j \in Ids, i < j, j <= new.seq
                PROVE  j \in DOMAIN new.rows
    OBVIOUS
  <2>1. j \in DOMAIN db.rows  BY <1>1 DEF WellFormed
  <2>2. j \notin oldest  BY <1>1, <1>2, <1>4 DEF IsDatabase, Ids
  <2>. QED  BY <1>1, <2>1, <2>2
<1>. QED  BY <1>1, <1>5, <1>6 DEF WellFormed, new

\* A database differing in its free pages only has the same table.
LEMMA VacuumWellFormed ==
    ASSUME NEW k, NEW db, WellFormed(db, k), db.free > 0
    PROVE  LET new == [db EXCEPT !.free = @ - 1]
           IN  WellFormed(new, k) /\ new.rows = db.rows /\ new.seq = db.seq
<1>1. DOMAIN db = {"rows", "seq", "free"} /\ db.free \in Nat
  BY DEF WellFormed, IsDatabase
<1>. DEFINE new == [db EXCEPT !.free = @ - 1]
<1>2. /\ DOMAIN new = {"rows", "seq", "free"}
      /\ new.rows = db.rows /\ new.seq = db.seq /\ new.free \in Nat
  BY <1>1
<1>. HIDE DEF new
<1>3. WellFormed(new, k)  BY <1>2 DEF WellFormed, IsDatabase
<1>. QED  BY <1>2, <1>3 DEF new

-----------------------------------------------------------------------------
(* The inductive invariant. *)

Rest == {committed} \cup survivors

ScalarsOK ==
    /\ file \in Nat /\ wal \in Nat /\ pc \in PCs /\ toDelete \in Nat
    /\ made \in 0 .. MaxRecords
    /\ failures \in 0 .. MaxFailures /\ restarts \in 0 .. MaxRestarts

ClientOK ==
    /\ cursor \in 0 .. MaxRecords
    /\ got \subseteq Ids \X Records
    /\ select = NoSelect \/ select \in [id: Ids, rec: Records, limit: Limits]
    /\ undone \subseteq Ids

\* Every state of the database, present or recoverable, is well formed.
TablesOK == WellFormed(work, made) /\ \A db \in Rest : WellFormed(db, made)

\* What a restart can bring back is not ahead of the connection's view, and
\* agrees with it on every row neither has seen taken back.
RestIsOlder ==
    \A db \in Rest :
        /\ db.seq <= work.seq
        /\ \A i \in DOMAIN db.rows \cap DOMAIN work.rows :
              i \notin undone => db.rows[i] = work.rows[i]

SurvivorsAreOlder == \A db \in survivors : db.seq <= committed.seq

\* Ids the client is past, and the table is not, were taken back.
AheadWasUndone ==
    \A i \in Ids : work.seq < i /\ (i <= cursor \/ i <= select.id) => i \in undone

\* A SELECT under way has its first row right and no row before it to show.
SelectIsNext ==
    select # NoSelect =>
        \A i \in DOMAIN work.rows \ undone :
            /\ cursor < i => select.id <= i
            /\ i = select.id => work.rows[i] = select.rec

IInv == /\ ScalarsOK /\ ClientOK /\ TablesOK
        /\ RestIsOlder /\ SurvivorsAreOlder
        /\ AheadWasUndone /\ SelectIsNext /\ SkipsOnlyWhatWasUndone

LEMMA IInvTypes ==
    ASSUME IInv
    PROVE  /\ TypeOK
           /\ work.seq \in 0 .. MaxRecords /\ DOMAIN work.rows \subseteq Ids
           /\ \A i \in DOMAIN work.rows : i <= work.seq /\ work.rows[i] \in Records
           /\ \A db \in Rest : /\ db.seq \in 0 .. MaxRecords
                                /\ DOMAIN db.rows \subseteq Ids
                                /\ \A i \in DOMAIN db.rows : i <= db.seq
<1>1. TypeOK
  BY DEF IInv, ScalarsOK, ClientOK, TablesOK, WellFormed, Rest, TypeOK
<1>. QED  BY <1>1 DEF IInv, TablesOK, WellFormed, IsDatabase

LEMMA InitIInv == Init => IInv
<1>. SUFFICES ASSUME Init PROVE IInv  OBVIOUS
<1>. USE DEF Init
<1>1. ScalarsOK  BY DEF ScalarsOK, PCs
<1>2. ClientOK  BY DEF ClientOK
<1>3. TablesOK  BY EmptyWellFormed DEF TablesOK, Rest
<1>4. work.seq = 0 /\ DOMAIN work.rows = {} /\ Rest = {work}
  BY DEF EmptyDatabase, Rest
<1>5. RestIsOlder  BY <1>4 DEF RestIsOlder
<1>8. SurvivorsAreOlder  BY <1>4 DEF SurvivorsAreOlder, EmptyDatabase
<1>6. AheadWasUndone  BY <1>4 DEF AheadWasUndone, NoSelect, Ids
<1>7. SelectIsNext /\ SkipsOnlyWhatWasUndone
  BY <1>4 DEF SelectIsNext, SkipsOnlyWhatWasUndone
<1>. QED  BY <1>1, <1>2, <1>3, <1>5, <1>6, <1>7, <1>8 DEF IInv

\* A step of the writer that hands nothing back: the table keeps its rows or
\* loses some, and what it commits is the view it leaves.
LEMMA KeepsOrShrinks ==
    ASSUME IInv, ScalarsOK', made <= made', UNCHANGED clientVars,
           WellFormed(work', made), work'.seq = work.seq,
           DOMAIN work'.rows \subseteq DOMAIN work.rows,
           \A i \in DOMAIN work'.rows : work'.rows[i] = work.rows[i],
           committed' \in {committed, work'},
           survivors' \subseteq survivors \cup {committed'}
    PROVE  IInv'
<1>. USE DEF IInv
<1>1. ClientOK'  BY DEF ClientOK, clientVars
<1>2. TablesOK'
  <2>1. ASSUME NEW db, WellFormed(db, made) PROVE WellFormed(db, made')
    BY <2>1 DEF WellFormed, IsDatabase, ScalarsOK, Ids, Records
  <2>. QED  BY <2>1 DEF TablesOK, Rest
<1>3. Rest' \subseteq Rest \cup {work'}  BY DEF Rest
<1>4. work.seq \in 0 .. MaxRecords /\ \A db \in Rest : db.seq \in 0 .. MaxRecords
  BY IInvTypes
<1>5. RestIsOlder'
  BY <1>3, <1>4 DEF RestIsOlder, clientVars
<1>6. SurvivorsAreOlder'
  BY <1>4 DEF RestIsOlder, SurvivorsAreOlder, Rest
<1>7. AheadWasUndone' /\ SelectIsNext' /\ SkipsOnlyWhatWasUndone'
  BY DEF AheadWasUndone, SelectIsNext, SkipsOnlyWhatWasUndone, clientVars
<1>. QED  BY <1>1, <1>2, <1>5, <1>6, <1>7

\* A step that leaves the connection's view and the client alone.
LEMMA SameTables ==
    ASSUME IInv, ScalarsOK', made <= made', UNCHANGED <<work, clientVars>>,
           committed' \in {committed, work},
           survivors' \subseteq survivors \cup {committed'}
    PROVE  IInv'
BY KeepsOrShrinks DEF IInv, TablesOK

\* A commit of the connection's view, with or without a checkpoint.
LEMMA CommitEffect ==
    ASSUME NEW db, IsDatabase(db), ScalarsOK, Commit(db)
    PROVE  /\ committed' = db
           /\ survivors' \subseteq survivors \cup {db}
           /\ file' \in Nat /\ wal' \in Nat
BY PagesType DEF Commit, Checkpointed, ScalarsOK

LEMMA ExecuteIInv ==
    ASSUME IInv, Execute
    PROVE  IInv'
<1>. USE DEF IInv
<1>. DEFINE id == work.seq + 1
<1>1. /\ made \in 0 .. MaxRecords /\ made < MaxRecords /\ made' = made + 1
      /\ work' = WithRow(work, made + 1) /\ UNCHANGED clientVars
      /\ UNCHANGED <<committed, survivors>>
  BY DEF Execute, ScalarsOK
<1>2. ScalarsOK'  BY DEF ScalarsOK, Execute, PCs
<1>3. ClientOK'  BY <1>1 DEF ClientOK, clientVars
<1>4. WellFormed(work', made')
  BY <1>1, WithRowWellFormed DEF TablesOK
<1>5. TablesOK'
  <2>1. ASSUME NEW db, WellFormed(db, made) PROVE WellFormed(db, made')
    BY <1>1, <2>1 DEF WellFormed, IsDatabase, Ids, Records
  <2>. QED  BY <1>1, <1>4, <2>1 DEF TablesOK, Rest
<1>6. /\ work'.seq = id /\ DOMAIN work'.rows = DOMAIN work.rows \cup {id}
      /\ \A i \in DOMAIN work.rows : i # id => work'.rows[i] = work.rows[i]
  BY <1>1 DEF WithRow
<1>7. /\ work.seq \in 0 .. MaxRecords /\ DOMAIN work.rows \subseteq Ids
      /\ \A i \in DOMAIN work.rows : i <= work.seq
      /\ cursor \in 0 .. MaxRecords /\ select.id \in 0 .. MaxRecords
      /\ id \in Ids
  <2>1. work'.seq \in 0 .. MaxRecords  BY <1>4 DEF WellFormed, IsDatabase
  <2>2. select.id \in 0 .. MaxRecords  BY DEF ClientOK, NoSelect, Ids
  <2>. QED  BY <1>6, <2>1, <2>2, IInvTypes DEF TypeOK, Ids
<1>8. RestIsOlder'
  <2>. SUFFICES ASSUME NEW db \in Rest
                PROVE  /\ db.seq <= work'.seq
                       /\ \A i \in DOMAIN db.rows \cap DOMAIN work'.rows :
                             i \notin undone => db.rows[i] = work'.rows[i]
    BY <1>1 DEF RestIsOlder, Rest, clientVars
  <2>1. /\ db.seq <= work.seq /\ db.seq \in 0 .. MaxRecords
        /\ \A i \in DOMAIN db.rows : i <= db.seq /\ i \in Ids
        /\ \A i \in DOMAIN db.rows \cap DOMAIN work.rows :
              i \notin undone => db.rows[i] = work.rows[i]
    BY IInvTypes DEF RestIsOlder
  <2>2. id \notin DOMAIN db.rows  BY <1>7, <2>1 DEF Ids
  <2>. QED  BY <1>6, <1>7, <2>1, <2>2
<1>14. SurvivorsAreOlder'  BY <1>1 DEF SurvivorsAreOlder
<1>9. AheadWasUndone'
  BY <1>1, <1>6, <1>7 DEF AheadWasUndone, clientVars, Ids
<1>10. id \notin undone => cursor < id /\ select.id < id
  BY <1>7 DEF AheadWasUndone, Ids
<1>11. \A i \in DOMAIN work.rows : i # id  BY <1>7 DEF Ids
<1>12. SelectIsNext'
  BY <1>1, <1>6, <1>7, <1>10, <1>11 DEF SelectIsNext, clientVars, Ids
<1>13. SkipsOnlyWhatWasUndone'
  BY <1>1, <1>6, <1>7, <1>10, <1>11 DEF SkipsOnlyWhatWasUndone, clientVars, Ids
<1>. QED  BY <1>2, <1>3, <1>5, <1>8, <1>9, <1>12, <1>13, <1>14

-----------------------------------------------------------------------------
(* The steps that keep the tables. *)

LEMMA QuietIInv ==
    ASSUME IInv,
           ExecuteFails \/ CleanupCheck \/ VacuumDone \/ CleanupFails \/ Open
    PROVE  IInv'
<1>. USE DEF IInv
<1>1. UNCHANGED <<dbVars, clientVars>> /\ made <= made'
  BY DEF ExecuteFails, CleanupCheck, VacuumDone, CleanupFails, Open, ScalarsOK
<1>2. CASE CleanupCheck
  <2>1. toDelete' \in Nat
    <3>1. Total(work) \in Nat  BY PagesType, IInvTypes DEF TypeOK
    <3>2. Total(work) \div CleanupShare \in Nat  BY <3>1
    <3>. QED  BY <1>2, <3>2 DEF CleanupCheck, AtLeastOne, ScalarsOK
  <2>2. ScalarsOK'  BY <1>2, <2>1 DEF ScalarsOK, CleanupCheck, dbVars, PCs
  <2>. QED  BY <1>1, <2>2, SameTables DEF dbVars
<1>3. CASE ExecuteFails \/ VacuumDone \/ CleanupFails \/ Open
  <2>1. ScalarsOK'
    BY <1>3 DEF ScalarsOK, ExecuteFails, VacuumDone, CleanupFails, Open, dbVars, PCs
  <2>. QED  BY <1>1, <2>1, SameTables DEF dbVars
<1>. QED  BY <1>2, <1>3

LEMMA CommitIInv ==
    ASSUME IInv, CommitInsert \/ CleanupCommit \/ CleanupCheckpoint
    PROVE  IInv'
<1>. USE DEF IInv
<1>1. IsDatabase(work) /\ IsDatabase(committed)
  BY DEF TablesOK, Rest, WellFormed
<1>2. UNCHANGED <<work, made, clientVars>>
  BY DEF CommitInsert, CleanupCommit, CleanupCheckpoint
<1>3. /\ committed' \in {committed, work}
      /\ survivors' \subseteq survivors \cup {committed'}
      /\ file' \in Nat /\ wal' \in Nat
  <2>1. CASE CommitInsert \/ CleanupCommit
    BY <2>1, <1>1, CommitEffect DEF CommitInsert, CleanupCommit
  <2>2. CASE CleanupCheckpoint
    BY <2>2, <1>1, PagesType DEF CleanupCheckpoint, Checkpointed, ScalarsOK
  <2>. QED  BY <2>1, <2>2
<1>4. ScalarsOK'
  BY <1>3 DEF ScalarsOK, CommitInsert, CleanupCommit, CleanupCheckpoint, PCs
<1>. QED  BY <1>2, <1>3, <1>4, SameTables DEF ScalarsOK

LEMMA CleanupDeleteIInv ==
    ASSUME IInv, CleanupDelete
    PROVE  IInv'
<1>. USE DEF IInv
<1>1. PICK oldest \in Firsts(DOMAIN work.rows, toDelete) : work' = Without(work, oldest)
  BY DEF CleanupDelete
<1>2. WellFormed(work', made)
  BY <1>1, WithoutWellFormed DEF TablesOK, ScalarsOK
<1>3. /\ work'.seq = work.seq /\ DOMAIN work'.rows \subseteq DOMAIN work.rows
      /\ \A i \in DOMAIN work'.rows : work'.rows[i] = work.rows[i]
  BY <1>1 DEF Without
<1>4. /\ UNCHANGED clientVars /\ made' = made
      /\ UNCHANGED <<committed, survivors>>
  BY DEF CleanupDelete
<1>5. ScalarsOK'  BY DEF ScalarsOK, CleanupDelete, PCs
<1>. QED  BY <1>2, <1>3, <1>4, <1>5, KeepsOrShrinks DEF ScalarsOK

LEMMA VacuumStepIInv ==
    ASSUME IInv, VacuumStep
    PROVE  IInv'
<1>. USE DEF IInv
<1>1. UNCHANGED clientVars /\ made' = made  BY DEF VacuumStep
<1>2. CASE AutoVacuum = "INCREMENTAL"
  <2>1. /\ work.free > 0 /\ work' = [work EXCEPT !.free = @ - 1] /\ Commit(work')
    BY <1>2 DEF VacuumStep
  <2>2. WellFormed(work', made) /\ work'.rows = work.rows /\ work'.seq = work.seq
    BY <2>1, VacuumWellFormed DEF TablesOK
  <2>3. /\ committed' = work' /\ survivors' \subseteq survivors \cup {work'}
        /\ file' \in Nat /\ wal' \in Nat
    BY <2>1, <2>2, CommitEffect DEF WellFormed
  <2>4. ScalarsOK'  BY <2>3 DEF ScalarsOK, VacuumStep
  <2>. QED  BY <1>1, <2>2, <2>3, <2>4, KeepsOrShrinks DEF ScalarsOK
<1>3. CASE AutoVacuum # "INCREMENTAL"
  <2>1. UNCHANGED dbVars  BY <1>3 DEF VacuumStep
  <2>2. ScalarsOK'  BY <2>1 DEF ScalarsOK, VacuumStep, dbVars
  <2>. QED  BY <1>1, <2>1, <2>2, SameTables DEF ScalarsOK, dbVars
<1>. QED  BY <1>2, <1>3

-----------------------------------------------------------------------------
(* The steps that take something back. *)

LEMMA TakeBackIInv ==
    ASSUME IInv, ScalarsOK', made' = made,
           NEW db \in Rest \cup {work}, work' = db, TakeBack(db),
           committed' \in Rest, survivors' \subseteq Rest,
           committed'.seq <= db.seq,
           \A d \in survivors' : d.seq <= committed'.seq,
           UNCHANGED <<cursor, got>>, select' = select \/ select' = NoSelect
    PROVE  IInv'
<1>. USE DEF IInv
<1>1. /\ WellFormed(work, made) /\ WellFormed(db, made)
      /\ \A d \in Rest : WellFormed(d, made)
  BY DEF TablesOK
<1>2. TablesOK'  BY <1>1 DEF TablesOK, Rest
<1>3. /\ work.seq \in 0 .. MaxRecords /\ db.seq \in 0 .. MaxRecords
      /\ DOMAIN work.rows \subseteq Ids /\ DOMAIN db.rows \subseteq Ids
      /\ \A d \in Rest : d.seq \in 0 .. MaxRecords /\ DOMAIN d.rows \subseteq Ids
  BY <1>1 DEF WellFormed, IsDatabase
<1>4. /\ undone \subseteq undone'
      /\ \A i \in Ids : db.seq < i /\ i <= work.seq => i \in undone'
      /\ DOMAIN db.rows \ DOMAIN work.rows \subseteq undone'
      /\ undone' \subseteq Ids
  <2>1. \A i : i \in undone' <=> \/ i \in undone
                                \/ i \in (db.seq + 1) .. work.seq
                                \/ i \in DOMAIN db.rows \ DOMAIN work.rows
    BY DEF TakeBack
  <2>2. \A i \in (db.seq + 1) .. work.seq : i \in Ids
    BY <1>3 DEF Ids
  <2>3. \A i \in Ids : db.seq < i /\ i <= work.seq => i \in (db.seq + 1) .. work.seq
    BY <1>3 DEF Ids
  <2>. QED  BY <1>3, <2>1, <2>2, <2>3 DEF ClientOK
<1>5. \A i \in DOMAIN db.rows \ undone' :
         i \in DOMAIN work.rows \ undone /\ db.rows[i] = work.rows[i]
  BY <1>4 DEF RestIsOlder
<1>6. ClientOK'  BY <1>4 DEF ClientOK
<1>7. RestIsOlder'
  <2>. SUFFICES ASSUME NEW d \in Rest'
                PROVE  /\ d.seq <= db.seq
                       /\ \A i \in DOMAIN d.rows \cap DOMAIN db.rows :
                             i \notin undone' => d.rows[i] = db.rows[i]
    BY DEF RestIsOlder
  <2>1. d \in Rest  BY DEF Rest
  <2>2. d.seq <= db.seq  BY <1>3, <2>1 DEF Rest
  <2>. QED  BY <1>4, <1>5, <2>1, <2>2 DEF RestIsOlder
<1>8. SurvivorsAreOlder'  BY DEF SurvivorsAreOlder
<1>9. cursor \in 0 .. MaxRecords /\ select.id \in 0 .. MaxRecords
      /\ select'.id \in 0 .. MaxRecords /\ (select'.id = select.id \/ select'.id = 0)
  BY DEF ClientOK, NoSelect, Ids
<1>10. AheadWasUndone'
  BY <1>3, <1>4, <1>9 DEF AheadWasUndone, Ids
<1>11. SelectIsNext'
  BY <1>5 DEF SelectIsNext
<1>12. SkipsOnlyWhatWasUndone'
  BY <1>5 DEF SkipsOnlyWhatWasUndone
<1>. QED  BY <1>2, <1>6, <1>7, <1>8, <1>10, <1>11, <1>12

LEMMA CommitInsertFailsIInv ==
    ASSUME IInv, CommitInsertFails
    PROVE  IInv'
<1>. USE DEF IInv
<1>1. PICK db \in {work, committed} : work' = db /\ TakeBack(db)
  BY DEF CommitInsertFails
<1>2. ScalarsOK'  BY DEF ScalarsOK, CommitInsertFails, PCs
<1>3. /\ committed' = committed /\ survivors' = survivors /\ made' = made
      /\ UNCHANGED <<cursor, got, select>>
  BY DEF CommitInsertFails
<1>4. committed.seq <= db.seq
  BY <1>1, IInvTypes DEF RestIsOlder, Rest
<1>5. \A d \in survivors' : d.seq <= committed'.seq
  BY <1>3 DEF SurvivorsAreOlder
<1>6. db \in Rest \cup {work} /\ committed' \in Rest /\ survivors' \subseteq Rest
  BY <1>3 DEF Rest
<1>. QED  BY <1>1, <1>2, <1>3, <1>4, <1>5, <1>6, TakeBackIInv

LEMMA RestartIInv ==
    ASSUME IInv, Close \/ Kill \/ PowerLoss
    PROVE  IInv'
<1>. USE DEF IInv
<1>1. PICK db \in Rest : /\ Down(db)
                         /\ \A d \in survivors' : d \in Rest /\ d.seq <= db.seq
                         /\ file' \in Nat /\ wal' \in Nat
  <2>0. /\ \A d \in Rest : IsDatabase(d) /\ d.seq \in 0 .. MaxRecords
        /\ file \in Nat /\ wal \in Nat
    BY IInvTypes DEF TablesOK, WellFormed, ScalarsOK
  <2>1. CASE Close
    BY <2>0, <2>1, PagesType DEF Close, Checkpointed, Rest
  <2>2. CASE Kill
    BY <2>0, <2>2 DEF Kill, Rest, SurvivorsAreOlder
  <2>3. CASE PowerLoss
    BY <2>0, <2>3 DEF PowerLoss, Rest
  <2>. QED  BY <2>1, <2>2, <2>3
<1>2. /\ work' = db /\ committed' = db /\ TakeBack(db) /\ made' = made
      /\ UNCHANGED <<cursor, got>> /\ select' = NoSelect
  BY <1>1 DEF Down
<1>3. ScalarsOK'  BY <1>1 DEF ScalarsOK, Down, PCs
<1>4. db.seq <= db.seq  BY IInvTypes
<1>. QED  BY <1>1, <1>2, <1>3, <1>4, TakeBackIInv

-----------------------------------------------------------------------------
(* The client's steps. *)

LEMMA SelectSinceIInv ==
    ASSUME IInv, NEW limit \in Limits, SelectSince(limit)
    PROVE  IInv'
<1>. USE DEF IInv
<1>1. PICK first \in Newer(work, cursor) :
         /\ \A i \in Newer(work, cursor) : first <= i
         /\ select' = [id |-> first, rec |-> work.rows[first], limit |-> limit]
  BY DEF SelectSince
<1>2. UNCHANGED <<dbVars, pc, toDelete, made, failures, restarts, cursor, got, undone>>
  BY DEF SelectSince
<1>3. first \in DOMAIN work.rows /\ cursor < first /\ first \in Ids
      /\ first <= work.seq /\ work.seq \in 0 .. MaxRecords
      /\ work.rows[first] \in Records /\ DOMAIN work.rows \subseteq Ids
      /\ cursor \in 0 .. MaxRecords
  BY <1>1, IInvTypes DEF Newer, TypeOK
<1>4. ScalarsOK'  BY <1>2 DEF ScalarsOK, dbVars
<1>5. ClientOK'  BY <1>1, <1>2, <1>3 DEF ClientOK
<1>6. TablesOK' /\ RestIsOlder' /\ SurvivorsAreOlder' /\ SkipsOnlyWhatWasUndone'
  BY <1>2 DEF TablesOK, RestIsOlder, SurvivorsAreOlder, SkipsOnlyWhatWasUndone, Rest, dbVars
<1>7. select'.id = first /\ select'.rec = work.rows[first]  BY <1>1
<1>8. AheadWasUndone'
  BY <1>2, <1>3, <1>7 DEF AheadWasUndone, dbVars, Ids
<1>9. SelectIsNext'
  BY <1>1, <1>2, <1>3, <1>7 DEF SelectIsNext, Newer, dbVars, Ids
<1>. QED  BY <1>4, <1>5, <1>6, <1>8, <1>9

LEMMA ResponseLostIInv ==
    ASSUME IInv, ResponseLost
    PROVE  IInv'
<1>. USE DEF IInv
<1>1. UNCHANGED <<dbVars, pc, toDelete, made, failures, restarts, cursor, got, undone>>
      /\ select' = NoSelect
  BY DEF ResponseLost
<1>2. ScalarsOK'  BY <1>1 DEF ScalarsOK, dbVars
<1>3. ClientOK'  BY <1>1 DEF ClientOK
<1>4. TablesOK' /\ RestIsOlder' /\ SurvivorsAreOlder' /\ SkipsOnlyWhatWasUndone'
  BY <1>1 DEF TablesOK, RestIsOlder, SurvivorsAreOlder, SkipsOnlyWhatWasUndone, Rest, dbVars
<1>5. AheadWasUndone' /\ SelectIsNext'
  BY <1>1 DEF AheadWasUndone, SelectIsNext, NoSelect, dbVars, Ids
<1>. QED  BY <1>2, <1>3, <1>4, <1>5

LEMMA FetchAllIInv ==
    ASSUME IInv, FetchAll
    PROVE  IInv'
<1>. USE DEF IInv
<1>. DEFINE later == Newer(work, select.id)
<1>1. PICK rest \in Firsts(later, select.limit - 1) :
         /\ got' = got \cup {<<select.id, select.rec>>}
                       \cup {<<i, work.rows[i]>> : i \in rest}
         /\ NextCursor({select.id} \cup rest)
  BY DEF FetchAll
<1>2. /\ UNCHANGED <<dbVars, pc, toDelete, made, failures, restarts, undone>>
      /\ select' = NoSelect /\ select # NoSelect
  BY DEF FetchAll
<1>3. /\ select.id \in Ids /\ select.rec \in Records
      /\ DOMAIN work.rows \subseteq Ids
      /\ \A i \in DOMAIN work.rows : work.rows[i] \in Records /\ i <= work.seq
      /\ work.seq \in 0 .. MaxRecords /\ cursor \in 0 .. MaxRecords
  BY <1>2, IInvTypes DEF ClientOK, TypeOK
<1>4. /\ rest \subseteq DOMAIN work.rows
      /\ \A i \in rest : select.id < i
      /\ \A i \in rest, j \in DOMAIN work.rows \ rest : select.id < j => i < j
  BY DEF Firsts, Newer
<1>5. /\ cursor' \in {select.id} \cup rest
      /\ select.id <= cursor' /\ cursor' \in Ids
      /\ \A i \in rest : i <= cursor'
  BY <1>1, <1>3, <1>4 DEF NextCursor
<1>6. ScalarsOK'  BY <1>2 DEF ScalarsOK, dbVars
<1>7. got' \subseteq Ids \X Records  BY <1>1, <1>3, <1>4 DEF ClientOK
<1>8. ClientOK'  BY <1>2, <1>5, <1>7 DEF ClientOK, Ids
<1>9. TablesOK' /\ RestIsOlder' /\ SurvivorsAreOlder' /\ SelectIsNext'
  BY <1>2 DEF TablesOK, RestIsOlder, SurvivorsAreOlder, SelectIsNext, Rest, dbVars
<1>10. AheadWasUndone'
  BY <1>2, <1>3, <1>4, <1>5 DEF AheadWasUndone, NoSelect, dbVars, Ids
<1>11. SkipsOnlyWhatWasUndone'
  <2>. SUFFICES ASSUME NEW i \in DOMAIN work.rows, i <= cursor', i \notin undone
                PROVE  <<i, work.rows[i]>> \in got'
    BY <1>2 DEF SkipsOnlyWhatWasUndone, dbVars
  <2>1. i \in Ids  BY <1>3
  <2>2. CASE i <= cursor
    BY <1>1, <2>2 DEF SkipsOnlyWhatWasUndone
  <2>3. CASE cursor < i
    <3>1. select.id <= i /\ (i = select.id => work.rows[i] = select.rec)
      BY <1>2, <2>3 DEF SelectIsNext
    <3>2. CASE i = select.id
      BY <1>1, <3>1, <3>2
    <3>3. CASE select.id < i
      <4>1. i \in rest  BY <1>4, <1>5, <2>1, <3>3, <1>3 DEF Ids
      <4>. QED  BY <1>1, <4>1
    <3>. QED  BY <1>3, <2>1, <3>1, <3>2, <3>3 DEF Ids
  <2>. QED  BY <1>3, <2>1, <2>2, <2>3 DEF Ids
<1>. QED  BY <1>6, <1>8, <1>9, <1>10, <1>11

-----------------------------------------------------------------------------
(* The theorems. *)

LEMMA StepIInv == IInv /\ [Next]_vars => IInv'
<1>. SUFFICES ASSUME IInv, [Next]_vars PROVE IInv'  OBVIOUS
<1>1. CASE Writer
  BY <1>1, ExecuteIInv, QuietIInv, CommitIInv, CommitInsertFailsIInv,
     CleanupDeleteIInv, VacuumStepIInv DEF Writer
<1>2. CASE \E limit \in Limits : SelectSince(limit)
  BY <1>2, SelectSinceIInv
<1>3. CASE FetchAll  BY <1>3, FetchAllIInv
<1>4. CASE ResponseLost  BY <1>4, ResponseLostIInv
<1>5. CASE Close \/ Kill \/ PowerLoss  BY <1>5, RestartIInv
<1>6. CASE Open  BY <1>6, QuietIInv
<1>7. CASE UNCHANGED vars
  <2>1. UNCHANGED <<work, clientVars, committed, survivors, made>> /\ ScalarsOK'
    BY <1>7 DEF vars, dbVars, IInv, ScalarsOK
  <2>. QED  BY <2>1, SameTables DEF IInv, ScalarsOK
<1>. QED  BY <1>1, <1>2, <1>3, <1>4, <1>5, <1>6, <1>7 DEF Next

LEMMA AlwaysIInv == Spec => []IInv
BY InitIInv, StepIInv, PTL DEF Spec

(* The type invariant of the connection, its file and the client. *)
THEOREM TypeCorrect == Spec => []TypeOK
<1>1. IInv => TypeOK  BY IInvTypes
<1>. QED  BY <1>1, AlwaysIInv, PTL

(* Retention only ever cuts a prefix: the ids of every state the database  *)
(* can be in, seen, committed or recovered, have no hole up to the counter. *)
THEOREM Consecutive == Spec => []IdsAreConsecutive
<1>1. IInv => IdsAreConsecutive
  BY DEF IInv, TablesOK, WellFormed, IsDatabase, Rest, IdsAreConsecutive
<1>. QED  BY <1>1, AlwaysIInv, PTL

(* A larger id is a later record, across failed commits and restarts.      *)
THEOREM InRecordOrder == Spec => []IdsFollowRecords
<1>1. IInv => IdsFollowRecords
  BY DEF IInv, TablesOK, WellFormed, Rest, IdsFollowRecords
<1>. QED  BY <1>1, AlwaysIInv, PTL

(* A client that polls with next_cursor misses no row that is still stored *)
(* behind its cursor, but for ids a failed commit or a restart took back.  *)
THEOREM PollingIsComplete == Spec => []SkipsOnlyWhatWasUndone
<1>1. IInv => SkipsOnlyWhatWasUndone  BY DEF IInv
<1>. QED  BY <1>1, AlwaysIInv, PTL

-----------------------------------------------------------------------------
(***************************************************************************)
(* The size of the file.  A page that is not in the file yet is in the     *)
(* WAL, or a failed COMMIT left it open; so the check before the next      *)
(* insert sees all pages but those that a failure has paid for, and leaves *)
(* a free page or room for one.                                            *)
(***************************************************************************)

Allowed == HighMark + failures + restarts

PagesLogged ==
    /\ Pages(work) <= file + wal + failures + (IF pc = "commit" THEN 1 ELSE 0)
    /\ \A db \in Rest : Pages(db) <= file + wal + failures

PagesBelowCap ==
    /\ file <= Allowed
    /\ Pages(work) <= Allowed /\ \A db \in Rest : Pages(db) <= Allowed

RoomForOne ==
    pc \notin {"commit", "check", "delete"} => work.free > 0 \/ Pages(work) < Allowed

CleanupFrees ==
    /\ pc = "delete" => toDelete > 0 /\ Total(work) > 0
    /\ pc = "checkpoint" => work = committed

SizeInv == PagesLogged /\ PagesBelowCap /\ RoomForOne /\ CleanupFrees

\* A new row takes a free page, or one more.
LEMMA PagesOfWithRow ==
    ASSUME NEW k \in Nat, NEW db, WellFormed(db, k), NEW rec
    PROVE  /\ Total(WithRow(db, rec)) = Total(db) + 1
           /\ Pages(WithRow(db, rec)) = IF db.free > 0 THEN Pages(db) ELSE Pages(db) + 1
<1>1. IsDatabase(db) /\ db.seq + 1 \notin DOMAIN db.rows /\ db.free \in Nat
  BY DEF WellFormed, IsDatabase
<1>2. DOMAIN WithRow(db, rec).rows = DOMAIN db.rows \cup {db.seq + 1}
      /\ WithRow(db, rec).free = IF db.free > 0 THEN db.free - 1 ELSE 0
  BY DEF WithRow
<1>3. Total(WithRow(db, rec)) = Total(db) + 1 /\ Total(db) \in Nat
  <2>. PICK S : S = DOMAIN db.rows  OBVIOUS
  <2>. PICK x : x = db.seq + 1  OBVIOUS
  <2>1. IsFiniteSet(S) /\ Cardinality(S) \in Nat  BY <1>1, FiniteRows DEF IsDatabase
  <2>2. x \notin S  BY <1>1
  <2>3. Cardinality(S \cup {x}) = Cardinality(S) + 1  BY <2>1, <2>2, FS_AddElement
  <2>4. Total(db) = Cardinality(S) /\ Total(WithRow(db, rec)) = Cardinality(S \cup {x})
    BY <1>2 DEF Total
  <2>. QED  BY <2>1, <2>3, <2>4
<1>. QED  BY <1>1, <1>2, <1>3 DEF Pages

\* Deleting rows frees their pages.
LEMMA PagesOfWithout ==
    ASSUME NEW db, IsDatabase(db), NEW n \in Nat \ {0}, Total(db) > 0,
           NEW oldest \in Firsts(DOMAIN db.rows, n)
    PROVE  Pages(Without(db, oldest)) = Pages(db) /\ Without(db, oldest).free > 0
<1>1. oldest \subseteq DOMAIN db.rows
      /\ Cardinality(oldest) = IF n < Total(db) THEN n ELSE Total(db)
  BY DEF Firsts, Total
<1>2. IsFiniteSet(DOMAIN db.rows) /\ Total(db) \in Nat /\ db.free \in Nat
  BY FiniteRows DEF IsDatabase, Total
<1>3. Cardinality(oldest) \in Nat \ {0}  BY <1>1, <1>2
<1>4. Cardinality(DOMAIN db.rows \ oldest) = Total(db) - Cardinality(oldest)
  <2>1. DOMAIN db.rows \cap oldest = oldest  BY <1>1
  <2>. QED  BY <1>2, <2>1, FS_Difference DEF Total
<1>5. Cardinality(DOMAIN db.rows \ oldest) \in Nat
  BY <1>2, FS_Difference, FS_CardinalityType
<1>6. DOMAIN Without(db, oldest).rows = DOMAIN db.rows \ oldest
      /\ Without(db, oldest).free = db.free + Cardinality(oldest)
  BY DEF Without
<1>7. Pages(Without(db, oldest))
         = (Total(db) - Cardinality(oldest)) + (db.free + Cardinality(oldest))
  BY <1>4, <1>6 DEF Pages, Total
<1>. QED  BY <1>2, <1>3, <1>6, <1>7 DEF Pages

\* The reclaim loop gives a page back.
LEMMA PagesOfVacuum ==
    ASSUME NEW db, IsDatabase(db), db.free > 0
    PROVE  Pages([db EXCEPT !.free = @ - 1]) = Pages(db) - 1
<1>. PICK new : new = [db EXCEPT !.free = @ - 1]  OBVIOUS
<1>1. new.rows = db.rows /\ new.free = db.free - 1 /\ db.free \in Nat
  BY DEF IsDatabase
<1>2. Total(new) = Total(db) /\ Total(db) \in Nat  BY <1>1, PagesType DEF Total
<1>. QED  BY <1>1, <1>2 DEF Pages

LEMMA SizeTypes ==
    ASSUME IInv
    PROVE  /\ file \in Nat /\ wal \in Nat /\ failures \in Nat /\ restarts \in Nat
           /\ Allowed \in Nat /\ HighMark \in Nat \ {0} /\ LowMark \in Nat
           /\ IsDatabase(work) /\ Pages(work) \in Nat /\ Total(work) \in Nat
           /\ work.free \in Nat /\ Pages(work) = Total(work) + work.free
           /\ \A db \in Rest : IsDatabase(db) /\ Pages(db) \in Nat
<1>1. IsDatabase(work) /\ \A db \in Rest : IsDatabase(db)
  BY DEF IInv, TablesOK, WellFormed
<1>2. file \in Nat /\ wal \in Nat /\ failures \in Nat /\ restarts \in Nat
  BY DEF IInv, ScalarsOK
<1>3. HighMark \in Nat \ {0} /\ LowMark \in Nat  OBVIOUS
<1>. QED  BY <1>1, <1>2, <1>3, PagesType DEF Allowed, IsDatabase, Pages

\* A commit of at most one page more than the file and the WAL account for.
LEMMA CommitSize ==
    ASSUME IInv, SizeInv, NEW db, IsDatabase(db), Commit(db),
           Pages(db) <= file + wal + failures + 1, Pages(db) <= Allowed,
           failures' = failures, restarts' = restarts
    PROVE  /\ committed' = db /\ file' \in Nat /\ wal' \in Nat
           /\ file' <= Allowed /\ Allowed' = Allowed
           /\ \A d \in Rest' : Pages(d) <= file' + wal' + failures /\ Pages(d) <= Allowed
<1>1. /\ file \in Nat /\ wal \in Nat /\ failures \in Nat /\ Allowed \in Nat
      /\ Pages(db) \in Nat /\ \A d \in Rest : Pages(d) \in Nat
  BY SizeTypes, PagesType
<1>2. /\ file <= Allowed
      /\ \A d \in Rest : Pages(d) <= file + wal + failures /\ Pages(d) <= Allowed
  BY DEF SizeInv, PagesLogged, PagesBelowCap
<1>3. committed' = db /\ Allowed' = Allowed  BY DEF Commit, Allowed
<1>4. CASE Checkpointed(db)
  <2>1. file' = Pages(db) /\ wal' = 0 /\ Rest' = {db}
    BY <1>3, <1>4 DEF Checkpointed, Rest
  <2>. QED  BY <1>1, <1>3, <2>1
<1>5. CASE wal' = wal + 1 /\ file' = file /\ survivors' = survivors \cup {db}
  <2>1. Rest' \subseteq Rest \cup {db}  BY <1>3, <1>5 DEF Rest
  <2>2. \A d \in Rest' : Pages(d) <= file + (wal + 1) + failures /\ Pages(d) <= Allowed
    BY <1>1, <1>2, <2>1
  <2>. QED  BY <1>1, <1>2, <1>3, <1>5, <2>2
<1>. QED  BY <1>4, <1>5 DEF Commit

LEMMA InitSize == Init => SizeInv
<1>. SUFFICES ASSUME Init PROVE SizeInv  OBVIOUS
<1>1. /\ work = EmptyDatabase /\ Rest = {EmptyDatabase} /\ pc = "idle"
      /\ file = 0 /\ wal = 0 /\ failures = 0 /\ restarts = 0
  BY DEF Init, Rest
<1>2. Pages(EmptyDatabase) = 0
  <2>1. DOMAIN EmptyDatabase.rows = {} /\ EmptyDatabase.free = 0  BY DEF EmptyDatabase
  <2>2. Total(EmptyDatabase) = 0  BY <2>1, FS_EmptySet DEF Total
  <2>. QED  BY <2>1, <2>2 DEF Pages
<1>3. HighMark \in Nat \ {0} /\ Allowed = HighMark  BY <1>1 DEF Allowed
<1>4. PagesLogged  BY <1>1, <1>2 DEF PagesLogged
<1>5. PagesBelowCap  BY <1>1, <1>2, <1>3 DEF PagesBelowCap
<1>6. RoomForOne  BY <1>1, <1>2, <1>3 DEF RoomForOne
<1>7. CleanupFrees  BY <1>1 DEF CleanupFrees
<1>. QED  BY <1>4, <1>5, <1>6, <1>7 DEF SizeInv

LEMMA ExecuteSize == ASSUME IInv, SizeInv, Execute PROVE SizeInv'
<1>1. /\ pc = "idle" /\ pc' = "commit" /\ work' = WithRow(work, made + 1)
      /\ file' = file /\ wal' = wal /\ failures' = failures /\ restarts' = restarts
      /\ Rest' = Rest
  BY DEF Execute, Rest
<1>2. Pages(work') = IF work.free > 0 THEN Pages(work) ELSE Pages(work) + 1
  BY <1>1, PagesOfWithRow DEF IInv, TablesOK, ScalarsOK
<1>3. /\ Pages(work) \in Nat /\ Allowed \in Nat /\ Allowed' = Allowed
      /\ file \in Nat /\ wal \in Nat /\ failures \in Nat
  BY <1>1, SizeTypes DEF Allowed
<1>4. PagesLogged'
  BY <1>1, <1>2, <1>3 DEF SizeInv, PagesLogged
<1>5. work.free > 0 \/ Pages(work) < Allowed  BY <1>1 DEF SizeInv, RoomForOne
<1>6. Pages(work') <= Allowed  BY <1>2, <1>3, <1>5 DEF SizeInv, PagesBelowCap
<1>7. PagesBelowCap'  BY <1>1, <1>3, <1>6 DEF SizeInv, PagesBelowCap
<1>8. RoomForOne' /\ CleanupFrees'  BY <1>1 DEF RoomForOne, CleanupFrees
<1>. QED  BY <1>4, <1>7, <1>8 DEF SizeInv

\* A failure or a restart pays for a page; a step that goes on has room for one.
LEMMA SameSize ==
    ASSUME IInv, SizeInv,
           work' \in {work} \cup Rest, Rest' \subseteq Rest,
           file' = file, wal' = wal, pc' \in {"idle", "closed"},
           \/ failures' = failures + 1 /\ restarts' = restarts
           \/ failures' = failures /\ restarts' = restarts + 1 /\ work' \in Rest
           \/ /\ failures' = failures /\ restarts' = restarts
              /\ pc # "commit" /\ work' = work
              /\ work.free > 0 \/ Pages(work) < Allowed
    PROVE  SizeInv'
<1>1. /\ file \in Nat /\ wal \in Nat /\ failures \in Nat /\ restarts \in Nat
      /\ Allowed \in Nat /\ Pages(work) \in Nat /\ \A db \in Rest : Pages(db) \in Nat
      /\ HighMark \in Nat
  BY SizeTypes
<1>2. /\ Pages(work) <= file + wal + failures + 1
      /\ pc # "commit" => Pages(work) <= file + wal + failures
      /\ \A db \in Rest : Pages(db) <= file + wal + failures
      /\ file <= Allowed /\ Pages(work) <= Allowed
      /\ \A db \in Rest : Pages(db) <= Allowed
  BY <1>1 DEF SizeInv, PagesLogged, PagesBelowCap
<1>3. /\ failures' \in Nat /\ failures' >= failures
      /\ Allowed' \in Nat /\ Allowed' >= Allowed
      /\ restarts' # restarts \/ failures' # failures => Allowed' = Allowed + 1
  BY <1>1 DEF Allowed
<1>4. Pages(work') \in Nat /\ Pages(work') <= Allowed
      /\ Pages(work') <= file + wal + failures'
  <2>1. CASE failures' = failures + 1  BY <1>1, <1>2, <2>1
  <2>2. CASE failures' = failures /\ work' \in Rest  BY <1>1, <1>2, <2>2
  <2>3. CASE failures' = failures /\ pc # "commit" /\ work' = work
    BY <1>1, <1>2, <2>3
  <2>. QED  BY <2>1, <2>2, <2>3
<1>5. PagesLogged'
  <2>1. \A db \in Rest' : Pages(db) <= file + wal + failures'  BY <1>1, <1>2, <1>3
  <2>. QED  BY <1>1, <1>3, <1>4, <2>1 DEF PagesLogged
<1>6. PagesBelowCap'
  <2>1. \A db \in Rest' : Pages(db) <= Allowed'  BY <1>1, <1>2, <1>3
  <2>2. file' <= Allowed' /\ Pages(work') <= Allowed'  BY <1>1, <1>2, <1>3, <1>4
  <2>. QED  BY <2>1, <2>2 DEF PagesBelowCap
<1>7. RoomForOne'
  <2>1. CASE restarts' # restarts \/ failures' # failures
    <3>1. Pages(work') < Allowed'  BY <1>1, <1>3, <1>4, <2>1
    <3>. QED  BY <3>1 DEF RoomForOne
  <2>2. CASE restarts' = restarts /\ failures' = failures
    <3>1. work' = work /\ (work.free > 0 \/ Pages(work) < Allowed)  BY <1>1, <2>2
    <3>2. Allowed' = Allowed  BY <2>2 DEF Allowed
    <3>. QED  BY <3>1, <3>2 DEF RoomForOne
  <2>. QED  BY <2>1, <2>2
<1>8. CleanupFrees'  BY DEF CleanupFrees
<1>. QED  BY <1>5, <1>6, <1>7, <1>8 DEF SizeInv

LEMMA FailSize ==
    ASSUME IInv, SizeInv, ExecuteFails \/ CommitInsertFails \/ CleanupFails
    PROVE  SizeInv'
<1>1. /\ work' \in {work} \cup Rest /\ Rest' \subseteq Rest
      /\ file' = file /\ wal' = wal /\ pc' \in {"idle", "closed"}
      /\ failures' = failures + 1 /\ restarts' = restarts
  BY DEF ExecuteFails, CommitInsertFails, CleanupFails, dbVars, Rest
<1>. QED  BY <1>1, SameSize

LEMMA CommitInsertSize == ASSUME IInv, SizeInv, CommitInsert PROVE SizeInv'
<1>1. /\ pc = "commit" /\ pc' = "check" /\ Commit(work) /\ work' = work
      /\ failures' = failures /\ restarts' = restarts
  BY DEF CommitInsert
<1>2. /\ IsDatabase(work) /\ Pages(work) <= file + wal + failures + 1
      /\ Pages(work) <= Allowed
  BY <1>1, SizeTypes DEF SizeInv, PagesLogged, PagesBelowCap
<1>3. /\ committed' = work /\ file' \in Nat /\ wal' \in Nat
      /\ file' <= Allowed /\ Allowed' = Allowed
      /\ \A d \in Rest' : Pages(d) <= file' + wal' + failures /\ Pages(d) <= Allowed
  BY <1>1, <1>2, CommitSize
<1>4. work \in Rest' /\ failures \in Nat /\ Pages(work) \in Nat
  BY <1>3, SizeTypes DEF Rest
<1>5. PagesLogged'  BY <1>1, <1>3, <1>4 DEF PagesLogged
<1>6. PagesBelowCap'  BY <1>1, <1>3, <1>4 DEF PagesBelowCap
<1>7. RoomForOne' /\ CleanupFrees'  BY <1>1 DEF RoomForOne, CleanupFrees
<1>. QED  BY <1>5, <1>6, <1>7 DEF SizeInv

LEMMA CleanupCheckSize == ASSUME IInv, SizeInv, CleanupCheck PROVE SizeInv'
<1>1. /\ pc = "check" /\ work' = work /\ Rest' = Rest /\ file' = file /\ wal' = wal
      /\ failures' = failures /\ restarts' = restarts
  BY DEF CleanupCheck, dbVars, Rest
<1>2. /\ file \in Nat /\ wal \in Nat /\ failures \in Nat /\ restarts \in Nat
      /\ Pages(work) \in Nat /\ Total(work) \in Nat /\ work.free \in Nat
      /\ Pages(work) = Total(work) + work.free /\ HighMark \in Nat \ {0}
  BY SizeTypes
<1>3. CASE StorageSize < HighMark \/ Total(work) = 0
  <2>1. pc' = "idle"  BY <1>3 DEF CleanupCheck
  <2>2. Pages(work) <= file + wal + failures
    BY <1>1, <1>2 DEF SizeInv, PagesLogged
  <2>3. work.free > 0 \/ Pages(work) < Allowed
    <3>1. CASE StorageSize < HighMark
      BY <1>2, <2>2, <3>1 DEF StorageSize, Allowed
    <3>2. CASE Total(work) = 0  BY <1>2, <3>2 DEF Allowed
    <3>. QED  BY <1>3, <3>1, <3>2
  <2>. QED  BY <1>1, <2>1, <2>3, SameSize
<1>4. CASE ~(StorageSize < HighMark \/ Total(work) = 0)
  <2>1. pc' = "delete" /\ toDelete' = AtLeastOne(Total(work) \div CleanupShare)
    BY <1>4 DEF CleanupCheck
  <2>2. toDelete' > 0 /\ Total(work) > 0
    <3>1. Total(work) \div CleanupShare \in Nat  BY <1>2
    <3>. QED  BY <1>2, <1>4, <2>1, <3>1 DEF AtLeastOne
  <2>3. Allowed' = Allowed  BY <1>1 DEF Allowed
  <2>4. PagesLogged'  BY <1>1, <2>1 DEF SizeInv, PagesLogged
  <2>5. PagesBelowCap'  BY <1>1, <2>3 DEF SizeInv, PagesBelowCap
  <2>6. RoomForOne' /\ CleanupFrees'  BY <1>1, <2>1, <2>2 DEF RoomForOne, CleanupFrees
  <2>. QED  BY <2>4, <2>5, <2>6 DEF SizeInv
<1>. QED  BY <1>3, <1>4

LEMMA CleanupDeleteSize == ASSUME IInv, SizeInv, CleanupDelete PROVE SizeInv'
<1>1. /\ pc = "delete" /\ pc' = "commitDelete" /\ Rest' = Rest
      /\ file' = file /\ wal' = wal /\ failures' = failures /\ restarts' = restarts
  BY DEF CleanupDelete, Rest
<1>2. PICK oldest \in Firsts(DOMAIN work.rows, toDelete) : work' = Without(work, oldest)
  BY DEF CleanupDelete
<1>3. Pages(work') = Pages(work) /\ work'.free > 0
  <2>1. toDelete \in Nat \ {0} /\ Total(work) > 0
    BY <1>1 DEF SizeInv, CleanupFrees, IInv, ScalarsOK
  <2>. QED  BY <1>2, <2>1, SizeTypes, PagesOfWithout
<1>4. Allowed' = Allowed  BY <1>1 DEF Allowed
<1>5. PagesLogged'  BY <1>1, <1>3 DEF SizeInv, PagesLogged
<1>6. PagesBelowCap'  BY <1>1, <1>3, <1>4 DEF SizeInv, PagesBelowCap
<1>7. RoomForOne' /\ CleanupFrees'  BY <1>1, <1>3 DEF RoomForOne, CleanupFrees
<1>. QED  BY <1>5, <1>6, <1>7 DEF SizeInv

LEMMA CleanupCommitSize == ASSUME IInv, SizeInv, CleanupCommit PROVE SizeInv'
<1>1. /\ pc = "commitDelete" /\ pc' = "checkpoint" /\ Commit(work) /\ work' = work
      /\ failures' = failures /\ restarts' = restarts
  BY DEF CleanupCommit
<1>2. /\ IsDatabase(work) /\ Pages(work) <= file + wal + failures + 1
      /\ Pages(work) <= Allowed
  BY <1>1, SizeTypes DEF SizeInv, PagesLogged, PagesBelowCap
<1>3. /\ committed' = work /\ file' \in Nat /\ wal' \in Nat
      /\ file' <= Allowed /\ Allowed' = Allowed
      /\ \A d \in Rest' : Pages(d) <= file' + wal' + failures /\ Pages(d) <= Allowed
  BY <1>1, <1>2, CommitSize
<1>4. work \in Rest' /\ failures \in Nat /\ Pages(work) \in Nat
  BY <1>3, SizeTypes DEF Rest
<1>5. PagesLogged'  BY <1>1, <1>3, <1>4 DEF PagesLogged
<1>6. PagesBelowCap'  BY <1>1, <1>3, <1>4 DEF PagesBelowCap
<1>7. RoomForOne'  BY <1>1, <1>3 DEF SizeInv, RoomForOne
<1>8. CleanupFrees'  BY <1>1, <1>3 DEF CleanupFrees
<1>. QED  BY <1>5, <1>6, <1>7, <1>8 DEF SizeInv

LEMMA CleanupCheckpointSize == ASSUME IInv, SizeInv, CleanupCheckpoint PROVE SizeInv'
<1>1. /\ pc = "checkpoint" /\ work = committed /\ work' = work /\ committed' = committed
      /\ failures' = failures /\ restarts' = restarts
  BY DEF CleanupCheckpoint, SizeInv, CleanupFrees
<1>2. work.free > 0 \/ Pages(work) < Allowed  BY <1>1 DEF SizeInv, RoomForOne
<1>3. CASE select = NoSelect
  <2>1. pc' = "vacuum" /\ file' = Pages(work) /\ wal' = 0 /\ Rest' = {work}
    BY <1>1, <1>3 DEF CleanupCheckpoint, Checkpointed, Rest
  <2>2. Allowed' = Allowed  BY <1>1 DEF Allowed
  <2>3. Pages(work) \in Nat /\ failures \in Nat /\ Pages(work) <= Allowed
    BY SizeTypes DEF SizeInv, PagesBelowCap
  <2>4. PagesLogged'  BY <1>1, <2>1, <2>3 DEF PagesLogged
  <2>5. PagesBelowCap'  BY <1>1, <2>1, <2>2, <2>3 DEF PagesBelowCap
  <2>6. RoomForOne' /\ CleanupFrees'  BY <1>1, <1>2, <2>1, <2>2 DEF RoomForOne, CleanupFrees
  <2>. QED  BY <2>4, <2>5, <2>6 DEF SizeInv
<1>4. CASE select # NoSelect
  <2>1. pc' = "idle" /\ file' = file /\ wal' = wal /\ Rest' = Rest
    BY <1>1, <1>4 DEF CleanupCheckpoint, Rest
  <2>. QED  BY <1>1, <1>2, <2>1, SameSize
<1>. QED  BY <1>3, <1>4

LEMMA VacuumDoneSize == ASSUME IInv, SizeInv, VacuumDone PROVE SizeInv'
<1>1. /\ pc = "vacuum" /\ pc' = "idle" /\ work' = work /\ Rest' = Rest
      /\ file' = file /\ wal' = wal /\ failures' = failures /\ restarts' = restarts
  BY DEF VacuumDone, dbVars, Rest
<1>2. work.free > 0 \/ Pages(work) < Allowed  BY <1>1 DEF SizeInv, RoomForOne
<1>. QED  BY <1>1, <1>2, SameSize

LEMMA VacuumStepSize == ASSUME IInv, SizeInv, VacuumStep PROVE SizeInv'
<1>1. /\ pc = "vacuum" /\ pc' = pc /\ work.free > 0
      /\ failures' = failures /\ restarts' = restarts
  BY DEF VacuumStep
<1>2. /\ file \in Nat /\ wal \in Nat /\ failures \in Nat /\ Allowed \in Nat
      /\ Pages(work) \in Nat /\ IsDatabase(work)
      /\ Pages(work) <= file + wal + failures /\ Pages(work) <= Allowed
  BY <1>1, SizeTypes DEF SizeInv, PagesLogged, PagesBelowCap
<1>3. CASE AutoVacuum = "INCREMENTAL"
  <2>. PICK db : db = work'  OBVIOUS
  <2>1. db = [work EXCEPT !.free = @ - 1] /\ Commit(db)
    BY <1>3 DEF VacuumStep
  <2>2. IsDatabase(db) /\ Pages(db) = Pages(work) - 1 /\ Pages(db) \in Nat
    <3>1. WellFormed(db, made)  BY <1>1, <2>1, VacuumWellFormed DEF IInv, TablesOK
    <3>2. IsDatabase(db)  BY <3>1 DEF WellFormed
    <3>. QED  BY <1>1, <1>2, <2>1, <3>2, PagesOfVacuum, PagesType
  <2>3. Pages(db) <= file + wal + failures + 1 /\ Pages(db) < Allowed
    BY <1>2, <2>2
  <2>4. /\ committed' = db /\ file' \in Nat /\ wal' \in Nat
        /\ file' <= Allowed /\ Allowed' = Allowed
        /\ \A d \in Rest' : Pages(d) <= file' + wal' + failures /\ Pages(d) <= Allowed
    <3>1. Pages(db) <= Allowed  BY <1>2, <2>2, <2>3
    <3>. QED  BY <1>1, <2>1, <2>2, <2>3, <3>1, CommitSize
  <2>5. db \in Rest'  BY <2>4 DEF Rest
  <2>6. PagesLogged'  BY <1>1, <1>2, <2>2, <2>4, <2>5 DEF PagesLogged
  <2>7. PagesBelowCap'  BY <2>4, <2>5 DEF PagesBelowCap
  <2>8. RoomForOne' /\ CleanupFrees'  BY <1>1, <2>3, <2>4 DEF RoomForOne, CleanupFrees
  <2>. QED  BY <2>6, <2>7, <2>8 DEF SizeInv
<1>4. CASE AutoVacuum # "INCREMENTAL"
  <2>1. /\ work' = work /\ committed' = committed /\ survivors' = survivors
        /\ file' = file /\ wal' = wal /\ toDelete' = toDelete
    BY <1>4 DEF VacuumStep, dbVars
  <2>. QED  BY <1>1, <2>1
       DEF SizeInv, PagesLogged, PagesBelowCap, RoomForOne, CleanupFrees, Rest, Allowed
<1>. QED  BY <1>3, <1>4

LEMMA RestartSize == ASSUME IInv, SizeInv, Close \/ Kill \/ PowerLoss PROVE SizeInv'
<1>1. CASE Kill \/ PowerLoss
  <2>1. /\ work' \in Rest /\ Rest' \subseteq Rest /\ file' = file /\ wal' = wal
        /\ pc' = "closed" /\ failures' = failures /\ restarts' = restarts + 1
    BY <1>1 DEF Kill, PowerLoss, Down, Rest
  <2>. QED  BY <2>1, SameSize
<1>2. CASE Close
  <2>. PICK db : db = committed  OBVIOUS
  <2>1. /\ work' = db /\ Rest' = {db} /\ file' = Pages(db) /\ wal' = 0
        /\ pc' = "closed" /\ failures' = failures /\ restarts' = restarts + 1
    BY <1>2 DEF Close, Down, Checkpointed, Rest
  <2>2. /\ Pages(db) \in Nat /\ failures \in Nat /\ Allowed \in Nat /\ Pages(db) <= Allowed
        /\ HighMark \in Nat /\ restarts \in Nat
    BY SizeTypes DEF SizeInv, PagesBelowCap, Rest
  <2>3. Allowed' = Allowed + 1  BY <2>1, <2>2 DEF Allowed
  <2>4. PagesLogged'  BY <2>1, <2>2 DEF PagesLogged
  <2>5. PagesBelowCap'  BY <2>1, <2>2, <2>3 DEF PagesBelowCap
  <2>6. RoomForOne' /\ CleanupFrees'
    BY <2>1, <2>2, <2>3 DEF RoomForOne, CleanupFrees
  <2>. QED  BY <2>4, <2>5, <2>6 DEF SizeInv
<1>. QED  BY <1>1, <1>2

\* The client, the start of the service, and stuttering.
LEMMA OtherSize ==
    ASSUME IInv, SizeInv,
           \/ \E limit \in Limits : SelectSince(limit)
           \/ FetchAll \/ ResponseLost \/ Open \/ UNCHANGED vars
    PROVE  SizeInv'
<1>1. /\ work' = work /\ committed' = committed /\ survivors' = survivors
      /\ file' = file /\ wal' = wal /\ toDelete' = toDelete
      /\ failures' = failures /\ restarts' = restarts
      /\ pc' = pc \/ (pc = "closed" /\ pc' = "idle")
  <2>1. CASE \E limit \in Limits : SelectSince(limit)
    BY <2>1 DEF SelectSince, dbVars
  <2>2. CASE FetchAll \/ ResponseLost \/ Open
    BY <2>2 DEF FetchAll, ResponseLost, Open, dbVars
  <2>3. CASE UNCHANGED vars  BY <2>3 DEF vars, dbVars
  <2>. QED  BY <2>1, <2>2, <2>3
<1>2. Rest' = Rest /\ Allowed' = Allowed  BY <1>1 DEF Rest, Allowed
<1>. QED  BY <1>1, <1>2 DEF SizeInv, PagesLogged, PagesBelowCap, RoomForOne, CleanupFrees

LEMMA StepSize == IInv /\ SizeInv /\ [Next]_vars => SizeInv'
<1>. SUFFICES ASSUME IInv, SizeInv, [Next]_vars PROVE SizeInv'  OBVIOUS
<1>1. CASE Writer
  BY <1>1, ExecuteSize, FailSize, CommitInsertSize, CleanupCheckSize, CleanupDeleteSize,
     CleanupCommitSize, CleanupCheckpointSize, VacuumDoneSize, VacuumStepSize DEF Writer
<1>2. CASE Close \/ Kill \/ PowerLoss  BY <1>2, RestartSize
<1>. QED  BY <1>1, <1>2, OtherSize DEF Next

(* The database file never outgrows the cap's high mark by more than a     *)
(* page for each failed statement and each restart, with incremental       *)
(* vacuum or without, wherever checkpoints and crashes fall.               *)
THEOREM FileBounded == Spec => []FileStaysBelowCap
<1>1. SizeInv => FileStaysBelowCap
  BY DEF SizeInv, PagesBelowCap, Allowed, FileStaysBelowCap
<1>2. Spec => []SizeInv
  BY InitSize, StepSize, AlwaysIInv, PTL DEF Spec
<1>. QED  BY <1>1, <1>2, PTL

-----------------------------------------------------------------------------
(***************************************************************************)
(* Storage implements RetainedLog: the inductive invariant with the        *)
(* history that maps the table to the log.                                 *)
(***************************************************************************)

\* `db' is a part of what was written: it holds no other record under an id.
PartOfLog(db) ==
    /\ db.seq <= Len(written)
    /\ \A i \in DOMAIN db.rows : db.rows[i] = written[i]

LogOK ==
    /\ written \in Seq(Records) /\ Len(written) = work.seq
    /\ PartOfLog(work) /\ \A db \in Rest : PartOfLog(db)

IInvH == IInv /\ LogOK

LEMMA WindowOf ==
    ASSUME NEW k \in Nat, NEW db, WellFormed(db, k)
    PROVE  DOMAIN db.rows \in L!Windows(db.seq)
BY DEF WellFormed, IsDatabase, L!Windows, Ids

LEMMA InitIInvH == InitH => IInvH
<1>. SUFFICES ASSUME InitH PROVE IInvH  OBVIOUS
<1>1. IInv  BY InitIInv DEF InitH
<1>2. LogOK
  BY DEF InitH, Init, LogOK, PartOfLog, Rest, EmptyDatabase
<1>. QED  BY <1>1, <1>2 DEF IInvH

\* A step of Storage that leaves the counter alone leaves the history alone.
LEMMA SameLog ==
    ASSUME LogOK, Follow, work'.seq = work.seq
    PROVE  written' = written
BY DEF LogOK, Follow

\* What such a step does to the log: nothing, or it trims it.
LEMMA TrimStep ==
    ASSUME IInvH, IInv', Follow, work'.seq = work.seq, made' = made,
           DOMAIN work'.rows \subseteq DOMAIN work.rows,
           \A i \in DOMAIN work'.rows : work'.rows[i] = work.rows[i],
           Rest' \subseteq Rest \cup {work'}
    PROVE  LogOK' /\ L!Trim
<1>1. written' = written  BY SameLog DEF IInvH
<1>2. LogOK'
  BY <1>1 DEF IInvH, LogOK, PartOfLog
<1>3. DOMAIN work'.rows \in L!Windows(work'.seq)
  BY WindowOf DEF IInv, TablesOK, ScalarsOK
<1>. QED  BY <1>1, <1>2, <1>3 DEF IInvH, LogOK, L!Trim

LEMMA ExecuteStep ==
    ASSUME IInvH, Execute, Follow
    PROVE  LogOK' /\ L!Record
<1>1. /\ work'.seq = work.seq + 1
      /\ DOMAIN work'.rows = DOMAIN work.rows \cup {work.seq + 1}
      /\ \A i \in DOMAIN work'.rows :
            work'.rows[i] = IF i = work.seq + 1 THEN made + 1 ELSE work.rows[i]
      /\ made' = made + 1 /\ UNCHANGED <<committed, survivors>>
  BY DEF Execute, WithRow
<1>2. /\ work.seq \in Nat /\ made \in Nat /\ made < MaxRecords
      /\ written \in Seq(Records) /\ Len(written) = work.seq
      /\ DOMAIN work.rows \subseteq Ids
      /\ \A i \in DOMAIN work.rows : i <= work.seq
      /\ \A db \in Rest : /\ db.seq \in Nat /\ DOMAIN db.rows \subseteq Ids
                           /\ \A i \in DOMAIN db.rows : i <= db.seq
  BY IInvTypes DEF IInvH, IInv, LogOK, ScalarsOK, Execute
<1>3. written' = Append(written, made + 1)
  BY <1>1, <1>2 DEF Follow
<1>4. /\ written' \in Seq(Records) /\ Len(written') = work'.seq
      /\ written'[work.seq + 1] = made + 1
      /\ \A i \in 1 .. Len(written) : written'[i] = written[i]
  BY <1>1, <1>2, <1>3 DEF Records
<1>5. \A i \in DOMAIN work.rows : i \in 1 .. Len(written)  BY <1>2 DEF Ids
<1>6. \A i \in DOMAIN work'.rows : work'.rows[i] = written'[i]
  BY <1>1, <1>2, <1>4, <1>5 DEF IInvH, LogOK, PartOfLog
<1>7. ASSUME NEW db \in Rest
      PROVE  db.seq <= Len(written') /\ \A i \in DOMAIN db.rows : db.rows[i] = written'[i]
  <2>1. \A i \in DOMAIN db.rows : i \in 1 .. Len(written)
    BY <1>2 DEF Ids, IInvH, LogOK, PartOfLog
  <2>2. db.seq <= Len(written) /\ \A i \in DOMAIN db.rows : db.rows[i] = written[i]
    BY DEF IInvH, LogOK, PartOfLog
  <2>3. db.seq <= Len(written')  BY <1>1, <1>2, <1>4, <2>2
  <2>. QED  BY <1>4, <2>1, <2>2, <2>3
<1>8. LogOK'  BY <1>1, <1>2, <1>4, <1>6, <1>7 DEF LogOK, Rest, PartOfLog
<1>. QED  BY <1>1, <1>2, <1>3, <1>8 DEF L!Record

\* A rollback or a restart cuts the log.
LEMMA UndoStep ==
    ASSUME IInvH, IInv', Follow, NEW db \in Rest \cup {work}, work' = db,
           made' = made, Rest' \subseteq Rest, \A d \in Rest' : d.seq <= db.seq
    PROVE  LogOK' /\ L!Undo
<1>1. /\ db.seq \in Nat /\ db.seq <= Len(written) /\ Len(written) = work.seq
      /\ written \in Seq(Records) /\ PartOfLog(db)
      /\ \A d \in Rest : /\ PartOfLog(d) /\ d.seq \in Nat /\ DOMAIN d.rows \subseteq Ids
                         /\ \A i \in DOMAIN d.rows : i <= d.seq
      /\ DOMAIN db.rows \subseteq Ids /\ \A i \in DOMAIN db.rows : i <= db.seq
  BY IInvTypes DEF IInvH, LogOK, PartOfLog
<1>2. written' = SubSeq(written, 1, db.seq)
  BY <1>1 DEF Follow
<1>3. /\ written' \in Seq(Records) /\ Len(written') = db.seq
      /\ \A i \in 1 .. db.seq : written'[i] = written[i]
  BY <1>1, <1>2
<1>4. ASSUME NEW d \in Rest' \cup {db}
      PROVE  d.seq <= db.seq /\ \A i \in DOMAIN d.rows : d.rows[i] = written'[i]
  <2>1. d.seq <= db.seq /\ d.seq \in Nat /\ PartOfLog(d)
        /\ \A i \in DOMAIN d.rows : i \in Ids /\ i <= d.seq
    BY <1>1
  <2>2. \A i \in DOMAIN d.rows : i \in 1 .. db.seq  BY <1>1, <2>1 DEF Ids
  <2>. QED  BY <1>3, <2>1, <2>2 DEF PartOfLog
<1>7. LogOK'  BY <1>3, <1>4 DEF LogOK, PartOfLog
<1>5. DOMAIN work'.rows \in L!Windows(db.seq)
  BY WindowOf DEF IInv, TablesOK, ScalarsOK
<1>6. L!TakenBackTo(db.seq) /\ db.seq \in 0 .. Len(written)
  BY <1>1, <1>2, <1>5 DEF L!TakenBackTo
<1>. QED  BY <1>6, <1>7 DEF L!Undo

-----------------------------------------------------------------------------
(* Every step is a step of the log or leaves it alone. *)

LEMMA StepH ==
    ASSUME IInvH, [NextH]_hvars
    PROVE  IInvH' /\ [L!NextLog]_(L!logVars)
<1>1. IInv'  BY StepIInv DEF IInvH, NextH, hvars
<1>. SUFFICES LogOK' /\ [L!NextLog]_(L!logVars)  BY <1>1 DEF IInvH
<1>2. /\ IsDatabase(work) /\ IsDatabase(committed) /\ ScalarsOK
      /\ WellFormed(work, made)
  BY DEF IInvH, IInv, TablesOK, Rest, WellFormed
<1>. USE DEF L!NextLog
<1>3. CASE Execute /\ Follow  BY <1>3, ExecuteStep
<1>4. CASE ExecuteFails /\ Follow
  <2>1. UNCHANGED <<work, committed, survivors>> /\ made' = made + 1
    BY <1>4 DEF ExecuteFails, dbVars
  <2>2. written' = written  BY <1>4, <2>1, SameLog DEF IInvH
  <2>3. LogOK'  BY <2>1, <2>2 DEF IInvH, LogOK, Rest, PartOfLog
  <2>4. L!Drop  BY <2>1, <2>2 DEF L!Drop
  <2>. QED  BY <2>3, <2>4
<1>5. CASE /\ \/ CommitInsert \/ CleanupCommit \/ CleanupCheckpoint \/ CleanupCheck
              \/ VacuumDone \/ CleanupFails \/ Open \/ FetchAll \/ ResponseLost
              \/ \E limit \in Limits : SelectSince(limit)
           /\ Follow
  <2>1. work' = work /\ made' = made
    BY <1>5 DEF CommitInsert, CleanupCommit, CleanupCheckpoint, CleanupCheck,
       VacuumDone, CleanupFails, Open, FetchAll, ResponseLost, SelectSince, dbVars
  <2>2. Rest' \subseteq Rest \cup {work'}
    <3>1. CASE CommitInsert \/ CleanupCommit
      BY <1>2, <3>1, CommitEffect DEF CommitInsert, CleanupCommit, Rest
    <3>2. CASE CleanupCheckpoint
      BY <3>2 DEF CleanupCheckpoint, Checkpointed, Rest
    <3>3. CASE ~(CommitInsert \/ CleanupCommit \/ CleanupCheckpoint)
      BY <1>5, <3>3 DEF CleanupCheck, VacuumDone, CleanupFails, Open, FetchAll,
         ResponseLost, SelectSince, dbVars, Rest
    <3>. QED  BY <3>1, <3>2, <3>3
  <2>. QED  BY <1>1, <1>5, <2>1, <2>2, TrimStep
<1>6. CASE CleanupDelete /\ Follow
  <2>1. PICK oldest \in Firsts(DOMAIN work.rows, toDelete) : work' = Without(work, oldest)
    BY <1>6 DEF CleanupDelete
  <2>2. /\ work'.seq = work.seq /\ DOMAIN work'.rows \subseteq DOMAIN work.rows
        /\ \A i \in DOMAIN work'.rows : work'.rows[i] = work.rows[i]
    BY <2>1 DEF Without
  <2>3. made' = made /\ Rest' = Rest  BY <1>6 DEF CleanupDelete, Rest
  <2>. QED  BY <1>1, <1>6, <2>2, <2>3, TrimStep
<1>7. CASE VacuumStep /\ Follow
  <2>1. made' = made  BY <1>7 DEF VacuumStep
  <2>2. CASE AutoVacuum = "INCREMENTAL"
    <3>1. work.free > 0 /\ work' = [work EXCEPT !.free = @ - 1] /\ Commit(work')
      BY <1>7, <2>2 DEF VacuumStep
    <3>2. WellFormed(work', made) /\ work'.rows = work.rows /\ work'.seq = work.seq
      BY <1>2, <3>1, VacuumWellFormed
    <3>3. Rest' \subseteq Rest \cup {work'}
      BY <1>2, <3>1, <3>2, CommitEffect DEF WellFormed, Rest
    <3>. QED  BY <1>1, <1>7, <2>1, <3>2, <3>3, TrimStep
  <2>3. CASE AutoVacuum # "INCREMENTAL"
    <3>1. UNCHANGED dbVars  BY <1>7, <2>3 DEF VacuumStep
    <3>2. work' = work /\ Rest' \subseteq Rest \cup {work'}  BY <3>1 DEF dbVars, Rest
    <3>. QED  BY <1>1, <1>7, <2>1, <3>2, TrimStep
  <2>. QED  BY <2>2, <2>3
<1>8. CASE CommitInsertFails /\ Follow
  <2>1. /\ work' \in Rest \cup {work} /\ made' = made /\ Rest' = Rest
    BY <1>8 DEF CommitInsertFails, Rest
  <2>2. \A d \in Rest' : d.seq <= work'.seq  BY <1>1 DEF IInv, RestIsOlder
  <2>. QED  BY <1>1, <1>8, <2>1, <2>2, UndoStep
<1>9. CASE (Close \/ Kill \/ PowerLoss) /\ Follow
  <2>1. work' \in Rest /\ made' = made /\ Rest' \subseteq Rest
    BY <1>9 DEF Close, Kill, PowerLoss, Down, Checkpointed, Rest
  <2>2. \A d \in Rest' : d.seq <= work'.seq  BY <1>1 DEF IInv, RestIsOlder
  <2>. QED  BY <1>1, <1>9, <2>1, <2>2, UndoStep
<1>10. CASE UNCHANGED hvars
  <2>1. UNCHANGED <<work, committed, survivors, made, written>>
    BY <1>10 DEF hvars, vars, dbVars
  <2>. QED  BY <2>1 DEF IInvH, LogOK, PartOfLog, Rest, L!logVars
<1>. QED
  BY <1>3, <1>4, <1>5, <1>6, <1>7, <1>8, <1>9, <1>10 DEF NextH, Next, Writer

(* The service's table, with its cleanups, failed commits and restarts, is *)
(* a log that grows at the end and is trimmed at the start.                *)
THEOREM StorageImplementsLog == SpecH => ImplementsRetainedLog
<1>1. InitH => L!InitLog
  BY DEF InitH, Init, EmptyDatabase, L!InitLog
<1>2. IInvH /\ [NextH]_hvars => IInvH' /\ [L!NextLog]_(L!logVars)
  BY StepH
<1>. QED  BY <1>1, <1>2, InitIInvH, PTL DEF SpecH, ImplementsRetainedLog, L!SpecLog
=============================================================================

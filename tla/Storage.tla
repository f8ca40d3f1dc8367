------------------------------- MODULE Storage -------------------------------
(***************************************************************************)
(* service/database.py: the positions table, the insert that the serial    *)
(* reader awaits once per second with the cleanup that follows it, and the *)
(* cursor poll (since) that HTTP clients run on the SAME connection.       *)
(*                                                                         *)
(* Every await is a step of its own, so polls fall between an INSERT and   *)
(* its COMMIT, and a crash or a shutdown between any two steps.            *)
(*                                                                         *)
(* SQLite is external and modelled from how the code uses it: a connection *)
(* reads its own uncommitted rows; AUTOINCREMENT is part of the            *)
(* transaction; under WAL with synchronous = NORMAL a power loss may undo  *)
(* every commit since the last checkpoint; a checkpoint needs a connection *)
(* with no SELECT under way; the database file shrinks at a checkpoint.    *)
(* A row takes a page; a write transaction appends a frame to the WAL.     *)
(***************************************************************************)
EXTENDS Naturals, FiniteSets

CONSTANTS
    MaxRecords,      \* bound: records the reader hands to insert()
    MaxFailures,     \* bound: statements that fail
    MaxRestarts,     \* bound: crashes and shutdowns
    HighMark,        \* pages at 95 % of MAX_DB_BYTES
    LowMark,         \* pages at 90 % of MAX_DB_BYTES
    CleanupShare,    \* 1 / CLEANUP_FRAC: one row in so many is deleted
    AutoCheckpoint,  \* WAL frames after which SQLite checkpoints by itself
    AutoVacuum,      \* "INCREMENTAL", or "NONE" for a database file init() found
    Limits           \* the `limit' values clients poll with

ASSUME StorageAssumption ==
    /\ {MaxRecords, MaxFailures, MaxRestarts} \subseteq Nat
    /\ {HighMark, LowMark, AutoCheckpoint, CleanupShare} \subseteq Nat \ {0}
    /\ LowMark < HighMark
    /\ AutoVacuum \in {"INCREMENTAL", "NONE"}
    /\ Limits \subseteq Nat \ {0}

VARIABLES
    work,       \* the database as the service's one connection sees it
    committed,  \* the database without the open transaction
    survivors,  \* the committed states a power loss may leave behind
    file, wal,  \* pages of the database file, frames of the WAL
    pc,         \* where insert() is; "idle" when no insert is running
    toDelete,   \* rows the running cleanup decided to delete
    made,       \* records handed to insert() so far; each is named by its number
    failures, restarts,
    cursor,     \* the cursor the client saved
    got,        \* <<id, record>> pairs the client received
    select,     \* the client's SELECT under way: its first row and its limit
    undone      \* history: ids whose visible insertion or deletion was taken back

dbVars == <<work, committed, survivors, file, wal>>
clientVars == <<cursor, got, select, undone>>
vars == <<dbVars, pc, toDelete, made, failures, restarts, clientVars>>

Ids == 1 .. MaxRecords
Records == 1 .. MaxRecords
NoSelect == [id |-> 0, rec |-> 0, limit |-> 0]

\* A database: the rows by id, the AUTOINCREMENT counter, the free pages.
IsDatabase(db) ==
    /\ DOMAIN db = {"rows", "seq", "free"}
    /\ DOMAIN db.rows \subseteq Ids
    /\ \A i \in DOMAIN db.rows : db.rows[i] \in Records
    /\ db.seq \in 0 .. MaxRecords
    /\ db.free \in Nat

EmptyDatabase == [rows |-> [i \in {} |-> 0], seq |-> 0, free |-> 0]

Total(db) == Cardinality(DOMAIN db.rows)
Pages(db) == Total(db) + db.free

PCs == {"closed", "idle", "commit", "check", "delete", "commitDelete",
        "checkpoint", "vacuum"}

TypeOK ==
    /\ IsDatabase(work) /\ IsDatabase(committed)
    /\ \A db \in survivors : IsDatabase(db)
    /\ file \in Nat /\ wal \in Nat
    /\ pc \in PCs
    /\ toDelete \in Nat
    /\ made \in 0 .. MaxRecords
    /\ failures \in 0 .. MaxFailures /\ restarts \in 0 .. MaxRestarts
    /\ cursor \in 0 .. MaxRecords
    /\ got \subseteq Ids \X Records
    /\ \/ select = NoSelect
       \/ select \in [id: Ids, rec: Records, limit: Limits]
    /\ undone \subseteq Ids

Init ==
    /\ work = EmptyDatabase /\ committed = EmptyDatabase
    /\ survivors = {EmptyDatabase}
    /\ file = 0 /\ wal = 0
    /\ pc = "idle" /\ toDelete = 0 /\ made = 0
    /\ failures = 0 /\ restarts = 0
    /\ cursor = 0 /\ got = {} /\ select = NoSelect /\ undone = {}

-----------------------------------------------------------------------------
(* Databases. *)

\* Fault: a primary key without AUTOINCREMENT goes on from the largest stored id.
WithRowAfterLast(db, rec) ==
    LET id == CHOOSE i \in 1 .. MaxRecords + 1 :
                  /\ \A j \in DOMAIN db.rows : j < i
                  /\ i = 1 \/ i - 1 \in DOMAIN db.rows
    IN  [rows |-> [i \in DOMAIN db.rows \cup {id} |-> IF i = id THEN rec ELSE db.rows[i]],
         seq |-> id,
         free |-> IF db.free > 0 THEN db.free - 1 ELSE 0]

\* A new row takes a page from the freelist when there is one.
WithRow(db, rec) ==
    [rows |-> [i \in DOMAIN db.rows \cup {db.seq + 1} |->
                  IF i = db.seq + 1 THEN rec ELSE db.rows[i]],
     seq |-> db.seq + 1,
     free |-> IF db.free > 0 THEN db.free - 1 ELSE 0]

\* ORDER BY id ASC LIMIT n: the set of the n smallest elements of S.
Firsts(S, n) ==
    {T \in SUBSET S : /\ \A i \in T, j \in S \ T : i < j
                      /\ Cardinality(T) = IF n < Cardinality(S) THEN n ELSE Cardinality(S)}

Without(db, ids) ==
    [rows |-> [i \in DOMAIN db.rows \ ids |-> db.rows[i]],
     seq |-> db.seq,
     free |-> db.free + Cardinality(ids)]

\* The connection's view becomes `db', an older state.
TakeBack(db) ==
    undone' = undone \cup ((db.seq + 1) .. work.seq)
                     \cup (DOMAIN db.rows \ DOMAIN work.rows)

StorageSize == file + wal

\* A checkpoint writes the committed database back, truncates its file to its
\* pages and makes everything committed so far survive a power loss.
Checkpointed(db) ==
    /\ file' = Pages(db) /\ wal' = 0 /\ survivors' = {db}

\* Every commit adds a frame, and SQLite checkpoints by itself when it may.
Commit(db) ==
    /\ committed' = db
    /\ IF wal + 1 >= AutoCheckpoint /\ select = NoSelect
       THEN Checkpointed(db)
       ELSE /\ wal' = wal + 1
            /\ file' = file
            /\ survivors' = survivors \cup {db}

-----------------------------------------------------------------------------
(* insert(), one step per await. *)

Execute ==
    /\ pc = "idle" /\ made < MaxRecords
    /\ made' = made + 1
    /\ work' = WithRow(work, made + 1)
    /\ pc' = "commit"
    /\ UNCHANGED <<committed, survivors, file, wal, toDelete, failures, restarts,
                   clientVars>>

\* The INSERT raises: the lock is released and the record is gone.
ExecuteFails ==
    /\ pc = "idle" /\ made < MaxRecords /\ failures < MaxFailures
    /\ made' = made + 1 /\ failures' = failures + 1
    /\ UNCHANGED <<dbVars, pc, toDelete, restarts, clientVars>>

CommitInsert ==
    /\ pc = "commit"
    /\ Commit(work) /\ UNCHANGED work
    /\ pc' = "check"
    /\ UNCHANGED <<toDelete, made, failures, restarts, clientVars>>

\* Fault: a failed COMMIT is answered by inserting again, without a rollback.
CommitInsertRetried ==
    /\ pc = "commit" /\ failures < MaxFailures /\ work.seq < MaxRecords
    /\ failures' = failures + 1
    /\ work' = WithRow(work, made)
    /\ UNCHANGED <<committed, survivors, file, wal, pc, toDelete, made, restarts,
                   clientVars>>

\* The COMMIT raises.  insert() does not roll back: the transaction stays open
\* on the shared connection, unless SQLite has rolled it back by itself.
CommitInsertFails ==
    /\ pc = "commit" /\ failures < MaxFailures
    /\ pc' = "idle" /\ failures' = failures + 1
    /\ work' \in {work, committed}
    /\ TakeBack(work')
    /\ UNCHANGED <<committed, survivors, file, wal, toDelete, made, restarts,
                   cursor, got, select>>

AtLeastOne(n) == IF n = 0 THEN 1 ELSE n

\* Fault: no cleanup while a client is reading.
CleanupCheckWhenQuiet ==
    /\ pc = "check"
    /\ IF StorageSize < HighMark \/ Total(work) = 0 \/ select # NoSelect
       THEN pc' = "idle" /\ UNCHANGED toDelete
       ELSE /\ pc' = "delete"
            /\ toDelete' = AtLeastOne(Total(work) \div CleanupShare)
    /\ UNCHANGED <<dbVars, made, failures, restarts, clientVars>>

CleanupCheck ==
    /\ pc = "check"
    /\ IF StorageSize < HighMark \/ Total(work) = 0
       THEN pc' = "idle" /\ UNCHANGED toDelete
       ELSE /\ pc' = "delete"
            /\ toDelete' = AtLeastOne(Total(work) \div CleanupShare)
    /\ UNCHANGED <<dbVars, made, failures, restarts, clientVars>>

\* Fault: ORDER BY id DESC.
CleanupDeleteNewest ==
    /\ pc = "delete"
    /\ \E older \in Firsts(DOMAIN work.rows, Total(work) - toDelete) :
          work' = Without(work, DOMAIN work.rows \ older)
    /\ pc' = "commitDelete" /\ toDelete' = 0
    /\ UNCHANGED <<committed, survivors, file, wal, made, failures, restarts, clientVars>>

CleanupDelete ==
    /\ pc = "delete"
    /\ \E oldest \in Firsts(DOMAIN work.rows, toDelete) : work' = Without(work, oldest)
    /\ pc' = "commitDelete" /\ toDelete' = 0
    /\ UNCHANGED <<committed, survivors, file, wal, made, failures, restarts, clientVars>>

CleanupCommit ==
    /\ pc = "commitDelete"
    /\ Commit(work) /\ UNCHANGED work
    /\ pc' = "checkpoint"
    /\ UNCHANGED <<toDelete, made, failures, restarts, clientVars>>

\* wal_checkpoint(TRUNCATE) raises "locked" while a SELECT is under way.
CleanupCheckpoint ==
    /\ pc = "checkpoint"
    /\ IF select = NoSelect
       THEN pc' = "vacuum" /\ Checkpointed(committed)
       ELSE pc' = "idle" /\ UNCHANGED <<file, wal, survivors>>
    /\ UNCHANGED <<work, committed, toDelete, made, failures, restarts, clientVars>>

\* Fault: the reclaim loop ends at its target only, and goes on without free pages.
VacuumDoneAtTarget ==
    /\ pc = "vacuum" /\ StorageSize <= LowMark
    /\ pc' = "idle"
    /\ UNCHANGED <<dbVars, toDelete, made, failures, restarts, clientVars>>

\* The reclaim loop.  In a file without auto_vacuum the pragma does nothing.
VacuumDone ==
    /\ pc = "vacuum"
    /\ StorageSize <= LowMark \/ work.free = 0
    /\ pc' = "idle"
    /\ UNCHANGED <<dbVars, toDelete, made, failures, restarts, clientVars>>

VacuumStep ==
    /\ pc = "vacuum"
    /\ StorageSize > LowMark /\ work.free > 0
    /\ IF AutoVacuum = "INCREMENTAL"
       THEN /\ work' = [work EXCEPT !.free = @ - 1]
            /\ Commit(work')
       ELSE UNCHANGED dbVars
    /\ UNCHANGED <<pc, toDelete, made, failures, restarts, clientVars>>

\* A statement of the cleanup raises: insert() logs it and returns.
CleanupFails ==
    /\ pc \in {"check", "delete", "commitDelete", "checkpoint", "vacuum"}
    /\ failures < MaxFailures
    /\ pc' = "idle" /\ failures' = failures + 1 /\ toDelete' = 0
    /\ UNCHANGED <<dbVars, made, restarts, clientVars>>

Writer ==
    \/ Execute \/ ExecuteFails \/ CommitInsert \/ CommitInsertFails
    \/ CleanupCheck \/ CleanupDelete \/ CleanupCommit \/ CleanupCheckpoint
    \/ VacuumDone \/ VacuumStep \/ CleanupFails

-----------------------------------------------------------------------------
(* since(): execute() steps to the first row, fetchall() reads the others. *)

Newer(db, c) == {i \in DOMAIN db.rows : i > c}

SelectSince(limit) ==
    /\ pc # "closed" /\ select = NoSelect
    /\ \E first \in Newer(work, cursor) :
          /\ \A i \in Newer(work, cursor) : first <= i
          /\ select' = [id |-> first, rec |-> work.rows[first], limit |-> limit]
    /\ UNCHANGED <<dbVars, pc, toDelete, made, failures, restarts, cursor, got, undone>>

\* Fault: the cursor runs ahead to the newest row.
NextCursorIsNewest(ids) == cursor' = work.seq

\* get_since(): the id of the last row becomes the next cursor.
NextCursor(ids) == cursor' \in {last \in ids : \A i \in ids : i <= last}

FetchAll ==
    /\ select # NoSelect
    /\ \E rest \in Firsts(Newer(work, select.id), select.limit - 1) :
          /\ got' = got \cup {<<select.id, select.rec>>}
                         \cup {<<i, work.rows[i]>> : i \in rest}
          /\ NextCursor({select.id} \cup rest)
    /\ select' = NoSelect
    /\ undone' = undone
    /\ UNCHANGED <<dbVars, pc, toDelete, made, failures, restarts>>

\* The response never reaches the client, which keeps the cursor it had.
ResponseLost ==
    /\ select # NoSelect
    /\ select' = NoSelect
    /\ UNCHANGED <<dbVars, pc, toDelete, made, failures, restarts, cursor, got, undone>>

-----------------------------------------------------------------------------
(* Restarts. *)

\* The service is down; `db' is what its database file holds.
Down(db) ==
    /\ pc # "closed" /\ restarts < MaxRestarts
    /\ pc' = "closed" /\ toDelete' = 0
    /\ restarts' = restarts + 1
    /\ work' = db /\ committed' = db
    /\ select' = NoSelect
    /\ TakeBack(db)
    /\ UNCHANGED <<made, failures, cursor, got>>

\* close(): the open transaction is rolled back, the last connection checkpoints.
Close == Down(committed) /\ Checkpointed(committed)

Kill == Down(committed) /\ UNCHANGED <<survivors, file, wal>>

PowerLoss == \E db \in survivors :
    Down(db) /\ survivors' = {db} /\ UNCHANGED <<file, wal>>

Open ==
    /\ pc = "closed"
    /\ pc' = "idle"
    /\ UNCHANGED <<dbVars, toDelete, made, failures, restarts, clientVars>>

Next ==
    \/ Writer
    \/ \E limit \in Limits : SelectSince(limit)
    \/ FetchAll \/ ResponseLost
    \/ Close \/ Kill \/ PowerLoss \/ Open

Spec == Init /\ [][Next]_vars

\* The event loop runs every coroutine that can go on.
FairSpec == Spec /\ WF_vars(Writer) /\ WF_vars(Open)

-----------------------------------------------------------------------------
(* Retention cuts a prefix: whatever inserts, cleanups, failed commits and *)
(* restarts did, every id between a stored one and the AUTOINCREMENT       *)
(* counter is stored, in the connection's view and in every state a crash  *)
(* can leave.                                                              *)
IdsAreConsecutive ==
    \A db \in {work, committed} \cup survivors :
        \A i \in DOMAIN db.rows :
            /\ i <= db.seq
            /\ \A j \in Ids : i < j /\ j <= db.seq => j \in DOMAIN db.rows

(* Records keep their order: a larger id is a later record, also across    *)
(* restarts that hand out ids again.                                       *)
IdsFollowRecords ==
    \A db \in {work, committed} \cup survivors :
        \A i, j \in DOMAIN db.rows : i < j => db.rows[i] < db.rows[j]

(* A client that polls with next_cursor receives every row that is still   *)
(* stored behind its cursor, though its SELECT interleaves with inserts    *)
(* and cleanups and its responses get lost, unless a restart or a failed   *)
(* commit took back an insertion or a deletion that was already visible.   *)
SkipsOnlyWhatWasUndone ==
    \A i \in DOMAIN work.rows :
        i <= cursor /\ i \notin undone => <<i, work.rows[i]>> \in got

(* The database file stays at the cap's high mark: freed pages are reused  *)
(* or given back before it grows past it.  Only a failed statement or a   *)
(* restart that cuts a cleanup short lets a page through.                  *)
FileStaysBelowCap == file <= HighMark + failures + restarts

(* insert() returns: no cleanup keeps the reader waiting for ever.         *)
InsertReturns == pc # "idle" ~> pc \in {"idle", "closed"}

(* docs/api.md and database.py: the id is monotonically increasing and     *)
(* serves as the polling cursor, so a saved cursor never skips a record.   *)
CursorNeverSkips ==
    \A i \in DOMAIN work.rows : i <= cursor => <<i, work.rows[i]>> \in got
=============================================================================

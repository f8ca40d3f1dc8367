------------------------------ MODULE StorageLog ------------------------------
(***************************************************************************)
(* Storage implements RetainedLog.  The table forgets the rows it deletes, *)
(* so a history variable keeps every record the connection's view holds or *)
(* has held under its present ids.                                         *)
(***************************************************************************)
EXTENDS Storage, Sequences

VARIABLE written  \* history: the record that got each id up to work.seq

hvars == <<vars, written>>

InitH == Init /\ written = <<>>

\* An insertion extends the history, a rollback cuts it.
Follow ==
    written' = IF work'.seq > work.seq
               THEN Append(written, work'.rows[work'.seq])
               ELSE SubSeq(written, 1, work'.seq)

NextH == Next /\ Follow

SpecH == InitH /\ [][NextH]_hvars

FairSpecH == SpecH /\ WF_vars(Writer) /\ WF_vars(Open)

L == INSTANCE RetainedLog WITH log <- written, retained <- DOMAIN work.rows

(* Inserts, cleanups in five statements, failed commits and restarts seen  *)
(* through the one connection are nothing but a log that grows at its end, *)
(* is trimmed at its start and is taken back to an earlier point: no id    *)
(* in the middle is ever missing, reused under a stored row, or changed.   *)
ImplementsRetainedLog == L!SpecLog
=============================================================================

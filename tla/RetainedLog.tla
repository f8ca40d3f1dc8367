----------------------------- MODULE RetainedLog -----------------------------
(***************************************************************************)
(* What the readers of service/database.py may rely on: a log of records,  *)
(* numbered from 1, of which the last ones are retained.  It grows at its  *)
(* end and is trimmed at its start.  A failed commit or a restart takes it *)
(* back to an earlier point, and may retain again what had been trimmed.   *)
(***************************************************************************)
EXTENDS Naturals, Sequences

VARIABLES
    log,       \* the record that got each id
    retained,  \* the ids whose rows are stored
    made       \* records offered so far; each is named by its number

logVars == <<log, retained, made>>

\* The ranges of ids that end with the n-th.
Windows(n) == {S \in SUBSET (1 .. n) : \A i \in S, j \in 1 .. n : i < j => j \in S}

InitLog == log = <<>> /\ retained = {} /\ made = 0

Record ==
    /\ made' = made + 1
    /\ log' = Append(log, made + 1)
    /\ retained' = retained \cup {Len(log) + 1}

\* A record that is not stored.
Drop == made' = made + 1 /\ UNCHANGED <<log, retained>>

Trim ==
    /\ retained' \in Windows(Len(log)) /\ retained' \subseteq retained
    /\ UNCHANGED <<log, made>>

TakenBackTo(n) ==
    /\ log' = SubSeq(log, 1, n)
    /\ retained' \in Windows(n)
    /\ UNCHANGED made

Undo == \E n \in 0 .. Len(log) : TakenBackTo(n)

NextLog == Record \/ Drop \/ Trim \/ Undo

SpecLog == InitLog /\ [][NextLog]_logVars
=============================================================================

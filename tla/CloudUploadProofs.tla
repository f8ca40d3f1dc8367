-------------------------- MODULE CloudUploadProofs --------------------------
(***************************************************************************)
(* What the uploading client may rely on, for every number of records,     *)
(* faults, rollbacks and requests under way, and every batch limit.        *)
(***************************************************************************)
EXTENDS CloudUpload, FiniteSetTheorems, TLAPS

USE UploadAssumption

RequestType ==
    [stage: Stages, since: 0 .. MaxRecords, limit: Nat,
     first: Rows \cup {<<0, 0>>}, batch: SUBSET Rows,
     next: 0 .. MaxRecords, abandoned: BOOLEAN]

LogOK ==
    /\ log \in Seq(Records) /\ Len(log) <= made /\ made \in 0 .. MaxRecords
    /\ retained \subseteq 1 .. Len(log)

ScalarsOK ==
    /\ setup \in Setups /\ cursor \in 0 .. MaxRecords
    /\ copies \in [Records -> Nat]
    /\ faults \in 0 .. MaxFaults /\ undos \in 0 .. MaxUndos /\ undone \subseteq Ids

RequestsOK == request \in [Requests -> RequestType]

\* A request that has selected has a first row, one that is answered a client.
StagesOK ==
    \A r \in Requests :
        /\ At(r, "selected") => request[r].first \in Rows
        /\ At(r, "ok") \/ At(r, "error") => ~request[r].abandoned

OneWaits == \A r, s \in Requests : Waiting(r) /\ Waiting(s) => r = s

\* The stored ids that no rollback has touched.
Steady == retained \ undone

\* The last id that a request the client waits for has promised or may promise.
Promised(q, i) ==
    \/ q.stage = "selected" /\ i <= q.first[1]
    \/ q.stage \in {"posting", "sent"} /\ \E row \in q.batch : i <= row[1]
    \/ q.stage = "ok" /\ i <= q.next

\* Ids the client is past, or will be, and the log is not, were taken back.
AheadWasUndone ==
    \A i \in Ids :
        Len(log) < i /\ (i <= cursor \/ \E r \in Requests : Waiting(r) /\ Promised(request[r], i))
            => i \in undone

\* What a request holds of the steady ids past the cursor.
Holds(q) ==
    /\ q.stage = "arrived" => q.since = cursor
    /\ q.stage = "selected" =>
          /\ cursor < q.first[1]
          /\ \A i \in Steady : cursor < i => q.first[1] <= i
          /\ \A i \in Steady : i = q.first[1] => log[i] = q.first[2]
    /\ q.stage \in {"posting", "sent"} =>
          \A i \in Steady : cursor < i /\ Promised(q, i) => <<i, log[i]>> \in q.batch
    /\ q.stage = "ok" =>
          \A i \in Steady : cursor < i /\ i <= q.next => copies[log[i]] > 0

WaitingHold == \A r \in Requests : Waiting(r) => Holds(request[r])

SentIsCopied ==
    \A r \in Requests : At(r, "sent") => \A row \in request[r].batch : copies[row[2]] > 0

IInv == /\ LogOK /\ ScalarsOK /\ RequestsOK /\ StagesOK /\ OneWaits
        /\ AheadWasUndone /\ WaitingHold /\ SentIsCopied /\ UploadsAreComplete

-----------------------------------------------------------------------------
(* One request moves on. *)

LEMMA FreeType ==
    /\ Free \in RequestType /\ Free.stage = "free" /\ Free.abandoned = FALSE
    /\ Free.first = <<0, 0>> /\ Free.batch = {} /\ Free.next = 0
<1>1. 0 \in 0 .. MaxRecords  OBVIOUS
<1>2. {} \in SUBSET Rows /\ <<0, 0>> \in Rows \cup {<<0, 0>>} /\ "free" \in Stages
  BY DEF Stages
<1>. HIDE UploadAssumption
<1>. QED  BY <1>1, <1>2 DEF Free, RequestType

\* A step of the handler or of the client that makes `q' of the request `r'.
LEMMA RequestStep ==
    ASSUME IInv, NEW r \in Requests, NEW q \in RequestType,
           request' = [request EXCEPT ![r] = q],
           UNCHANGED <<log, retained, made, undone, cursor>>, ScalarsOK',
           \A rec \in Records : copies[rec] > 0 => copies'[rec] > 0,
           q.stage \in {"ok", "error"} => ~q.abandoned,
           q.stage = "selected" => q.first \in Rows,
           q.stage = "sent" => \A row \in q.batch : copies'[row[2]] > 0,
           q.stage # "free" /\ ~q.abandoned =>
              /\ \A s \in Requests : Waiting(s) => s = r
              /\ Holds(q)'
              /\ \A i \in Ids : Len(log) < i /\ Promised(q, i) => i \in undone
    PROVE  IInv'
<1>. USE DEF IInv
<1>1. request'[r] = q /\ \A s \in Requests : s # r => request'[s] = request[s]
  BY DEF RequestsOK
<1>2. RequestsOK'  BY <1>1 DEF RequestsOK
<1>3. LogOK' /\ StagesOK'
  BY <1>1 DEF LogOK, StagesOK, At
<1>4. OneWaits'  BY <1>1 DEF OneWaits, Waiting
<1>5. \A i \in Steady : log[i] \in Records  
  <2>1. \A i \in retained : i \in 1 .. Len(log)  BY DEF LogOK
  <2>2. \A i \in 1 .. Len(log) : log[i] \in Records  BY DEF LogOK
  <2>. QED  BY <2>1, <2>2 DEF Steady
<1>6. SentIsCopied'
  <2>. SUFFICES ASSUME NEW s \in Requests, At(s, "sent")', NEW row \in request'[s].batch
                PROVE  copies'[row[2]] > 0
    BY DEF SentIsCopied
  <2>1. CASE s = r  BY <1>1, <2>1 DEF At
  <2>2. CASE s # r
    <3>1. row \in Rows  BY <1>1, <2>2 DEF RequestsOK, RequestType
    <3>2. copies[row[2]] > 0  BY <1>1, <2>2 DEF SentIsCopied, At
    <3>. QED  BY <3>1, <3>2 DEF Rows
  <2>. QED  BY <2>1, <2>2
<1>7. AheadWasUndone'
  BY <1>1 DEF AheadWasUndone, Waiting
<1>8. WaitingHold'
  <2>. SUFFICES ASSUME NEW s \in Requests, Waiting(s)' PROVE Holds(request[s])'
    BY DEF WaitingHold
  <2>1. CASE s = r  BY <1>1, <2>1 DEF Waiting
  <2>2. CASE s # r
    <3>1. Holds(request[s])  BY <1>1, <2>2 DEF WaitingHold, Waiting
    <3>2. Steady' = Steady  BY DEF Steady
    <3>3. request'[s] = request[s]  BY <1>1, <2>2
    <3>. QED  BY <1>5, <3>1, <3>2, <3>3 DEF Holds, Promised
  <2>. QED  BY <2>1, <2>2
<1>9. UploadsAreComplete'
  BY <1>5 DEF UploadsAreComplete, Steady
<1>. QED  BY <1>2, <1>3, <1>4, <1>6, <1>7, <1>8, <1>9

\* A request that failed, or of which nothing is left.
LEMMA RequestFails ==
    ASSUME IInv, NEW r \in Requests, NEW q \in RequestType,
           q.stage = "error" /\ ~q.abandoned /\ Waiting(r),
           request' = [request EXCEPT ![r] = q],
           UNCHANGED <<log, retained, made, undone, cursor, copies>>, ScalarsOK'
    PROVE  IInv'
BY RequestStep DEF IInv, OneWaits, Holds, Promised

LEMMA RequestFreed ==
    ASSUME IInv, NEW r \in Requests,
           request' = [request EXCEPT ![r] = Free],
           UNCHANGED <<log, retained, made, undone, cursor, copies>>, ScalarsOK'
    PROVE  IInv'
<1>1. Free \in RequestType /\ Free.stage = "free"  BY FreeType
<1>. QED  BY <1>1, RequestStep

-----------------------------------------------------------------------------
(* The handler. *)

LEMMA AnswerType ==
    ASSUME NEW next \in 0 .. MaxRecords, NEW stage \in {"ok", "error"}
    PROVE  [Free EXCEPT !.stage = stage, !.next = next] \in RequestType
<1>1. stage \in Stages  BY DEF Stages
<1>. QED  BY <1>1, FreeType DEF RequestType

LEMMA Facts ==
    ASSUME IInv, NEW r \in Requests
    PROVE  /\ request[r] \in RequestType
           /\ cursor \in 0 .. MaxRecords /\ Len(log) \in 0 .. MaxRecords
           /\ retained \subseteq Ids
           /\ \A i \in retained : i <= Len(log) /\ log[i] \in Records
<1>1. request[r] \in RequestType  BY DEF IInv, RequestsOK
<1>3. log \in Seq(Records) /\ Len(log) <= made /\ made \in 0 .. MaxRecords
      /\ retained \subseteq 1 .. Len(log) /\ cursor \in 0 .. MaxRecords
  BY DEF IInv, LogOK, ScalarsOK
<1>4. Len(log) \in Nat  BY <1>3
<1>5. \A i \in 1 .. Len(log) : i \in Ids /\ i <= Len(log) /\ log[i] \in Records
  BY <1>3, <1>4 DEF Ids
<1>6. Len(log) \in 0 .. MaxRecords  BY <1>3, <1>4
<1>. QED  BY <1>1, <1>3, <1>5, <1>6

LEMMA AnswerIInv ==
    ASSUME IInv, NEW r \in Requests, request[r].stage # "free",
           NEW stage \in {"ok", "error"}, NEW next \in 0 .. MaxRecords,
           Answered(r, stage, next), ScalarsOK',
           UNCHANGED <<log, retained, made, undone, cursor, copies>>,
           stage = "ok" /\ Waiting(r) =>
              /\ \A i \in Steady : cursor < i /\ i <= next => copies[log[i]] > 0
              /\ \A i \in Ids : Len(log) < i /\ i <= next => i \in undone
    PROVE  IInv'
<1>. DEFINE q == [Free EXCEPT !.stage = stage, !.next = next]
<1>1. request[r] \in RequestType /\ q \in RequestType  BY Facts, AnswerType
<1>2. q.stage = stage /\ q.next = next /\ q.abandoned = FALSE  BY FreeType, <1>1 DEF Free
<1>3. CASE request[r].abandoned
  <2>1. request' = [request EXCEPT ![r] = Free]  BY <1>3 DEF Answered, IInv, RequestsOK
  <2>. QED  BY <2>1, RequestFreed
<1>4. CASE ~request[r].abandoned
  <2>1. request' = [request EXCEPT ![r] = q]  BY <1>4 DEF Answered, IInv, RequestsOK
  <2>2. Waiting(r)  BY <1>4 DEF Waiting
  <2>. HIDE DEF q
  <2>3. CASE stage = "error"  BY <1>1, <1>2, <2>1, <2>2, <2>3, RequestFails
  <2>4. CASE stage = "ok"
    <3>1. \A s \in Requests : Waiting(s) => s = r  BY <2>2 DEF IInv, OneWaits
    <3>2. Holds(q)'
      BY <1>2, <2>2, <2>4 DEF Holds, Steady
    <3>3. \A i \in Ids : Len(log) < i /\ Promised(q, i) => i \in undone
      BY <1>2, <2>2, <2>4 DEF Promised
    <3>. QED  BY <1>1, <1>2, <2>1, <2>4, <3>1, <3>2, <3>3, RequestStep
  <2>. QED  BY <2>3, <2>4
<1>. QED  BY <1>1, <1>3, <1>4 DEF RequestType

LEMMA FailIInv ==
    ASSUME IInv, NEW r \in Requests, Refuse(r) \/ NotResolved(r) \/ PostFails(r)
    PROVE  IInv'
<1>1. /\ request[r].stage # "free" /\ Answered(r, "error", 0)
      /\ UNCHANGED <<log, retained, made, undone, cursor, copies>>
  BY DEF Refuse, NotResolved, PostFails, At, logVars, undoVars
<1>2. ScalarsOK'
  BY DEF IInv, ScalarsOK, Refuse, NotResolved, PostFails, Fault, undoVars
<1>3. 0 \in 0 .. MaxRecords  OBVIOUS
<1>. QED  BY <1>1, <1>2, <1>3, AnswerIInv

LEMMA NothingNewIInv ==
    ASSUME IInv, NEW r \in Requests, NothingNew(r)
    PROVE  IInv'
<1>1. /\ At(r, "arrived") /\ Newer(request[r].since) = {}
      /\ Answered(r, "ok", request[r].since)
      /\ UNCHANGED <<log, retained, made, undone, cursor, copies>>
  BY DEF NothingNew, logVars, undoVars
<1>2. ScalarsOK'  BY DEF IInv, ScalarsOK, NothingNew, undoVars
<1>3. request[r].since \in 0 .. MaxRecords  BY Facts DEF RequestType
<1>4. Waiting(r) => request[r].since = cursor
  BY <1>1 DEF IInv, WaitingHold, Holds, At
<1>5. cursor \in 0 .. MaxRecords /\ \A i \in Steady : i \in Nat  BY Facts DEF Steady, Ids
<1>6. Waiting(r) => \A i \in Ids : Len(log) < i /\ i <= request[r].since => i \in undone
  BY <1>4 DEF IInv, AheadWasUndone
<1>7. Waiting(r) => \A i \in Steady : ~(cursor < i /\ i <= request[r].since)
  BY <1>4, <1>5
<1>. QED  BY <1>1, <1>2, <1>3, <1>6, <1>7, AnswerIInv DEF At

LEMMA SucceedIInv ==
    ASSUME IInv, NEW r \in Requests, Succeed(r)
    PROVE  IInv'
<1>1. PICK last \in request[r].batch : /\ \A row \in request[r].batch : row[1] <= last[1]
                                       /\ Answered(r, "ok", last[1])
  BY DEF Succeed
<1>2. At(r, "sent") /\ UNCHANGED <<log, retained, made, undone, cursor, copies>>
  BY DEF Succeed, logVars, undoVars
<1>3. ScalarsOK'  BY DEF IInv, ScalarsOK, Succeed, undoVars
<1>4. last[1] \in 0 .. MaxRecords
  <2>1. request[r].batch \subseteq Rows  BY Facts DEF RequestType
  <2>. QED  BY <2>1 DEF Rows, Ids
<1>5. \A i : i <= last[1] => Promised(request[r], i)
  BY <1>1, <1>2 DEF Promised, At
<1>6. Waiting(r) => \A i \in Ids : Len(log) < i /\ i <= last[1] => i \in undone
  BY <1>5 DEF IInv, AheadWasUndone
<1>7. Waiting(r) => \A i \in Steady : cursor < i /\ i <= last[1] => copies[log[i]] > 0
  <2>. SUFFICES ASSUME Waiting(r), NEW i \in Steady, cursor < i, i <= last[1]
                PROVE  copies[log[i]] > 0
    OBVIOUS
  <2>1. <<i, log[i]>> \in request[r].batch
    BY <1>2, <1>5 DEF IInv, WaitingHold, Holds, At
  <2>. QED  BY <1>2, <2>1 DEF IInv, SentIsCopied
<1>. QED  BY <1>1, <1>2, <1>3, <1>4, <1>6, <1>7, AnswerIInv DEF At

LEMMA SelectIInv ==
    ASSUME IInv, NEW r \in Requests, Select(r)
    PROVE  IInv'
<1>1. PICK first \in Newer(request[r].since) :
         /\ \A j \in Newer(request[r].since) : first <= j
         /\ request' = [request EXCEPT ![r].stage = "selected", ![r].first = <<first, log[first]>>]
  BY DEF Select
<1>0. PICK q : q = [request[r] EXCEPT !.stage = "selected", !.first = <<first, log[first]>>]
  OBVIOUS
<1>2. At(r, "arrived") /\ UNCHANGED <<log, retained, made, undone, cursor, copies>>
  BY DEF Select, logVars, undoVars
<1>3. ScalarsOK'  BY DEF IInv, ScalarsOK, Select, undoVars
<1>4. first \in retained /\ first \in Ids /\ request[r].since < first
      /\ first <= Len(log) /\ log[first] \in Records /\ request[r] \in RequestType
      /\ cursor \in 0 .. MaxRecords /\ Len(log) \in 0 .. MaxRecords /\ retained \subseteq Ids
  BY <1>1, Facts DEF Newer
<1>5. /\ q.stage = "selected" /\ q.first = <<first, log[first]>>
      /\ q.abandoned = request[r].abandoned
      /\ q \in RequestType /\ <<first, log[first]>> \in Rows
  BY <1>0, <1>4 DEF RequestType, Stages, Rows
<1>6. request' = [request EXCEPT ![r] = q]  BY <1>0, <1>1
<1>7. CASE Waiting(r)
  <2>1. request[r].since = cursor  BY <1>2, <1>7 DEF IInv, WaitingHold, Holds, At
  <2>2. \A i \in Steady : cursor < i => first <= i  BY <1>1, <2>1 DEF Newer, Steady
  <2>3. Holds(q)'
    BY <1>2, <1>4, <1>5, <2>1, <2>2 DEF Holds, Steady
  <2>4. \A i \in Ids : ~(Len(log) < i /\ Promised(q, i))
    BY <1>4, <1>5 DEF Promised, Ids
  <2>5. \A s \in Requests : Waiting(s) => s = r  BY <1>7 DEF IInv, OneWaits
  <2>. QED  BY <1>2, <1>3, <1>5, <1>6, <2>3, <2>4, <2>5, RequestStep
<1>8. CASE ~Waiting(r)
  <2>1. q.abandoned  BY <1>2, <1>5, <1>8, <1>4 DEF Waiting, At, RequestType
  <2>. QED  BY <1>2, <1>3, <1>5, <1>6, <2>1, RequestStep
<1>. QED  BY <1>7, <1>8

LEMMA FetchIInv ==
    ASSUME IInv, NEW r \in Requests, Fetch(r)
    PROVE  IInv'
<1>0. PICK first : first = request[r].first  OBVIOUS
<1>. DEFINE later == Newer(first[1])
<1>1. PICK rest \in SUBSET later :
         /\ \A i \in rest, j \in later \ rest : i < j
         /\ Batched(r, {first} \cup RowsOf(rest))
  BY <1>0 DEF Fetch
<1>10. PICK rows : rows = {first} \cup RowsOf(rest)  OBVIOUS
<1>11. PICK q : q = [Free EXCEPT !.stage = "posting", !.batch = rows,
                                 !.abandoned = request[r].abandoned]
  OBVIOUS
<1>2. At(r, "selected") /\ UNCHANGED <<log, retained, made, undone, cursor, copies>>
  BY DEF Fetch, logVars, undoVars
<1>3. ScalarsOK'  BY DEF IInv, ScalarsOK, Fetch, undoVars
<1>4. /\ request[r] \in RequestType /\ cursor \in 0 .. MaxRecords
      /\ Len(log) \in 0 .. MaxRecords /\ retained \subseteq Ids
      /\ \A i \in retained : i <= Len(log) /\ log[i] \in Records
      /\ rest \subseteq retained /\ \A i \in rest : first[1] < i
  BY <1>1, Facts DEF Newer
<1>5. RowsOf(rest) \subseteq Rows  BY <1>4 DEF RowsOf, Rows
<1>6. request' = [request EXCEPT ![r] = q]  BY <1>1, <1>10, <1>11 DEF Batched
<1>7. q.stage = "posting" /\ q.batch = rows /\ q.abandoned = request[r].abandoned
  BY <1>11 DEF Free
<1>12. first \in Rows  BY <1>0, <1>2 DEF IInv, StagesOK
<1>13. q \in RequestType
  <2>1. rows \in SUBSET Rows /\ request[r].abandoned \in BOOLEAN /\ "posting" \in Stages
    BY <1>4, <1>5, <1>10, <1>12 DEF RequestType, Stages
  <2>. QED  BY <1>11, <2>1, FreeType DEF RequestType
<1>14. first = <<first[1], first[2]>> /\ first[1] \in Ids  BY <1>12 DEF Rows
<1>8. CASE Waiting(r)
  <2>1. Holds(request[r])  BY <1>8 DEF IInv, WaitingHold
  <2>2. /\ cursor < first[1]
        /\ \A i \in Steady : cursor < i => first[1] <= i
        /\ \A i \in Steady : i = first[1] => log[i] = first[2]
    BY <1>0, <1>2, <2>1 DEF Holds, At
  <2>5. ASSUME NEW i \in Steady, cursor < i, NEW row \in rows, i <= row[1]
        PROVE  <<i, log[i]>> \in rows
    <3>1. i \in retained /\ i \in Ids  BY <1>4 DEF Steady
    <3>2. CASE i = first[1]  BY <1>10, <1>14, <2>2, <3>2
    <3>3. CASE i # first[1]
      <4>1. first[1] < i  BY <1>14, <2>2, <2>5, <3>1, <3>3 DEF Ids
      <4>2. i \in later  BY <3>1, <4>1 DEF Newer
      <4>3. PICK j \in rest : row = <<j, log[j]>>
        BY <1>10, <1>14, <2>5, <3>1, <4>1 DEF RowsOf, Ids
      <4>4. j \in Ids /\ row[1] = j  BY <1>4, <4>3
      <4>5. i \in rest  BY <1>1, <2>5, <3>1, <4>2, <4>4 DEF Ids
      <4>. QED  BY <1>10, <4>5 DEF RowsOf
    <3>. QED  BY <3>2, <3>3
  <2>6. Holds(q)'
    BY <1>2, <1>7, <2>5 DEF Holds, Steady, Promised
  <2>7. ASSUME NEW i \in Ids, Len(log) < i, Promised(q, i)
        PROVE  i \in undone
    <3>1. PICK row \in rows : i <= row[1]  BY <1>7, <2>7 DEF Promised
    <3>2. CASE row \in RowsOf(rest)
      <4>1. PICK j \in rest : row = <<j, log[j]>>  BY <3>2 DEF RowsOf
      <4>2. j \in Ids /\ j <= Len(log) /\ row[1] = j  BY <1>4, <4>1
      <4>. QED  BY <1>4, <2>7, <3>1, <4>2 DEF Ids
    <3>3. CASE row = first
      <4>1. Promised(request[r], i)  BY <1>0, <1>2, <3>1, <3>3 DEF Promised, At
      <4>. QED  BY <1>8, <2>7, <4>1 DEF IInv, AheadWasUndone
    <3>. QED  BY <1>10, <3>1, <3>2, <3>3
  <2>8. \A s \in Requests : Waiting(s) => s = r  BY <1>8 DEF IInv, OneWaits
  <2>. QED  BY <1>2, <1>3, <1>6, <1>7, <1>13, <2>6, <2>7, <2>8, RequestStep
<1>9. CASE ~Waiting(r)
  <2>1. request[r].abandoned  BY <1>2, <1>4, <1>9 DEF Waiting, At, RequestType
  <2>. QED  BY <1>2, <1>3, <1>6, <1>7, <1>13, <2>1, RequestStep
<1>. QED  BY <1>8, <1>9

LEMMA PostIInv ==
    ASSUME IInv, NEW r \in Requests, Post(r)
    PROVE  IInv'
<1>1. PICK q : q = [request[r] EXCEPT !.stage = "sent"]  OBVIOUS
<1>2. /\ At(r, "posting") /\ UNCHANGED <<log, retained, made, undone, cursor>>
      /\ request' = [request EXCEPT ![r] = q]
      /\ copies' = [rec \in Records |->
                       IF \E row \in request[r].batch : row[2] = rec
                       THEN copies[rec] + 1 ELSE copies[rec]]
  BY <1>1 DEF Post, Becomes, logVars, undoVars
<1>3. copies \in [Records -> Nat] /\ request[r] \in RequestType
  BY Facts DEF IInv, ScalarsOK
<1>4. /\ copies' \in [Records -> Nat]
      /\ \A rec \in Records : copies[rec] > 0 => copies'[rec] > 0
      /\ \A row \in request[r].batch : row[2] \in Records => copies'[row[2]] > 0
  BY <1>2, <1>3
<1>5. \A row \in request[r].batch : row[2] \in Records
  BY <1>3 DEF RequestType, Rows
<1>6. ScalarsOK'  BY <1>2, <1>4 DEF IInv, ScalarsOK, Post, undoVars
<1>7. /\ q.stage = "sent" /\ q.batch = request[r].batch
      /\ q.abandoned = request[r].abandoned /\ q \in RequestType
  BY <1>1, <1>3 DEF RequestType, Stages
<1>8. CASE Waiting(r)
  <2>1. Holds(request[r])  BY <1>8 DEF IInv, WaitingHold
  <2>2. \A i : Promised(q, i) => Promised(request[r], i)
    BY <1>2, <1>7 DEF Promised, At
  <2>3. Holds(q)'
    BY <1>2, <1>7, <2>1, <2>2 DEF Holds, Steady, At, Promised
  <2>4. \A i \in Ids : Len(log) < i /\ Promised(q, i) => i \in undone
    BY <1>8, <2>2 DEF IInv, AheadWasUndone
  <2>5. \A s \in Requests : Waiting(s) => s = r  BY <1>8 DEF IInv, OneWaits
  <2>. QED  BY <1>2, <1>4, <1>5, <1>6, <1>7, <2>3, <2>4, <2>5, RequestStep
<1>9. CASE ~Waiting(r)
  <2>1. q.abandoned  BY <1>2, <1>3, <1>7, <1>9 DEF Waiting, At, RequestType
  <2>. QED  BY <1>2, <1>4, <1>5, <1>6, <1>7, <2>1, RequestStep
<1>. QED  BY <1>8, <1>9

-----------------------------------------------------------------------------
(* The client, and the end of the service. *)

LEMMA AskIInv ==
    ASSUME IInv, NEW r \in Requests, Ask(r)
    PROVE  IInv'
<1>1. PICK limit \in Limits :
         request' = [request EXCEPT ![r] = [Free EXCEPT !.stage = "arrived",
                                                         !.since = cursor, !.limit = limit]]
  BY DEF Ask
<1>2. PICK q : q = [Free EXCEPT !.stage = "arrived", !.since = cursor, !.limit = limit]
  OBVIOUS
<1>3. /\ UNCHANGED <<log, retained, made, undone, cursor, copies>>
      /\ \A s \in Requests : ~Waiting(s)
  BY DEF Ask, logVars, undoVars
<1>4. ScalarsOK'  BY DEF IInv, ScalarsOK, Ask, undoVars
<1>5. /\ q.stage = "arrived" /\ q.since = cursor /\ q.abandoned = FALSE
      /\ q \in RequestType
  <2>1. cursor \in 0 .. MaxRecords /\ limit \in Nat /\ "arrived" \in Stages
    BY Facts DEF Stages
  <2>2. q \in RequestType  BY <1>2, <2>1, FreeType DEF RequestType
  <2>. QED  BY <1>2, <2>2 DEF Free
<1>6. Holds(q)'  BY <1>3, <1>5 DEF Holds
<1>7. \A i : ~Promised(q, i)  BY <1>5 DEF Promised
<1>8. request' = [request EXCEPT ![r] = q]  BY <1>1, <1>2
<1>. QED  BY <1>3, <1>4, <1>5, <1>6, <1>7, <1>8, RequestStep

LEMMA GiveUpIInv ==
    ASSUME IInv, NEW r \in Requests, GiveUp(r)
    PROVE  IInv'
<1>1. UNCHANGED <<log, retained, made, undone, cursor, copies>>
  BY DEF GiveUp, logVars, undoVars
<1>2. ScalarsOK'  BY DEF IInv, ScalarsOK, GiveUp, Fault, undoVars
<1>3. request[r] \in RequestType  BY Facts
<1>4. CASE request[r].stage \in {"ok", "error"}
  <2>1. request' = [request EXCEPT ![r] = Free]  BY <1>4 DEF GiveUp, IInv, RequestsOK
  <2>. QED  BY <1>1, <1>2, <2>1, RequestFreed
<1>5. CASE request[r].stage \notin {"ok", "error"}
  <2>1. PICK q : q = [request[r] EXCEPT !.abandoned = TRUE]  OBVIOUS
  <2>2. request' = [request EXCEPT ![r] = q]
    BY <1>5, <2>1 DEF GiveUp, IInv, RequestsOK
  <2>3. /\ q \in RequestType /\ q.abandoned /\ q.stage = request[r].stage
        /\ q.batch = request[r].batch /\ q.first = request[r].first
    BY <1>3, <2>1 DEF RequestType
  <2>4. /\ q.stage = "selected" => q.first \in Rows
        /\ q.stage = "sent" => \A row \in q.batch : copies[row[2]] > 0
    BY <2>3 DEF IInv, StagesOK, SentIsCopied, At
  <2>. QED  BY <1>1, <1>2, <1>5, <2>2, <2>3, <2>4, RequestStep
<1>. QED  BY <1>4, <1>5

LEMMA ReplyIInv ==
    ASSUME IInv, NEW r \in Requests, Reply(r)
    PROVE  IInv'
<1>. USE DEF IInv
<1>1. /\ UNCHANGED <<log, retained, made, undone, copies>>
      /\ request' = [request EXCEPT ![r] = Free]
      /\ cursor' = IF At(r, "ok") THEN request[r].next ELSE cursor
      /\ At(r, "ok") \/ At(r, "error")
  BY DEF Reply, logVars, undoVars
<1>2. CASE At(r, "error")
  <2>1. cursor' = cursor  BY <1>1, <1>2 DEF At
  <2>2. ScalarsOK'  BY <2>1 DEF ScalarsOK, Reply, undoVars
  <2>. QED  BY <1>1, <2>1, <2>2, RequestFreed
<1>3. CASE At(r, "ok")
  <2>1. cursor' = request[r].next /\ request[r].next \in 0 .. MaxRecords
    BY <1>1, <1>3, Facts DEF RequestType
  <2>2. ScalarsOK'  BY <2>1 DEF ScalarsOK, Reply, undoVars
  <2>3. Waiting(r)  BY <1>3 DEF StagesOK, Waiting, At
  <2>4. /\ request'[r] = Free /\ \A s \in Requests : s # r => request'[s] = request[s]
        /\ request' \in [Requests -> RequestType]
    BY <1>1, FreeType DEF RequestsOK
  <2>5. \A s \in Requests : ~Waiting(s)'
    BY <2>3, <2>4, FreeType DEF OneWaits, Waiting
  <2>6. \A s \in Requests : request'[s].stage # "free" => request'[s] = request[s]
    BY <2>4, FreeType
  <2>7. LogOK' /\ RequestsOK' /\ StagesOK' /\ OneWaits' /\ WaitingHold' /\ SentIsCopied'
    BY <1>1, <2>4, <2>5, <2>6
    DEF LogOK, RequestsOK, StagesOK, OneWaits, WaitingHold, SentIsCopied, At
  <2>8. AheadWasUndone'
    BY <1>1, <1>3, <2>1, <2>3, <2>5 DEF AheadWasUndone, Promised, At
  <2>9. UploadsAreComplete'
    <3>. SUFFICES ASSUME NEW i \in Steady, i <= request[r].next PROVE copies[log[i]] > 0
      BY <1>1, <2>1 DEF UploadsAreComplete, Steady
    <3>1. CASE i <= cursor  BY <3>1 DEF UploadsAreComplete, Steady
    <3>2. CASE cursor < i  BY <1>3, <2>3, <3>2 DEF WaitingHold, Holds, At
    <3>. QED  BY <3>1, <3>2, Facts DEF Steady, Ids
  <2>. QED  BY <2>2, <2>7, <2>8, <2>9
<1>. QED  BY <1>1, <1>2, <1>3

LEMMA RestartIInv ==
    ASSUME IInv, Restart
    PROVE  IInv'
<1>. USE DEF IInv
<1>1. UNCHANGED <<log, retained, made, undone, cursor, copies>>
  BY DEF Restart, logVars, undoVars
<1>2. ScalarsOK'  BY DEF ScalarsOK, Restart, Fault, undoVars
<1>3. ASSUME NEW r \in Requests
      PROVE  /\ request'[r] \in RequestType
             /\ request'[r].stage \in {"free", "posting"} /\ ~Waiting(r)'
  <2>1. request[r] \in RequestType  BY DEF RequestsOK
  <2>2. CASE At(r, "posting")
    <3>1. request'[r] = [request[r] EXCEPT !.abandoned = TRUE]  BY <2>2 DEF Restart
    <3>. QED  BY <2>1, <2>2, <3>1 DEF RequestType, At, Waiting
  <2>3. CASE ~At(r, "posting")
    <3>1. request'[r] = Free  BY <2>3 DEF Restart
    <3>. QED  BY <3>1, FreeType DEF Waiting
  <2>. QED  BY <2>2, <2>3
<1>4. RequestsOK'  BY <1>3 DEF RequestsOK, Restart
<1>5. LogOK' /\ StagesOK' /\ OneWaits' /\ WaitingHold' /\ SentIsCopied' /\ AheadWasUndone'
  BY <1>1, <1>3
  DEF LogOK, StagesOK, OneWaits, WaitingHold, SentIsCopied, AheadWasUndone, At
<1>6. UploadsAreComplete'  BY <1>1 DEF UploadsAreComplete
<1>. QED  BY <1>2, <1>4, <1>5, <1>6

-----------------------------------------------------------------------------
(* The log. *)

\* The requests do not move; the log keeps the steady ids it retains.
LEMMA LogStep ==
    ASSUME IInv, LogOK', ScalarsOK', UNCHANGED <<request, cursor, copies>>,
           undone \subseteq undone',
           \A i \in Steady' : i \in Steady /\ log'[i] = log[i],
           \A i \in Ids : Len(log') < i /\ i <= Len(log) => i \in undone'
    PROVE  IInv'
<1>. USE DEF IInv
<1>1. RequestsOK' /\ StagesOK' /\ OneWaits' /\ SentIsCopied'
  BY DEF RequestsOK, StagesOK, OneWaits, SentIsCopied, At, Waiting
<1>2. Len(log) \in Nat /\ Len(log') \in Nat  BY DEF LogOK
<1>3. AheadWasUndone'
  BY <1>2 DEF AheadWasUndone, Waiting, Ids
<1>4. WaitingHold'
  BY DEF WaitingHold, Waiting, Holds
<1>5. UploadsAreComplete'
  BY DEF UploadsAreComplete, Steady
<1>. QED  BY <1>1, <1>3, <1>4, <1>5

LEMMA CleanIInv ==
    ASSUME IInv, Clean
    PROVE  IInv'
<1>1. retained' \subseteq retained /\ UNCHANGED <<log, made, clientVars, undoVars>>
  BY DEF Clean, Trim
<1>2. LogOK' /\ ScalarsOK'
  BY <1>1 DEF IInv, LogOK, ScalarsOK, clientVars, undoVars
<1>3. Len(log) \in Nat  BY DEF IInv, LogOK
<1>. QED  BY <1>1, <1>2, <1>3, LogStep DEF Steady, clientVars, undoVars, Ids

LEMMA TakeBackIInv ==
    ASSUME IInv, TakeBack
    PROVE  IInv'
<1>1. PICK n \in 0 .. Len(log) :
         /\ TakenBackTo(n)
         /\ undone' = undone \cup ((n + 1) .. Len(log)) \cup (retained' \ retained)
  BY DEF TakeBack
<1>2. /\ log \in Seq(Records) /\ Len(log) \in Nat /\ Len(log) <= made
      /\ made \in 0 .. MaxRecords /\ retained \subseteq 1 .. Len(log)
      /\ undone \subseteq Ids
  BY DEF IInv, LogOK, ScalarsOK
<1>3. /\ log' = SubSeq(log, 1, n) /\ retained' \subseteq 1 .. n /\ made' = made
      /\ UNCHANGED clientVars
  BY <1>1 DEF TakenBackTo, Windows, TakeBack
<1>4. /\ log' \in Seq(Records) /\ Len(log') = n /\ n \in Nat /\ n <= Len(log)
      /\ \A i \in 1 .. n : log'[i] = log[i]
  BY <1>1, <1>2, <1>3
<1>5. LogOK'  BY <1>2, <1>3, <1>4 DEF LogOK
<1>6. undone' \subseteq Ids
  <2>1. (n + 1) .. Len(log) \subseteq Ids  BY <1>2, <1>4 DEF Ids
  <2>2. retained' \subseteq Ids  BY <1>2, <1>3, <1>4 DEF Ids
  <2>. QED  BY <1>1, <1>2, <2>1, <2>2
<1>7. ScalarsOK'
  BY <1>3, <1>6 DEF IInv, ScalarsOK, TakeBack, clientVars
<1>8. \A i \in Steady' : i \in Steady /\ log'[i] = log[i]
  BY <1>1, <1>3, <1>4 DEF Steady
<1>9. \A i \in Ids : Len(log') < i /\ i <= Len(log) => i \in undone'
  BY <1>1, <1>2, <1>4 DEF Ids
<1>. QED  BY <1>1, <1>3, <1>5, <1>7, <1>8, <1>9, LogStep DEF clientVars

LEMMA GrowIInv ==
    ASSUME IInv, Grow
    PROVE  IInv'
<1>. USE DEF IInv
<1>. DEFINE new == Len(log) + 1
<1>1. /\ made' = made + 1 /\ log' = Append(log, made + 1)
      /\ retained' = retained \cup {new} /\ made < MaxRecords
      /\ UNCHANGED <<clientVars, undoVars>>
  BY DEF Grow, Record
<1>2. /\ log \in Seq(Records) /\ Len(log) \in Nat /\ Len(log) <= made
      /\ made \in 0 .. MaxRecords /\ retained \subseteq 1 .. Len(log)
      /\ cursor \in 0 .. MaxRecords
  BY DEF LogOK, ScalarsOK
<1>3. /\ log' \in Seq(Records) /\ Len(log') = new /\ new \in Ids
      /\ \A i \in 1 .. Len(log) : log'[i] = log[i]
  BY <1>1, <1>2 DEF Records, Ids
<1>. HIDE DEF new
<1>4. new \in Nat /\ new = Len(log) + 1  BY <1>2 DEF new
<1>5. UNCHANGED <<request, cursor, copies, undone, setup, faults, undos>>
  BY <1>1 DEF clientVars, undoVars
<1>6. RequestsOK' /\ StagesOK' /\ OneWaits' /\ SentIsCopied' /\ ScalarsOK'
  BY <1>5 DEF RequestsOK, StagesOK, OneWaits, SentIsCopied, ScalarsOK, At, Waiting
<1>7. LogOK'
  <2>1. Len(log') <= made' /\ made' \in 0 .. MaxRecords  BY <1>1, <1>2, <1>3, <1>4
  <2>2. retained' \subseteq 1 .. Len(log')
    <3>. SUFFICES ASSUME NEW i \in retained' PROVE i \in 1 .. Len(log')  OBVIOUS
    <3>1. i \in 1 .. Len(log) \/ i = new  BY <1>1, <1>2
    <3>. QED  BY <1>2, <1>3, <1>4, <3>1
  <2>. QED  BY <1>3, <2>1, <2>2 DEF LogOK
<1>8. AheadWasUndone'
  BY <1>2, <1>3, <1>4, <1>5 DEF AheadWasUndone, Waiting, Ids
<1>9. new \notin undone =>
         /\ cursor < new
         /\ \A r \in Requests : Waiting(r) => ~Promised(request[r], new)
  BY <1>2, <1>3, <1>4 DEF AheadWasUndone, Ids
<1>10. ASSUME NEW i \in Steady'
       PROVE  i \in Nat /\ \/ i \in Steady /\ log'[i] = log[i]
                           \/ i = new /\ new \notin undone
  BY <1>1, <1>2, <1>3, <1>4, <1>5 DEF Steady
<1>11. WaitingHold'
  <2>. SUFFICES ASSUME NEW r \in Requests, Waiting(r) PROVE Holds(request[r])'
    BY <1>5 DEF WaitingHold, Waiting
  <2>. PICK q : q = request[r]  OBVIOUS
  <2>1. Holds(q) /\ q \in RequestType /\ (q.stage = "selected" => q.first \in Rows)
    BY DEF WaitingHold, RequestsOK, StagesOK, At
  <2>2. new \notin undone => ~Promised(q, new)  BY <1>9
  <2>3. Holds(q)'
    <3>1. q.stage = "arrived" => q.since = cursor'  BY <1>5, <2>1 DEF Holds
    <3>2. ASSUME q.stage = "selected"
          PROVE  /\ cursor' < q.first[1]
                 /\ \A i \in Steady' : cursor' < i => q.first[1] <= i
                 /\ \A i \in Steady' : i = q.first[1] => log'[i] = q.first[2]
      <4>1. q.first[1] \in Nat  BY <2>1, <3>2 DEF Rows, Ids
      <4>2. new \notin undone => q.first[1] < new
        BY <1>4, <2>2, <3>2, <4>1 DEF Promised
      <4>. QED  BY <1>4, <1>5, <1>10, <2>1, <3>2, <4>1, <4>2 DEF Holds
    <3>3. ASSUME q.stage \in {"posting", "sent"}, NEW i \in Steady', cursor' < i,
                 Promised(q, i)
          PROVE  <<i, log'[i]>> \in q.batch
      BY <1>5, <1>10, <2>1, <2>2, <3>3 DEF Holds
    <3>4. ASSUME q.stage = "ok", NEW i \in Steady', cursor' < i, i <= q.next
          PROVE  copies'[log'[i]] > 0
      <4>1. Promised(q, i)  BY <3>4 DEF Promised
      <4>. QED  BY <1>5, <1>10, <2>1, <2>2, <3>4, <4>1 DEF Holds
    <3>5. \A i : Promised(q, i)' <=> Promised(q, i)  BY DEF Promised
    <3>. QED  BY <3>1, <3>2, <3>3, <3>4, <3>5 DEF Holds
  <2>. QED  BY <1>5, <2>3 DEF Holds, Promised
<1>12. UploadsAreComplete'
  <2>. SUFFICES ASSUME NEW i \in Steady', i <= cursor' PROVE copies'[log'[i]] > 0
    BY DEF UploadsAreComplete, Steady
  <2>1. i \in Steady /\ log'[i] = log[i]
    BY <1>2, <1>4, <1>5, <1>9, <1>10
  <2>. QED  BY <1>5, <2>1 DEF UploadsAreComplete, Steady
<1>. QED  BY <1>6, <1>7, <1>8, <1>11, <1>12

-----------------------------------------------------------------------------
(* The theorems. *)

LEMMA InitIInv == Init => IInv
<1>. SUFFICES ASSUME Init PROVE IInv  OBVIOUS
<1>. USE DEF Init, InitLog
<1>1. LogOK  BY DEF LogOK
<1>2. ScalarsOK  BY DEF ScalarsOK
<1>3. \A r \in Requests : request[r] = Free  OBVIOUS
<1>4. RequestsOK /\ StagesOK /\ OneWaits /\ WaitingHold /\ SentIsCopied
  BY <1>3, FreeType DEF RequestsOK, StagesOK, OneWaits, WaitingHold, SentIsCopied, At, Waiting
<1>5. AheadWasUndone  BY <1>3, FreeType DEF AheadWasUndone, Waiting, Ids
<1>6. UploadsAreComplete  BY DEF UploadsAreComplete
<1>. QED  BY <1>1, <1>2, <1>4, <1>5, <1>6 DEF IInv

LEMMA StepIInv == IInv /\ [Next]_vars => IInv'
<1>. SUFFICES ASSUME IInv, [Next]_vars PROVE IInv'  OBVIOUS
<1>1. ASSUME NEW r \in Requests, Handle(r)  PROVE IInv'
  BY <1>1, FailIInv, NothingNewIInv, SelectIInv, FetchIInv, PostIInv, SucceedIInv,
     ReplyIInv DEF Handle
<1>2. ASSUME NEW r \in Requests, NotResolved(r) \/ PostFails(r) \/ Ask(r) \/ GiveUp(r)
      PROVE  IInv'
  BY <1>2, FailIInv, AskIInv, GiveUpIInv
<1>3. CASE Restart  BY <1>3, RestartIInv
<1>4. CASE Grow  BY <1>4, GrowIInv
<1>5. CASE Clean  BY <1>5, CleanIInv
<1>6. CASE TakeBack  BY <1>6, TakeBackIInv
<1>7. CASE UNCHANGED vars
  <2>1. UNCHANGED <<log, retained, made, setup, cursor, request, copies, faults, undos, undone>>
    BY <1>7 DEF vars, logVars, clientVars, undoVars
  <2>2. LogOK' /\ ScalarsOK'  BY <2>1 DEF IInv, LogOK, ScalarsOK
  <2>3. Len(log) \in Nat  BY DEF IInv, LogOK
  <2>. QED  BY <2>1, <2>2, <2>3, LogStep DEF Steady, Ids
<1>. QED  BY <1>1, <1>2, <1>3, <1>4, <1>5, <1>6, <1>7 DEF Next

LEMMA AlwaysIInv == Spec => []IInv
BY InitIInv, StepIInv, PTL DEF Spec

(* The type invariant of the log, the requests and the client. *)
THEOREM TypeCorrect == Spec => []TypeOK
<1>1. IInv => TypeOK
  <2>. SUFFICES ASSUME IInv PROVE TypeOK  OBVIOUS
  <2>1. request \in [Requests -> [stage: Stages, since: 0 .. MaxRecords, limit: Nat,
                                  first: Rows \cup {<<0, 0>>}, batch: SUBSET Rows,
                                  next: 0 .. MaxRecords, abandoned: BOOLEAN]]
    BY DEF IInv, RequestsOK, RequestType
  <2>2. retained \subseteq Ids
    BY DEF IInv, LogOK, Ids
  <2>. QED  BY <2>1, <2>2 DEF IInv, LogOK, ScalarsOK, TypeOK
<1>. QED  BY <1>1, AlwaysIInv, PTL

(* Every stored record behind the client's cursor was sent to the webhook, *)
(* unless a rollback took back what was visible under its id.              *)
THEOREM UploadsComplete == Spec => []UploadsAreComplete
<1>1. IInv => UploadsAreComplete  BY DEF IInv
<1>. QED  BY <1>1, AlwaysIInv, PTL

-----------------------------------------------------------------------------
(* The price of a duplicate. *)

\* The abandoned requests that may still post: each was paid for by a fault.
Late == {r \in Requests : /\ request[r].abandoned
                          /\ request[r].stage \in {"arrived", "selected", "posting"}}

\* The rows a request has read, and posts or has posted.
HeldRows(q) ==
    {row \in Rows : \/ q.stage = "selected" /\ row = q.first
                    \/ q.stage \in {"posting", "sent"} /\ row \in q.batch}

\* A record is logged under one id, now and whenever a request read it.
OneId ==
    /\ \A i, j \in 1 .. Len(log) : log[i] = log[j] => i = j
    /\ \A i \in 1 .. Len(log) : log[i] <= made
    /\ \A r \in Requests : \A row \in HeldRows(request[r]) :
          row[2] <= made /\ \A i \in 1 .. Len(log) : log[i] = row[2] => i = row[1]
    /\ \A rec \in Records : made < rec => copies[rec] = 0

\* The faults pay for every copy but one, those still to come included.
PaidFor ==
    /\ IsFiniteSet(Late) /\ Cardinality(Late) <= faults
    /\ \A rec \in Records : copies[rec] + Cardinality(Late) <= 1 + faults

\* The one copy that no fault pays for was sent.
Spent(rec) == copies[rec] + Cardinality(Late) > faults

\* The id is behind the cursor of the client, or of the answer it waits for.
Behind(i) ==
    \/ i <= cursor
    \/ \E r \in Requests : /\ Waiting(r) /\ request[r].stage \in {"sent", "ok"}
                           /\ Promised(request[r], i)

\* That record is behind the client, and the request it waits for will not post it.
SpentIsBehind ==
    \A rec \in Records : Spent(rec) =>
        /\ \A i \in 1 .. Len(log) : log[i] = rec => Behind(i)
        /\ \A r \in Requests : Waiting(r) =>
              /\ At(r, "selected") => request[r].first[2] # rec
              /\ At(r, "posting") => \A row \in request[r].batch : row[2] # rec

\* No answer takes the client back.
GoesOn ==
    \A r \in Requests : Waiting(r) =>
        /\ At(r, "ok") => cursor <= request[r].next
        /\ At(r, "posting") \/ At(r, "sent") =>
              \E row \in request[r].batch : cursor < row[1]

CopiesInv == OneId /\ PaidFor /\ SpentIsBehind /\ GoesOn

\* Counting the late requests.
LEMMA FewerLate ==
    ASSUME NEW S, NEW T, IsFiniteSet(T), S \subseteq T
    PROVE  /\ IsFiniteSet(S) /\ Cardinality(S) \in Nat /\ Cardinality(T) \in Nat
           /\ Cardinality(S) <= Cardinality(T)
BY FS_Subset, FS_CardinalityType

LEMMA OneMoreLate ==
    ASSUME NEW S, NEW T, NEW x, IsFiniteSet(T), S \subseteq T \cup {x}
    PROVE  /\ IsFiniteSet(S) /\ Cardinality(S) \in Nat /\ Cardinality(T) \in Nat
           /\ Cardinality(S) <= Cardinality(T) + 1
<1>. DEFINE U == T \cup {x}
<1>1. Cardinality(T) \in Nat  BY FS_CardinalityType
<1>2. IsFiniteSet(U) /\ Cardinality(U) = IF x \in T THEN Cardinality(T) ELSE Cardinality(T) + 1
  BY FS_AddElement
<1>3. S \subseteq U  OBVIOUS
<1>. HIDE DEF U
<1>4. /\ IsFiniteSet(S) /\ Cardinality(S) \in Nat /\ Cardinality(S) <= Cardinality(U)
  BY <1>2, <1>3, FewerLate
<1>. QED  BY <1>1, <1>2, <1>4

LEMMA PriceTypes ==
    ASSUME IInv, CopiesInv
    PROVE  /\ faults \in Nat /\ IsFiniteSet(Late) /\ Cardinality(Late) \in Nat
           /\ \A rec \in Records : copies[rec] \in Nat
BY FS_CardinalityType DEF IInv, ScalarsOK, CopiesInv, PaidFor

\* A step that leaves no more late requests behind costs nothing.
LEMMA QuietPrice ==
    ASSUME IInv, CopiesInv, Late' \subseteq Late, copies' = copies, faults' = faults
    PROVE  PaidFor' /\ \A rec \in Records : Spent(rec)' => Spent(rec)
<1>1. /\ IsFiniteSet(Late') /\ Cardinality(Late') \in Nat
      /\ Cardinality(Late') <= Cardinality(Late)
  BY PriceTypes, FewerLate
<1>2. \A rec \in Records : copies[rec] + Cardinality(Late') <= copies[rec] + Cardinality(Late)
  BY <1>1, PriceTypes
<1>3. /\ Cardinality(Late) <= faults
      /\ \A rec \in Records : copies[rec] + Cardinality(Late) <= 1 + faults
  BY DEF CopiesInv, PaidFor
<1>. QED  BY <1>1, <1>2, <1>3, PriceTypes DEF PaidFor, Spent

\* A fault that leaves no more of them pays for the copy that was spent.
LEMMA FaultPrice ==
    ASSUME IInv, CopiesInv, Late' \subseteq Late, copies' = copies, faults' = faults + 1
    PROVE  PaidFor' /\ \A rec \in Records : ~Spent(rec)'
<1>1. /\ IsFiniteSet(Late') /\ Cardinality(Late') \in Nat
      /\ Cardinality(Late') <= Cardinality(Late)
  BY PriceTypes, FewerLate
<1>2. \A rec \in Records : copies[rec] + Cardinality(Late') <= copies[rec] + Cardinality(Late)
  BY <1>1, PriceTypes
<1>3. /\ Cardinality(Late) <= faults
      /\ \A rec \in Records : copies[rec] + Cardinality(Late) <= 1 + faults
  BY DEF CopiesInv, PaidFor
<1>. QED  BY <1>1, <1>2, <1>3, PriceTypes DEF PaidFor, Spent

\* A fault pays for one request more that is late.
LEMMA LatePrice ==
    ASSUME IInv, CopiesInv, NEW r, Late' \subseteq Late \cup {r}, copies' = copies,
           faults' = faults + 1
    PROVE  PaidFor' /\ \A rec \in Records : Spent(rec)' => Spent(rec)
<1>1. /\ IsFiniteSet(Late') /\ Cardinality(Late') \in Nat
      /\ Cardinality(Late') <= Cardinality(Late) + 1
  BY PriceTypes, OneMoreLate
<1>2. \A rec \in Records :
         copies[rec] + Cardinality(Late') <= copies[rec] + Cardinality(Late) + 1
  BY <1>1, PriceTypes
<1>3. /\ Cardinality(Late) <= faults
      /\ \A rec \in Records : copies[rec] + Cardinality(Late) <= 1 + faults
  BY DEF CopiesInv, PaidFor
<1>. QED  BY <1>1, <1>2, <1>3, PriceTypes DEF PaidFor, Spent

Logged == {<<i, log[i]>> : i \in 1 .. Len(log)}

\* What a record needs of a request that becomes `q' once its free copy is spent.
Kept(r, q, rec) ==
    /\ Waiting(r) /\ request[r].stage \in {"sent", "ok"} =>
          /\ q.stage \in {"sent", "ok"} /\ ~q.abandoned
          /\ \A i \in Nat : Promised(request[r], i) => Promised(q, i)
    /\ q.stage # "free" /\ ~q.abandoned =>
          /\ q.stage = "selected" => q.first[2] # rec
          /\ q.stage = "posting" => \A row \in q.batch : row[2] # rec

\* A request that becomes `q' has just spent it.
JustSpent(q, rec) ==
    /\ q.stage = "sent" /\ ~q.abandoned
    /\ \A i \in 1 .. Len(log) : log[i] = rec => Promised(q, i)

LEMMA RequestCopies ==
    ASSUME IInv, IInv', CopiesInv, NEW r \in Requests, NEW q,
           request' = [request EXCEPT ![r] = q],
           UNCHANGED <<log, made, cursor>>, PaidFor',
           HeldRows(q) \subseteq HeldRows(request[r]) \cup Logged,
           \A rec \in Records : made < rec => copies'[rec] = copies[rec],
           \A rec \in Records :
              Spent(rec)' => JustSpent(q, rec) \/ (Spent(rec) /\ Kept(r, q, rec)),
           q.stage # "free" /\ ~q.abandoned =>
              /\ q.stage = "ok" => cursor <= q.next
              /\ q.stage \in {"posting", "sent"} => \E row \in q.batch : cursor < row[1]
    PROVE  CopiesInv'
<1>. USE DEF CopiesInv
<1>1. request'[r] = q /\ \A s \in Requests : s # r => request'[s] = request[s]
  BY DEF IInv, RequestsOK
<1>2. OneId'
  <2>1. ASSUME NEW s \in Requests, NEW row \in HeldRows(request'[s])
        PROVE  row[2] <= made /\ \A i \in 1 .. Len(log) : log[i] = row[2] => i = row[1]
    <3>1. CASE \E t \in Requests : row \in HeldRows(request[t])  BY <3>1 DEF OneId
    <3>2. CASE row \in Logged  BY <3>2 DEF OneId, Logged
    <3>. QED  BY <1>1, <2>1, <3>1, <3>2
  <2>2. \A s : HeldRows(request[s])' = HeldRows(request'[s])  BY DEF HeldRows
  <2>. QED  BY <2>1, <2>2 DEF OneId
<1>3. \A s \in Requests : s # r => (Waiting(s)' <=> Waiting(s))  BY <1>1 DEF Waiting
<1>4. \A s \in Requests : \A i : Promised(request[s], i)' <=> Promised(request'[s], i)
  BY DEF Promised
<1>5. SpentIsBehind'
  <2>. SUFFICES ASSUME NEW rec \in Records, Spent(rec)'
                PROVE  /\ \A i \in 1 .. Len(log) : log[i] = rec => Behind(i)'
                       /\ \A s \in Requests : Waiting(s)' =>
                             /\ At(s, "selected")' => request'[s].first[2] # rec
                             /\ At(s, "posting")' => \A row \in request'[s].batch : row[2] # rec
    BY DEF SpentIsBehind
  <2>1. CASE JustSpent(q, rec)
    <3>1. Waiting(r)' /\ request'[r].stage = "sent"  BY <1>1, <2>1 DEF Waiting, JustSpent
    <3>2. \A s \in Requests : Waiting(s)' => s = r  BY <3>1 DEF IInv, OneWaits
    <3>3. \A i \in 1 .. Len(log) : log[i] = rec => Behind(i)'
      BY <1>1, <1>4, <2>1, <3>1 DEF JustSpent, Behind
    <3>. QED  BY <3>1, <3>2, <3>3 DEF At
  <2>2. CASE Spent(rec) /\ Kept(r, q, rec)
    <3>1. ASSUME NEW i \in 1 .. Len(log), log[i] = rec PROVE Behind(i)'
      <4>1. Behind(i)  BY <2>2, <3>1 DEF SpentIsBehind
      <4>2. CASE i <= cursor  BY <4>2 DEF Behind
      <4>3. ASSUME NEW s \in Requests, Waiting(s), request[s].stage \in {"sent", "ok"},
                   Promised(request[s], i)
            PROVE  Behind(i)'
        <5>1. CASE s = r
          <6>1. /\ q.stage \in {"sent", "ok"} /\ ~q.abandoned /\ Promised(q, i)
            BY <2>2, <4>3, <5>1 DEF Kept
          <6>. QED  BY <1>1, <1>4, <6>1 DEF Behind, Waiting
        <5>2. CASE s # r  BY <1>1, <1>3, <1>4, <4>3, <5>2 DEF Behind
        <5>. QED  BY <5>1, <5>2
      <4>. QED  BY <4>1, <4>2, <4>3 DEF Behind
    <3>2. ASSUME NEW s \in Requests, Waiting(s)'
          PROVE  /\ At(s, "selected")' => request'[s].first[2] # rec
                 /\ At(s, "posting")' => \A row \in request'[s].batch : row[2] # rec
      <4>1. CASE s = r  BY <1>1, <2>2, <3>2, <4>1 DEF Kept, Waiting, At
      <4>2. CASE s # r  BY <1>1, <1>3, <2>2, <3>2, <4>2 DEF SpentIsBehind, At
      <4>. QED  BY <4>1, <4>2
    <3>. QED  BY <3>1, <3>2
  <2>. QED  BY <2>1, <2>2
<1>6. GoesOn'
  <2>. SUFFICES ASSUME NEW s \in Requests, Waiting(s)'
                PROVE  /\ At(s, "ok")' => cursor <= request'[s].next
                       /\ At(s, "posting")' \/ At(s, "sent")' =>
                             \E row \in request'[s].batch : cursor < row[1]
    BY DEF GoesOn
  <2>1. CASE s = r  BY <1>1, <2>1 DEF Waiting, At
  <2>2. CASE s # r  BY <1>1, <1>3, <2>2 DEF GoesOn, At
  <2>. QED  BY <2>1, <2>2
<1>. QED  BY <1>2, <1>5, <1>6

\* The late requests when only `r' moves.
LEMMA LateAfter ==
    ASSUME IInv, NEW r \in Requests, NEW q, request' = [request EXCEPT ![r] = q]
    PROVE  /\ Late' \subseteq Late \cup {r}
           /\ ~(q.abandoned /\ q.stage \in {"arrived", "selected", "posting"}) =>
                 Late' = Late \ {r}
           /\ q.abandoned /\ q.stage \in {"arrived", "selected", "posting"} =>
                 Late' = Late \cup {r}
<1>1. request'[r] = q /\ \A s \in Requests : s # r => request'[s] = request[s]
  BY DEF IInv, RequestsOK
<1>. QED  BY <1>1 DEF Late

LEMMA NoRows ==
    ASSUME NEW q, q.stage \notin {"selected", "posting", "sent"}
    PROVE  HeldRows(q) = {}
BY DEF HeldRows

LEMMA FreedCopies ==
    ASSUME IInv, IInv', CopiesInv, NEW r \in Requests,
           request' = [request EXCEPT ![r] = Free],
           UNCHANGED <<log, made, cursor, copies>>,
           \/ faults' = faults /\ ~(Waiting(r) /\ request[r].stage \in {"sent", "ok"})
           \/ faults' = faults + 1
    PROVE  CopiesInv'
<1>1. Free.stage = "free" /\ HeldRows(Free) = {}  BY FreeType, NoRows
<1>2. Late' \subseteq Late  BY <1>1, LateAfter
<1>3. CASE faults' = faults /\ ~(Waiting(r) /\ request[r].stage \in {"sent", "ok"})
  <2>1. PaidFor' /\ \A rec \in Records : Spent(rec)' => Spent(rec)
    BY <1>2, <1>3, QuietPrice
  <2>2. \A rec \in Records : Kept(r, Free, rec)  BY <1>1, <1>3 DEF Kept
  <2>. QED  BY <1>1, <2>1, <2>2, RequestCopies
<1>4. CASE faults' = faults + 1
  <2>1. PaidFor' /\ \A rec \in Records : ~Spent(rec)'  BY <1>2, <1>4, FaultPrice
  <2>. QED  BY <1>1, <2>1, RequestCopies
<1>. QED  BY <1>3, <1>4

\* An answer: nothing was read, nothing is posted.
LEMMA AnswerCopies ==
    ASSUME IInv, IInv', CopiesInv, NEW r \in Requests, request[r].stage # "free",
           NEW stage \in {"ok", "error"}, NEW next \in 0 .. MaxRecords,
           Answered(r, stage, next), UNCHANGED <<log, made, cursor, copies>>,
           \/ faults' = faults + 1 /\ stage = "error"
           \/ /\ faults' = faults
              /\ Waiting(r) => request[r].stage # "ok"
              /\ Waiting(r) /\ request[r].stage = "sent" =>
                    stage = "ok" /\ \A i \in Nat : Promised(request[r], i) => i <= next
           ,
           stage = "ok" /\ Waiting(r) => cursor <= next
    PROVE  CopiesInv'
<1>. DEFINE q == [Free EXCEPT !.stage = stage, !.next = next]
<1>1. request[r] \in RequestType /\ q \in RequestType  BY Facts, AnswerType
<1>2. q.stage = stage /\ q.next = next /\ q.abandoned = FALSE  BY FreeType, <1>1 DEF Free
<1>3. CASE request[r].abandoned
  <2>1. request' = [request EXCEPT ![r] = Free]  BY <1>3 DEF Answered, IInv, RequestsOK
  <2>2. ~Waiting(r)  BY <1>3 DEF Waiting
  <2>. QED  BY <2>1, <2>2, FreedCopies
<1>4. CASE ~request[r].abandoned
  <2>1. request' = [request EXCEPT ![r] = q]  BY <1>4 DEF Answered, IInv, RequestsOK
  <2>2. Waiting(r)  BY <1>4 DEF Waiting
  <2>. HIDE DEF q
  <2>3. Late' \subseteq Late /\ HeldRows(q) = {}  BY <1>2, <2>1, LateAfter, NoRows
  <2>4. q.stage \notin {"posting", "sent"} /\ (q.stage = "ok" => cursor <= q.next)
    BY <1>2, <2>2
  <2>5. CASE faults' = faults + 1
    <3>1. PaidFor' /\ \A rec \in Records : ~Spent(rec)'  BY <2>3, <2>5, FaultPrice
    <3>. QED  BY <2>1, <2>3, <2>4, <3>1, RequestCopies
  <2>6. CASE faults' = faults
    <3>1. PaidFor' /\ \A rec \in Records : Spent(rec)' => Spent(rec)
      BY <2>3, <2>6, QuietPrice
    <3>2. faults' # faults + 1  BY <2>6, PriceTypes
    <3>3. ASSUME NEW rec PROVE Kept(r, q, rec)
      <4>1. request[r].stage \in {"sent", "ok"} =>
               stage = "ok" /\ \A i \in Nat : Promised(request[r], i) => i <= next
        BY <2>2, <3>2
      <4>2. stage = "ok" => \A i : i <= next => Promised(q, i)  BY <1>2 DEF Promised
      <4>. QED  BY <1>2, <4>1, <4>2 DEF Kept
    <3>. QED  BY <2>1, <2>3, <2>4, <3>1, <3>3, RequestCopies
  <2>. QED  BY <2>5, <2>6
<1>. QED  BY <1>1, <1>3, <1>4 DEF RequestType

LEMMA FailCopies ==
    ASSUME IInv, IInv', CopiesInv, NEW r \in Requests, Refuse(r) \/ NotResolved(r) \/ PostFails(r)
    PROVE  CopiesInv'
<1>1. /\ request[r].stage # "free" /\ Answered(r, "error", 0)
      /\ UNCHANGED <<log, made, cursor, copies>>
  BY DEF Refuse, NotResolved, PostFails, At, logVars, undoVars
<1>2. \/ faults' = faults + 1
      \/ faults' = faults /\ request[r].stage = "arrived"
  BY DEF Refuse, NotResolved, PostFails, Fault, At
<1>3. 0 \in 0 .. MaxRecords  OBVIOUS
<1>. QED  BY <1>1, <1>2, <1>3, AnswerCopies

LEMMA NothingNewCopies ==
    ASSUME IInv, IInv', CopiesInv, NEW r \in Requests, NothingNew(r)
    PROVE  CopiesInv'
<1>1. /\ At(r, "arrived") /\ Answered(r, "ok", request[r].since)
      /\ UNCHANGED <<log, made, cursor, copies>> /\ faults' = faults
  BY DEF NothingNew, logVars, undoVars
<1>2. request[r].since \in 0 .. MaxRecords /\ cursor \in 0 .. MaxRecords
  BY Facts DEF RequestType
<1>3. Waiting(r) => request[r].since = cursor
  BY <1>1 DEF IInv, WaitingHold, Holds, At
<1>4. Waiting(r) => cursor <= request[r].since  BY <1>2, <1>3
<1>. QED  BY <1>1, <1>2, <1>4, AnswerCopies DEF At

LEMMA SucceedCopies ==
    ASSUME IInv, IInv', CopiesInv, NEW r \in Requests, Succeed(r)
    PROVE  CopiesInv'
<1>1. PICK last \in request[r].batch : /\ \A row \in request[r].batch : row[1] <= last[1]
                                       /\ Answered(r, "ok", last[1])
  BY DEF Succeed
<1>2. At(r, "sent") /\ UNCHANGED <<log, made, cursor, copies>> /\ faults' = faults
  BY DEF Succeed, logVars, undoVars
<1>3. request[r].batch \subseteq Rows  BY Facts DEF RequestType
<1>4. \A row \in request[r].batch : row[1] \in Nat  BY <1>3 DEF Rows, Ids
<1>5. last[1] \in 0 .. MaxRecords  BY <1>3 DEF Rows, Ids
<1>6. ASSUME Waiting(r) PROVE cursor <= last[1]
  <2>1. PICK row \in request[r].batch : cursor < row[1]
    BY <1>2, <1>6 DEF CopiesInv, GoesOn
  <2>2. row[1] <= last[1] /\ row[1] \in Nat /\ last[1] \in Nat /\ cursor \in Nat
    BY <1>1, <1>4, <2>1, Facts
  <2>. QED  BY <2>1, <2>2
<1>7. ASSUME NEW i, Promised(request[r], i), i \in Nat PROVE i <= last[1]
  <2>1. PICK row \in request[r].batch : i <= row[1]
    BY <1>2, <1>7 DEF Promised, At
  <2>. QED  BY <1>1, <1>4, <1>7, <2>1
<1>. QED  BY <1>1, <1>2, <1>5, <1>6, <1>7, AnswerCopies DEF At

\* A logged row behind nobody's promise is not spent.
LEMMA AheadIsUnspent ==
    ASSUME IInv, CopiesInv, NEW r \in Requests, Waiting(r),
           request[r].stage \notin {"sent", "ok"},
           NEW i \in 1 .. Len(log), cursor < i, log[i] \in Records
    PROVE  ~Spent(log[i])
<1>. SUFFICES ASSUME Spent(log[i]) PROVE FALSE  OBVIOUS
<1>1. Behind(i)  BY DEF CopiesInv, SpentIsBehind
<1>2. \A s \in Requests : Waiting(s) => s = r  BY DEF IInv, OneWaits
<1>3. i <= cursor  BY <1>1, <1>2 DEF Behind
<1>. QED  BY <1>3, Facts

LEMMA SelectCopies ==
    ASSUME IInv, IInv', CopiesInv, NEW r \in Requests, Select(r)
    PROVE  CopiesInv'
<1>1. PICK first \in Newer(request[r].since) :
         request' = [request EXCEPT ![r].stage = "selected", ![r].first = <<first, log[first]>>]
  BY DEF Select
<1>2. PICK q : q = [request[r] EXCEPT !.stage = "selected", !.first = <<first, log[first]>>]
  OBVIOUS
<1>3. /\ At(r, "arrived") /\ UNCHANGED <<log, made, cursor, copies, faults>>
      /\ request' = [request EXCEPT ![r] = q]
  BY <1>1, <1>2 DEF Select, logVars, undoVars
<1>4. /\ first \in retained /\ request[r].since < first /\ request[r] \in RequestType
      /\ log[first] \in Records
  BY <1>1, Facts DEF Newer
<1>5. /\ q.stage = "selected" /\ q.first = <<first, log[first]>>
      /\ q.abandoned = request[r].abandoned
  BY <1>2, <1>4 DEF RequestType
<1>6. first \in 1 .. Len(log)  BY <1>4 DEF IInv, LogOK
<1>7. HeldRows(q) \subseteq Logged  BY <1>5, <1>6 DEF HeldRows, Logged
<1>8. Late' \subseteq Late  BY <1>3, <1>5, LateAfter DEF Late, At
<1>9. PaidFor' /\ \A rec \in Records : Spent(rec)' => Spent(rec)
  BY <1>3, <1>8, QuietPrice
<1>10. ASSUME NEW rec \in Records, Spent(rec) PROVE Kept(r, q, rec)
  <2>1. CASE ~Waiting(r)
    <3>1. q.abandoned  BY <1>3, <1>4, <1>5, <2>1 DEF Waiting, At, RequestType
    <3>. QED  BY <2>1, <3>1 DEF Kept
  <2>2. CASE Waiting(r)
    <3>1. cursor < first  BY <1>3, <1>4, <2>2 DEF IInv, WaitingHold, Holds, At
    <3>2. rec # log[first]
      BY <1>3, <1>4, <1>6, <1>10, <2>2, <3>1, AheadIsUnspent DEF At
    <3>. QED  BY <1>3, <1>5, <3>2 DEF Kept, At
  <2>. QED  BY <2>1, <2>2
<1>. QED  BY <1>3, <1>5, <1>7, <1>9, <1>10, RequestCopies

LEMMA FetchCopies ==
    ASSUME IInv, IInv', CopiesInv, NEW r \in Requests, Fetch(r)
    PROVE  CopiesInv'
<1>1. PICK first : first = request[r].first  OBVIOUS
<1>2. PICK rest \in SUBSET Newer(first[1]) : Batched(r, {first} \cup RowsOf(rest))
  BY <1>1 DEF Fetch
<1>3. PICK rows : rows = {first} \cup RowsOf(rest)  OBVIOUS
<1>4. PICK q : q = [Free EXCEPT !.stage = "posting", !.batch = rows,
                                !.abandoned = request[r].abandoned]
  OBVIOUS
<1>5. /\ At(r, "selected") /\ UNCHANGED <<log, made, cursor, copies, faults>>
      /\ request' = [request EXCEPT ![r] = q]
  BY <1>2, <1>3, <1>4 DEF Fetch, Batched, logVars, undoVars
<1>6. q.stage = "posting" /\ q.batch = rows /\ q.abandoned = request[r].abandoned
  BY <1>4 DEF Free
<1>7. first \in Rows /\ request[r] \in RequestType  BY <1>1, <1>5, Facts DEF IInv, StagesOK
<1>8. \A i \in rest : /\ i \in 1 .. Len(log) /\ first[1] < i /\ log[i] \in Records
  BY <1>2, Facts DEF Newer, IInv, LogOK
<1>9. HeldRows(q) \subseteq HeldRows(request[r]) \cup Logged
  BY <1>1, <1>3, <1>5, <1>6, <1>7, <1>8 DEF HeldRows, Logged, RowsOf, At
<1>10. Late' \subseteq Late  BY <1>5, <1>6, LateAfter DEF Late, At
<1>11. PaidFor' /\ \A rec \in Records : Spent(rec)' => Spent(rec)
  BY <1>5, <1>10, QuietPrice
<1>12. Waiting(r) => cursor < first[1]  BY <1>1, <1>5 DEF IInv, WaitingHold, Holds, At
<1>13. ASSUME NEW rec \in Records, Spent(rec) PROVE Kept(r, q, rec)
  <2>1. CASE ~Waiting(r)
    <3>1. q.abandoned  BY <1>5, <1>6, <1>7, <2>1 DEF Waiting, At, RequestType
    <3>. QED  BY <2>1, <3>1 DEF Kept
  <2>2. CASE Waiting(r)
    <3>1. first[2] # rec
      BY <1>1, <1>5, <1>13, <2>2 DEF CopiesInv, SpentIsBehind
    <3>2. ASSUME NEW i \in rest PROVE log[i] # rec
      <4>1. cursor < i
        <5>1. cursor \in Nat /\ first[1] \in Nat /\ i \in Nat
          BY <1>7, <1>8, Facts DEF Rows, Ids
        <5>. QED  BY <1>8, <1>12, <2>2, <5>1
      <4>. QED  BY <1>5, <1>8, <1>13, <2>2, <4>1, AheadIsUnspent DEF At
    <3>3. \A row \in rows : row[2] # rec
      BY <1>3, <3>1, <3>2 DEF RowsOf
    <3>. QED  BY <1>5, <1>6, <3>3 DEF Kept, At
  <2>. QED  BY <2>1, <2>2
<1>14. q.stage # "free" /\ ~q.abandoned => \E row \in q.batch : cursor < row[1]
  BY <1>3, <1>5, <1>6, <1>12 DEF Waiting, At
<1>. QED  BY <1>5, <1>6, <1>9, <1>11, <1>13, <1>14, RequestCopies

\* The copy of an abandoned request was paid for when it was abandoned; that of
\* the request the client waits for is the one that no fault pays for.
LEMMA PostCopies ==
    ASSUME IInv, IInv', CopiesInv, NEW r \in Requests, Post(r)
    PROVE  CopiesInv'
<1>1. PICK q : q = [request[r] EXCEPT !.stage = "sent"]  OBVIOUS
<1>2. /\ At(r, "posting") /\ UNCHANGED <<log, made, cursor, faults>>
      /\ request' = [request EXCEPT ![r] = q]
      /\ \A rec \in Records :
            copies'[rec] = IF \E row \in request[r].batch : row[2] = rec
                           THEN copies[rec] + 1 ELSE copies[rec]
  BY <1>1 DEF Post, Becomes, logVars, undoVars
<1>3. request[r] \in RequestType  BY Facts
<1>4. /\ q.stage = "sent" /\ q.batch = request[r].batch
      /\ q.abandoned = request[r].abandoned
  BY <1>1, <1>3 DEF RequestType
<1>5. HeldRows(q) = HeldRows(request[r])  BY <1>2, <1>4 DEF HeldRows, At
<1>6. \A row \in request[r].batch :
         row[2] <= made /\ \A i \in 1 .. Len(log) : log[i] = row[2] => i = row[1]
  <2>1. HeldRows(request[r]) = request[r].batch
    BY <1>2, <1>3 DEF HeldRows, At, RequestType
  <2>. QED  BY <2>1 DEF CopiesInv, OneId
<1>7. \A rec \in Records : made < rec => copies'[rec] = copies[rec]
  <2>1. made \in Nat /\ \A rec \in Records : rec \in Nat  BY DEF IInv, LogOK, Records
  <2>. QED  BY <1>2, <1>6, <2>1
<1>8. Late' = Late \ {r}  BY <1>2, <1>4, LateAfter
<1>9. /\ Cardinality(Late) <= faults
      /\ \A rec \in Records : copies[rec] + Cardinality(Late) <= 1 + faults
  BY DEF CopiesInv, PaidFor
<1>10. \A rec \in Records : copies'[rec] <= copies[rec] + 1 /\ copies'[rec] \in Nat
  BY <1>2, PriceTypes
<1>11. CASE ~Waiting(r)
  <2>1. request[r].abandoned /\ r \in Late
    BY <1>2, <1>3, <1>11 DEF Waiting, At, RequestType, Late
  <2>2. /\ IsFiniteSet(Late') /\ Cardinality(Late') = Cardinality(Late) - 1
        /\ Cardinality(Late') \in Nat
    <3>1. IsFiniteSet(Late)  BY PriceTypes
    <3>. QED  BY <1>8, <2>1, <3>1, FS_RemoveElement, FS_CardinalityType
  <2>3. \A rec \in Records :
           copies'[rec] + Cardinality(Late') <= copies[rec] + Cardinality(Late)
    BY <1>10, <2>2, PriceTypes
  <2>4. PaidFor'
    BY <1>2, <1>9, <1>10, <2>2, <2>3, PriceTypes DEF PaidFor
  <2>5. \A rec \in Records : Spent(rec)' => Spent(rec)
    BY <1>2, <1>10, <2>2, <2>3, PriceTypes DEF Spent
  <2>6. \A rec : Kept(r, q, rec)  BY <1>4, <1>11, <2>1 DEF Kept
  <2>. QED  BY <1>2, <1>4, <1>5, <1>7, <2>1, <2>4, <2>5, <2>6, RequestCopies
<1>12. CASE Waiting(r)
  <2>1. r \notin Late  BY <1>12 DEF Waiting, Late
  <2>2. Late' = Late  BY <1>8, <2>1
  <2>3. ASSUME NEW rec \in Records, \E row \in request[r].batch : row[2] = rec
        PROVE  copies[rec] + Cardinality(Late) <= faults
    <3>1. ~Spent(rec)  BY <1>2, <1>12, <2>3 DEF CopiesInv, SpentIsBehind
    <3>. QED  BY <3>1, PriceTypes DEF Spent
  <2>4. \A rec \in Records : copies'[rec] + Cardinality(Late) <= 1 + faults
    BY <1>2, <1>9, <1>10, <2>3, PriceTypes
  <2>5. PaidFor'  BY <1>2, <1>9, <2>2, <2>4, PriceTypes DEF PaidFor
  <2>6. ASSUME NEW rec \in Records, Spent(rec)'
        PROVE  JustSpent(q, rec) \/ (Spent(rec) /\ Kept(r, q, rec))
    <3>1. CASE \E row \in request[r].batch : row[2] = rec
      <4>1. PICK row \in request[r].batch : row[2] = rec  BY <3>1
      <4>2. row[1] \in Nat  BY <1>3 DEF RequestType, Rows, Ids
      <4>3. \A i \in 1 .. Len(log) : log[i] = rec => i <= row[1]
        BY <1>6, <4>1, <4>2
      <4>4. \A i \in 1 .. Len(log) : log[i] = rec => Promised(q, i)
        BY <1>4, <4>3 DEF Promised
      <4>. QED  BY <1>4, <1>12, <4>4 DEF JustSpent, Waiting
    <3>2. CASE ~\E row \in request[r].batch : row[2] = rec
      <4>1. copies'[rec] = copies[rec]  BY <1>2, <3>2
      <4>2. Spent(rec)  BY <1>2, <2>2, <2>6, <4>1 DEF Spent
      <4>3. Kept(r, q, rec)  BY <1>2, <1>4 DEF Kept, At
      <4>. QED  BY <4>2, <4>3
    <3>. QED  BY <3>1, <3>2
  <2>7. \E row \in q.batch : cursor < row[1]
    BY <1>2, <1>4, <1>12 DEF CopiesInv, GoesOn
  <2>. QED  BY <1>2, <1>4, <1>5, <1>7, <2>5, <2>6, <2>7, RequestCopies
<1>. QED  BY <1>11, <1>12

LEMMA AskCopies ==
    ASSUME IInv, IInv', CopiesInv, NEW r \in Requests, Ask(r)
    PROVE  CopiesInv'
<1>1. PICK limit \in Limits :
         request' = [request EXCEPT ![r] = [Free EXCEPT !.stage = "arrived",
                                                         !.since = cursor, !.limit = limit]]
  BY DEF Ask
<1>2. PICK q : q = [Free EXCEPT !.stage = "arrived", !.since = cursor, !.limit = limit]
  OBVIOUS
<1>3. /\ At(r, "free") /\ UNCHANGED <<log, made, cursor, copies, faults>>
      /\ request' = [request EXCEPT ![r] = q]
  BY <1>1, <1>2 DEF Ask, logVars, undoVars
<1>4. q.stage = "arrived" /\ q.abandoned = FALSE  BY <1>2 DEF Free
<1>5. HeldRows(q) = {}  BY <1>4, NoRows
<1>6. Late' \subseteq Late  BY <1>3, <1>4, LateAfter
<1>7. PaidFor' /\ \A rec \in Records : Spent(rec)' => Spent(rec)
  BY <1>3, <1>6, QuietPrice
<1>8. \A rec : Kept(r, q, rec)  BY <1>3, <1>4 DEF Kept, At
<1>. QED  BY <1>3, <1>4, <1>5, <1>7, <1>8, RequestCopies

LEMMA GiveUpCopies ==
    ASSUME IInv, IInv', CopiesInv, NEW r \in Requests, GiveUp(r)
    PROVE  CopiesInv'
<1>1. UNCHANGED <<log, made, cursor, copies>> /\ faults' = faults + 1
  BY DEF GiveUp, Fault, logVars, undoVars
<1>2. request[r] \in RequestType  BY Facts
<1>3. CASE request[r].stage \in {"ok", "error"}
  <2>1. request' = [request EXCEPT ![r] = Free]  BY <1>3 DEF GiveUp, IInv, RequestsOK
  <2>. QED  BY <1>1, <2>1, FreedCopies
<1>4. CASE request[r].stage \notin {"ok", "error"}
  <2>1. PICK q : q = [request[r] EXCEPT !.abandoned = TRUE]  OBVIOUS
  <2>2. request' = [request EXCEPT ![r] = q]
    BY <1>4, <2>1 DEF GiveUp, IInv, RequestsOK
  <2>3. /\ q.abandoned /\ q.stage = request[r].stage
        /\ q.batch = request[r].batch /\ q.first = request[r].first
    BY <1>2, <2>1 DEF RequestType
  <2>4. HeldRows(q) = HeldRows(request[r])  BY <2>3 DEF HeldRows
  <2>5. CASE request[r].stage = "sent"
    <3>1. Late' \subseteq Late  BY <2>2, <2>3, <2>5, LateAfter
    <3>2. PaidFor' /\ \A rec \in Records : ~Spent(rec)'  BY <1>1, <3>1, FaultPrice
    <3>. QED  BY <1>1, <2>2, <2>3, <2>4, <3>2, RequestCopies
  <2>6. CASE request[r].stage # "sent"
    <3>1. Late' \subseteq Late \cup {r}  BY <2>2, LateAfter
    <3>2. PaidFor' /\ \A rec \in Records : Spent(rec)' => Spent(rec)
      BY <1>1, <3>1, LatePrice
    <3>3. \A rec : Kept(r, q, rec)  BY <1>4, <2>3, <2>6 DEF Kept
    <3>. QED  BY <1>1, <2>2, <2>3, <2>4, <3>2, <3>3, RequestCopies
  <2>. QED  BY <2>5, <2>6
<1>. QED  BY <1>3, <1>4

\* With nobody waiting, only the cursor keeps a spent copy behind the client.
LEMMA NobodyWaits ==
    ASSUME \A r \in Requests : ~Waiting(r)',
           \A rec \in Records : Spent(rec)' =>
              \A i \in 1 .. Len(log') : log'[i] = rec => i <= cursor'
    PROVE  SpentIsBehind' /\ GoesOn'
BY DEF SpentIsBehind, GoesOn, Behind

LEMMA ReplyCopies ==
    ASSUME IInv, IInv', CopiesInv, NEW r \in Requests, Reply(r)
    PROVE  CopiesInv'
<1>1. /\ UNCHANGED <<log, made, copies, faults>>
      /\ request' = [request EXCEPT ![r] = Free]
      /\ cursor' = IF At(r, "ok") THEN request[r].next ELSE cursor
      /\ At(r, "ok") \/ At(r, "error")
  BY DEF Reply, logVars, undoVars
<1>2. Free.stage = "free" /\ HeldRows(Free) = {}  BY FreeType, NoRows
<1>3. Late' \subseteq Late  BY <1>1, <1>2, LateAfter
<1>4. PaidFor' /\ \A rec \in Records : Spent(rec)' => Spent(rec)
  BY <1>1, <1>3, QuietPrice
<1>5. request'[r] = Free /\ \A s \in Requests : s # r => request'[s] = request[s]
  BY <1>1 DEF IInv, RequestsOK
<1>6. Waiting(r) /\ \A s \in Requests : Waiting(s) => s = r
  BY <1>1 DEF IInv, StagesOK, OneWaits, Waiting, At
<1>7. \A s \in Requests : ~Waiting(s)'
  BY <1>2, <1>5, <1>6 DEF Waiting
<1>8. /\ cursor \in Nat /\ cursor' \in Nat /\ cursor <= cursor'
      /\ At(r, "ok") => cursor' = request[r].next
  <2>1. cursor \in Nat /\ request[r].next \in Nat  BY Facts DEF RequestType
  <2>2. At(r, "ok") => cursor <= request[r].next  BY <1>6 DEF CopiesInv, GoesOn
  <2>. QED  BY <1>1, <2>1, <2>2
<1>9. ASSUME NEW rec \in Records, Spent(rec)', NEW i \in 1 .. Len(log'), log'[i] = rec
      PROVE  i <= cursor'
  <2>1. i \in Nat /\ Behind(i)
    BY <1>1, <1>4, <1>9 DEF CopiesInv, SpentIsBehind
  <2>2. CASE i <= cursor  BY <1>8, <2>1, <2>2
  <2>3. CASE request[r].stage \in {"sent", "ok"} /\ Promised(request[r], i)
    BY <1>1, <1>8, <2>3 DEF Promised, At
  <2>. QED  BY <1>6, <2>1, <2>2, <2>3 DEF Behind
<1>10. SpentIsBehind' /\ GoesOn'  BY <1>7, <1>9, NobodyWaits
<1>11. OneId'
  <2>1. \A s \in Requests : HeldRows(request'[s]) \subseteq HeldRows(request[s])
    BY <1>2, <1>5
  <2>2. \A s : HeldRows(request[s])' = HeldRows(request'[s])  BY DEF HeldRows
  <2>. QED  BY <1>1, <2>1, <2>2 DEF CopiesInv, OneId
<1>. QED  BY <1>4, <1>10, <1>11 DEF CopiesInv

\* A restart abandons at most the one request the client waits for.
LEMMA RestartCopies ==
    ASSUME IInv, IInv', CopiesInv, Restart
    PROVE  CopiesInv'
<1>1. UNCHANGED <<log, made, cursor, copies>> /\ faults' = faults + 1
  BY DEF Restart, Fault, logVars, undoVars
<1>2. ASSUME NEW r \in Requests
      PROVE  /\ At(r, "posting") => /\ request'[r].stage = "posting" /\ request'[r].abandoned
                                    /\ request'[r].batch = request[r].batch
             /\ ~At(r, "posting") => request'[r] = Free
  <2>1. request[r] \in RequestType  BY DEF IInv, RequestsOK
  <2>2. CASE At(r, "posting")
    <3>1. request'[r] = [request[r] EXCEPT !.abandoned = TRUE]  BY <2>2 DEF Restart
    <3>. QED  BY <2>1, <2>2, <3>1 DEF RequestType, At
  <2>3. CASE ~At(r, "posting")  BY <2>3 DEF Restart
  <2>. QED  BY <2>2, <2>3
<1>3. \A r \in Requests : ~Waiting(r)'  BY <1>2, FreeType DEF Waiting
<1>4. \A r \in Requests : HeldRows(request'[r]) \subseteq HeldRows(request[r])
  BY <1>2, FreeType DEF HeldRows, At
<1>5. OneId'
  <2>1. \A s : HeldRows(request[s])' = HeldRows(request'[s])  BY DEF HeldRows
  <2>. QED  BY <1>1, <1>4, <2>1 DEF CopiesInv, OneId
<1>6. ASSUME NEW r \in Late' PROVE r \in Requests /\ At(r, "posting")
  BY <1>2, <1>6, FreeType DEF Late
<1>7. CASE \E r \in Requests : Waiting(r) /\ At(r, "posting")
  <2>1. PICK r \in Requests : Waiting(r) /\ At(r, "posting")  BY <1>7
  <2>2. \A s \in Requests : Waiting(s) => s = r  BY <2>1 DEF IInv, OneWaits
  <2>3. Late' \subseteq Late \cup {r}
    <3>. SUFFICES ASSUME NEW s \in Late', s # r PROVE s \in Late  OBVIOUS
    <3>1. s \in Requests /\ At(s, "posting") /\ ~Waiting(s)  BY <1>6, <2>2
    <3>2. request[s].abandoned  BY <3>1 DEF Waiting, At
    <3>. QED  BY <3>1, <3>2 DEF Late, At
  <2>4. PaidFor' /\ \A rec \in Records : Spent(rec)' => Spent(rec)
    BY <1>1, <2>3, LatePrice
  <2>5. ASSUME NEW rec \in Records, Spent(rec)', NEW i \in 1 .. Len(log'), log'[i] = rec
        PROVE  i <= cursor'
    <3>1. Behind(i)  BY <1>1, <2>4, <2>5 DEF CopiesInv, SpentIsBehind
    <3>. QED  BY <1>1, <2>1, <2>2, <3>1 DEF Behind, At
  <2>6. SpentIsBehind' /\ GoesOn'  BY <1>3, <2>5, NobodyWaits
  <2>. QED  BY <1>5, <2>4, <2>6 DEF CopiesInv
<1>8. CASE ~\E r \in Requests : Waiting(r) /\ At(r, "posting")
  <2>1. Late' \subseteq Late
    <3>. SUFFICES ASSUME NEW s \in Late' PROVE s \in Late  OBVIOUS
    <3>1. s \in Requests /\ At(s, "posting") /\ ~Waiting(s)  BY <1>6, <1>8
    <3>2. request[s].abandoned  BY <3>1 DEF Waiting, At
    <3>. QED  BY <3>1, <3>2 DEF Late, At
  <2>2. PaidFor' /\ \A rec \in Records : ~Spent(rec)'  BY <1>1, <2>1, FaultPrice
  <2>3. SpentIsBehind' /\ GoesOn'  BY <1>3, <2>2, NobodyWaits
  <2>. QED  BY <1>5, <2>2, <2>3 DEF CopiesInv
<1>. QED  BY <1>7, <1>8

\* The log moves, the requests do not: no spent record gets another id.
LEMMA LogCopies ==
    ASSUME IInv, CopiesInv, UNCHANGED <<request, cursor, copies, faults>>, OneId',
           \A i \in 1 .. Len(log') : log'[i] \in Records /\ Spent(log'[i]) =>
              i \in 1 .. Len(log) /\ log[i] = log'[i]
    PROVE  CopiesInv'
<1>1. Late' = Late  BY DEF Late
<1>2. PaidFor' /\ \A rec \in Records : Spent(rec)' => Spent(rec)
  BY <1>1 DEF CopiesInv, PaidFor, Spent
<1>3. \A r, i : /\ Promised(request[r], i)' <=> Promised(request[r], i)
                /\ Waiting(r)' <=> Waiting(r)
  BY DEF Promised, Waiting
<1>4. \A i : Behind(i)' <=> Behind(i)  BY <1>3 DEF Behind
<1>5. SpentIsBehind'  BY <1>2, <1>3, <1>4 DEF CopiesInv, SpentIsBehind, At
<1>6. GoesOn'  BY <1>3 DEF CopiesInv, GoesOn, At
<1>. QED  BY <1>2, <1>5, <1>6 DEF CopiesInv

LEMMA SameRows ==
    ASSUME request' = request
    PROVE  \A r : HeldRows(request[r])' = HeldRows(request[r])
BY DEF HeldRows

LEMMA GrowCopies ==
    ASSUME IInv, CopiesInv, Grow
    PROVE  CopiesInv'
<1>. DEFINE new == Len(log) + 1
<1>1. /\ made' = made + 1 /\ log' = Append(log, made + 1)
      /\ UNCHANGED <<request, cursor, copies, faults>> /\ made < MaxRecords
  BY DEF Grow, Record, clientVars
<1>2. /\ log \in Seq(Records) /\ Len(log) \in Nat /\ made \in 0 .. MaxRecords /\ made \in Nat
  BY DEF IInv, LogOK
<1>3. /\ Len(log') = new /\ new \in Nat /\ log'[new] = made + 1
      /\ \A i \in 1 .. Len(log) : log'[i] = log[i]
  BY <1>1, <1>2
<1>4. made + 1 \in Records /\ ~Spent(made + 1)
  <2>1. made + 1 \in Records /\ made < made + 1  BY <1>1, <1>2 DEF Records
  <2>2. copies[made + 1] = 0  BY <2>1 DEF CopiesInv, OneId
  <2>3. Cardinality(Late) <= faults  BY DEF CopiesInv, PaidFor
  <2>. QED  BY <2>1, <2>2, <2>3, PriceTypes DEF Spent
<1>5. \A i \in 1 .. Len(log) : log[i] \in Nat /\ log[i] <= made
  <2>1. \A i \in 1 .. Len(log) : log[i] \in Records  BY <1>2
  <2>. QED  BY <2>1 DEF CopiesInv, OneId, Records
<1>6. \A i \in 1 .. Len(log') : i \in 1 .. Len(log) \/ i = new
  BY <1>2, <1>3
<1>. HIDE DEF new
<1>7. OneId'
  <2>1. ASSUME NEW i \in 1 .. Len(log'), NEW j \in 1 .. Len(log'), log'[i] = log'[j]
        PROVE  i = j
    BY <1>2, <1>3, <1>5, <1>6, <2>1 DEF CopiesInv, OneId
  <2>2. \A i \in 1 .. Len(log') : log'[i] <= made'
    BY <1>1, <1>2, <1>3, <1>5, <1>6
  <2>3. ASSUME NEW r \in Requests, NEW row \in HeldRows(request[r])
        PROVE  row[2] <= made' /\ \A i \in 1 .. Len(log') : log'[i] = row[2] => i = row[1]
    <3>1. row[2] <= made /\ \A i \in 1 .. Len(log) : log[i] = row[2] => i = row[1]
      BY <2>3 DEF CopiesInv, OneId
    <3>2. row[2] \in Nat  BY DEF HeldRows, Rows, Records
    <3>3. row[2] # made + 1 /\ row[2] <= made'  BY <1>1, <1>2, <3>1, <3>2
    <3>. QED  BY <1>3, <1>6, <3>1, <3>3
  <2>4. ASSUME NEW rec \in Records, made' < rec PROVE copies'[rec] = 0
    <3>1. made < rec  BY <1>1, <1>2, <2>4 DEF Records
    <3>. QED  BY <1>1, <3>1 DEF CopiesInv, OneId
  <2>. QED  BY <1>1, <2>1, <2>2, <2>3, <2>4, SameRows DEF OneId
<1>8. \A i \in 1 .. Len(log') : log'[i] \in Records /\ Spent(log'[i]) =>
         i \in 1 .. Len(log) /\ log[i] = log'[i]
  BY <1>3, <1>4, <1>6
<1>. QED  BY <1>1, <1>7, <1>8, LogCopies

\* A trim, a rollback: what is left of the log is a beginning of it.
LEMMA ShorterCopies ==
    ASSUME IInv, CopiesInv, UNCHANGED <<request, cursor, copies, faults, made>>,
           \A i \in 1 .. Len(log') : i \in 1 .. Len(log) /\ log'[i] = log[i]
    PROVE  CopiesInv'
<1>1. OneId'  BY SameRows DEF CopiesInv, OneId
<1>. QED  BY <1>1, LogCopies

LEMMA TakeBackCopies ==
    ASSUME IInv, CopiesInv, TakeBack
    PROVE  CopiesInv'
<1>1. PICK n \in 0 .. Len(log) : log' = SubSeq(log, 1, n)
  BY DEF TakeBack, TakenBackTo
<1>2. UNCHANGED <<request, cursor, copies, faults, made>>
  BY DEF TakeBack, TakenBackTo, clientVars
<1>3. log \in Seq(Records) /\ Len(log) \in Nat  BY DEF IInv, LogOK
<1>4. Len(log') = n /\ \A i \in 1 .. n : log'[i] = log[i]  BY <1>1, <1>3
<1>. QED  BY <1>2, <1>3, <1>4, ShorterCopies

LEMMA InitCopies == Init => CopiesInv
<1>. SUFFICES ASSUME Init PROVE CopiesInv  OBVIOUS
<1>1. /\ \A r \in Requests : request[r] = Free
      /\ log = << >> /\ made = 0 /\ faults = 0 /\ \A rec \in Records : copies[rec] = 0
  BY DEF Init, InitLog
<1>2. Late = {}  BY <1>1, FreeType DEF Late
<1>3. IsFiniteSet(Late) /\ Cardinality(Late) = 0  BY <1>2, FS_EmptySet
<1>4. \A r \in Requests : ~Waiting(r) /\ HeldRows(request[r]) = {}
  BY <1>1, FreeType, NoRows DEF Waiting
<1>5. OneId  BY <1>1, <1>4 DEF OneId
<1>6. PaidFor  BY <1>1, <1>3 DEF PaidFor
<1>7. SpentIsBehind  BY <1>1, <1>3, <1>4 DEF SpentIsBehind, Spent
<1>8. GoesOn  BY <1>4 DEF GoesOn
<1>. QED  BY <1>5, <1>6, <1>7, <1>8 DEF CopiesInv

LEMMA StepCopies == IInv /\ CopiesInv /\ [Next]_vars => CopiesInv'
<1>. SUFFICES ASSUME IInv, CopiesInv, [Next]_vars PROVE CopiesInv'  OBVIOUS
<1>0. IInv'  BY StepIInv
<1>1. ASSUME NEW r \in Requests, Handle(r)  PROVE CopiesInv'
  BY <1>0, <1>1, FailCopies, NothingNewCopies, SelectCopies, FetchCopies, PostCopies,
     SucceedCopies, ReplyCopies DEF Handle
<1>2. ASSUME NEW r \in Requests, NotResolved(r) \/ PostFails(r) \/ Ask(r) \/ GiveUp(r)
      PROVE  CopiesInv'
  BY <1>0, <1>2, FailCopies, AskCopies, GiveUpCopies
<1>3. CASE Restart  BY <1>0, <1>3, RestartCopies
<1>4. CASE Grow  BY <1>4, GrowCopies
<1>5. CASE Clean \/ UNCHANGED vars
  <2>1. UNCHANGED <<log, made, cursor, request, copies, faults>>
    BY <1>5 DEF Clean, Trim, vars, logVars, clientVars
  <2>. QED  BY <2>1, ShorterCopies
<1>6. CASE TakeBack  BY <1>6, TakeBackCopies
<1>. QED  BY <1>1, <1>2, <1>3, <1>4, <1>5, <1>6 DEF Next

(* A record is sent once, and once more at most for each request that     *)
(* failed, was given up or died with the service.                         *)
THEOREM DuplicatesCost == Spec => []DuplicatesCostAFault
<1>1. IInv /\ CopiesInv => DuplicatesCostAFault
  <2>. SUFFICES ASSUME IInv, CopiesInv, NEW rec \in Records PROVE copies[rec] <= 1 + faults
    BY DEF DuplicatesCostAFault
  <2>1. copies[rec] + Cardinality(Late) <= 1 + faults  BY DEF CopiesInv, PaidFor
  <2>. QED  BY <2>1, PriceTypes
<1>. QED  BY <1>1, InitIInv, StepIInv, InitCopies, StepCopies, PTL DEF Spec
=============================================================================

----------------------------- MODULE CloudUpload -----------------------------
(***************************************************************************)
(* POST /api/upload of service/api.py and the client of docs/api.md that   *)
(* calls it again and again with the cursor of the last answer.            *)
(*                                                                         *)
(* The log is RetainedLog, what Storage implements: it is trimmed, and     *)
(* taken back, while an upload is under way.  A client that lost patience  *)
(* asks again, and its earlier request goes on: the server does not notice.*)
(* httpx, the webhook and the client are external.                         *)
(***************************************************************************)
EXTENDS RetainedLog, FiniteSets

CONSTANTS
    Requests,    \* slots for requests under way
    Limits,      \* the `limit' values the client asks with
    Setups,      \* deployments: a webhook URL, and the client's bearer token
    MaxRecords,  \* bound: records
    MaxUndos,    \* bound: failed commits and restarts that take the log back
    MaxFaults    \* bound: what goes wrong with requests

ASSUME UploadAssumption ==
    /\ {MaxRecords, MaxUndos, MaxFaults} \subseteq Nat
    /\ Limits \subseteq Nat \ {0}

ASSUME SetupAssumption ==
    Setups \subseteq [webhook: {"unset", "malformed", "private", "public"},
                      token: {"not needed", "right", "wrong"}]

VARIABLES
    setup,    \* the deployment
    cursor,   \* the cursor the client saved
    request,  \* what each request has come to
    copies,   \* how often the webhook was sent each record
    faults,
    undos,
    undone    \* history: ids whose visible insertion or deletion was taken back

clientVars == <<setup, cursor, request, copies, faults>>
undoVars == <<undos, undone>>
vars == <<logVars, clientVars, undoVars>>

Ids == 1 .. MaxRecords
Records == 1 .. MaxRecords
Rows == Ids \X Records

Free == [stage |-> "free", since |-> 0, limit |-> 0, first |-> <<0, 0>>,
         batch |-> {}, next |-> 0, abandoned |-> FALSE]

Stages == {"free", "arrived", "selected", "posting", "sent", "ok", "error"}

TypeOK ==
    /\ log \in Seq(Records) /\ retained \subseteq Ids /\ made \in 0 .. MaxRecords
    /\ setup \in Setups
    /\ cursor \in 0 .. MaxRecords
    /\ request \in [Requests -> [stage: Stages, since: 0 .. MaxRecords, limit: Nat,
                                 first: Rows \cup {<<0, 0>>}, batch: SUBSET Rows,
                                 next: 0 .. MaxRecords, abandoned: BOOLEAN]]
    /\ copies \in [Records -> Nat]
    /\ faults \in 0 .. MaxFaults /\ undos \in 0 .. MaxUndos
    /\ undone \subseteq Ids

Init ==
    /\ InitLog
    /\ setup \in Setups
    /\ cursor = 0 /\ request = [r \in Requests |-> Free]
    /\ copies = [rec \in Records |-> 0]
    /\ faults = 0 /\ undos = 0 /\ undone = {}

-----------------------------------------------------------------------------
(* The handler.  Its answer is "ok" with a next cursor, or "error".        *)

At(r, stage) == request[r].stage = stage

Becomes(r, stage) == request' = [request EXCEPT ![r].stage = stage]

\* The answer to a request the client still waits for.
Answered(r, stage, next) ==
    request' = [request EXCEPT ![r] = IF @.abandoned THEN Free
                                      ELSE [Free EXCEPT !.stage = stage, !.next = next]]

Fault == faults < MaxFaults /\ faults' = faults + 1

\* _api_key_middleware, then the checks of the webhook URL.
Authorised == setup.token \in {"not needed", "right"}
Permitted == Authorised /\ setup.webhook = "public"

\* Status 401, or 400.
Refuse(r) ==
    /\ At(r, "arrived") /\ ~Permitted
    /\ Answered(r, "error", 0)
    /\ UNCHANGED <<logVars, undoVars, setup, cursor, copies, faults>>

\* The webhook's name does not resolve, or to a private address: status 400.
NotResolved(r) ==
    /\ At(r, "arrived") /\ Permitted /\ Fault
    /\ Answered(r, "error", 0)
    /\ UNCHANGED <<logVars, undoVars, setup, cursor, copies>>

\* Fault: WHERE id >= ?.
NewerOrEqual(c) == {i \in retained : i >= c}

Newer(c) == {i \in retained : i > c}

NothingNew(r) ==
    /\ At(r, "arrived") /\ Permitted
    /\ Newer(request[r].since) = {}
    /\ Answered(r, "ok", request[r].since)
    /\ UNCHANGED <<logVars, undoVars, setup, cursor, copies, faults>>

\* since(): execute() steps to the first row ...
Select(r) ==
    /\ At(r, "arrived") /\ Permitted
    /\ \E i \in Newer(request[r].since) :
          /\ \A j \in Newer(request[r].since) : i <= j
          /\ request' = [request EXCEPT ![r].stage = "selected", ![r].first = <<i, log[i]>>]
    /\ UNCHANGED <<logVars, undoVars, setup, cursor, copies, faults>>

Batched(r, rows) ==
    request' = [request EXCEPT ![r] = [Free EXCEPT !.stage = "posting", !.batch = rows,
                                                    !.abandoned = request[r].abandoned]]

RowsOf(ids) == {<<i, log[i]>> : i \in ids}

\* ... and fetchall() reads the others, oldest first, up to the limit.
Fetch(r) ==
    /\ At(r, "selected")
    /\ LET later == Newer(request[r].first[1])
       IN  \E rest \in SUBSET later :
              /\ \A i \in rest, j \in later \ rest : i < j
              /\ \/ Cardinality(rest) = request[r].limit - 1
                 \/ rest = later /\ Cardinality(rest) < request[r].limit
              /\ Batched(r, {request[r].first} \cup RowsOf(rest))
    /\ UNCHANGED <<logVars, undoVars, setup, cursor, copies, faults>>

\* client.post(): the webhook has the whole batch.
Post(r) ==
    /\ At(r, "posting")
    /\ copies' = [rec \in Records |->
                     IF \E row \in request[r].batch : row[2] = rec
                     THEN copies[rec] + 1 ELSE copies[rec]]
    /\ Becomes(r, "sent")
    /\ UNCHANGED <<logVars, undoVars, setup, cursor, faults>>

\* Fault: no raise_for_status().
PostFailsUnnoticed(r) ==
    /\ At(r, "posting") \/ At(r, "sent")
    /\ Fault
    /\ \E last \in request[r].batch :
          /\ \A row \in request[r].batch : row[1] <= last[1]
          /\ Answered(r, "ok", last[1])
    /\ UNCHANGED <<logVars, undoVars, setup, cursor, copies>>

\* Fault: no time-outs.
PostHangs(r) ==
    /\ At(r, "posting") \/ At(r, "sent")
    /\ Fault
    /\ Becomes(r, "hung")
    /\ UNCHANGED <<logVars, undoVars, setup, cursor, copies>>

\* Status 502: httpx raises RequestError, or the webhook's status is not 2xx.
\* Either may happen before the webhook has the batch and after.
PostFails(r) ==
    /\ At(r, "posting") \/ At(r, "sent")
    /\ Fault
    /\ Answered(r, "error", 0)
    /\ UNCHANGED <<logVars, undoVars, setup, cursor, copies>>

Succeed(r) ==
    /\ At(r, "sent")
    /\ \E last \in request[r].batch :
          /\ \A row \in request[r].batch : row[1] <= last[1]
          /\ Answered(r, "ok", last[1])
    /\ UNCHANGED <<logVars, undoVars, setup, cursor, copies, faults>>

-----------------------------------------------------------------------------
(* The client. *)

Waiting(r) == request[r].stage # "free" /\ ~request[r].abandoned

Ask(r) ==
    /\ At(r, "free") /\ r = CHOOSE s \in Requests : At(s, "free")
    /\ \A s \in Requests : ~Waiting(s)
    /\ \E limit \in Limits :
          request' = [request EXCEPT ![r] = [Free EXCEPT !.stage = "arrived",
                                                          !.since = cursor, !.limit = limit]]
    /\ UNCHANGED <<logVars, undoVars, setup, cursor, copies, faults>>

\* The answer reaches the client.
Reply(r) ==
    /\ At(r, "ok") \/ At(r, "error")
    /\ cursor' = IF At(r, "ok") THEN request[r].next ELSE cursor
    /\ request' = [request EXCEPT ![r] = Free]
    /\ UNCHANGED <<logVars, undoVars, setup, copies, faults>>

\* The client's time-out, or an answer that is lost.
GiveUp(r) ==
    /\ Waiting(r) /\ Fault
    /\ request' = [request EXCEPT ![r] = IF @.stage \in {"ok", "error"} THEN Free
                                         ELSE [@ EXCEPT !.abandoned = TRUE]]
    /\ UNCHANGED <<logVars, undoVars, setup, cursor, copies>>

\* The service dies.  A batch that was handed to the system may still arrive.
Restart ==
    /\ \E r \in Requests : ~At(r, "free")
    /\ Fault
    /\ request' = [r \in Requests |->
                      IF At(r, "posting") THEN [request[r] EXCEPT !.abandoned = TRUE] ELSE Free]
    /\ UNCHANGED <<logVars, undoVars, setup, cursor, copies>>

Handle(r) ==
    Refuse(r) \/ NothingNew(r) \/ Select(r) \/ Fetch(r) \/ Post(r) \/ Succeed(r) \/ Reply(r)

-----------------------------------------------------------------------------
(* The log. *)

Grow == made < MaxRecords /\ Record /\ UNCHANGED <<clientVars, undoVars>>

Clean == Trim /\ UNCHANGED <<clientVars, undoVars>>

TakeBack ==
    /\ undos < MaxUndos /\ undos' = undos + 1
    /\ \E n \in 0 .. Len(log) :
          /\ TakenBackTo(n)
          /\ undone' = undone \cup ((n + 1) .. Len(log)) \cup (retained' \ retained)
    /\ UNCHANGED clientVars

Next ==
    \/ \E r \in Requests : Handle(r) \/ NotResolved(r) \/ PostFails(r) \/ Ask(r) \/ GiveUp(r)
    \/ Restart
    \/ Grow \/ Clean \/ TakeBack

Spec == Init /\ [][Next]_vars

\* The event loop and httpx's time-outs end every request, the client goes on.
FairSpec ==
    /\ Spec
    /\ \A r \in Requests : WF_vars(Handle(r))
    /\ WF_vars(\E r \in Requests : Ask(r))

-----------------------------------------------------------------------------
(* A record that is stored behind the client's cursor was sent to the      *)
(* webhook, whatever was refused, lost, rejected, answered late or trimmed *)
(* on the way; only ids that a rollback took back are excepted.            *)
UploadsAreComplete ==
    \A i \in retained : i <= cursor /\ i \notin undone => copies[log[i]] > 0

(* Sending again is the price of a fault: each failed, abandoned or killed *)
(* request costs at most one more copy of a record.                        *)
DuplicatesCostAFault == \A rec \in Records : copies[rec] <= 1 + faults

(* A stored record is sent in the end, if the deployment permits uploads.  *)
RecordsAreUploaded ==
    \A i \in Ids :
        (Permitted /\ i \in retained)
            ~> \/ i \notin retained \/ i \in undone
               \/ copies[log[i]] > 0
=============================================================================

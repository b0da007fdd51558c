-------------------------- MODULE ConcurrentRequests --------------------------
(***************************************************************************)
(* Requests around the slots of one session, run at the same time.  The    *)
(* database isolates at READ COMMITTED and the handlers take no lock       *)
(* before they write, so a handler is what it loads, a statement at a time *)
(* and each from what is committed then, followed by a commit computed     *)
(* from the loaded values.  An object that was loaded is not refreshed by  *)
(* loading it again, nor by the commits of bulk_notify_decisions.          *)
(*                                                                         *)
(* The statements of one commit lock the rows they write until its end, so *)
(* two commits that write the same row follow each other: each is a single *)
(* step here.  Orders of slots are in SessionSlots.                        *)
(***************************************************************************)
EXTENDS AbstractStateMachine, Naturals, Sequences, FiniteSets

CONSTANTS
    Request,     \* requests being served at the same time
    Submission,  \* submissions decided for the type of the session
    Row,         \* identities of session_slots rows
    MaxSlots     \* sessions.max_slots

None == "none"

ASSUME RequestsAssumption ==
    /\ MaxSlots \in Nat
    /\ None \notin Submission

VARIABLES
    status,      \* submissions.status
    rows,        \* the session_slots rows that hold a submission
    open,        \* the session exists
    op,          \* the handler a request runs, or "idle"
    left,        \* what the handler has still to load
    target,      \* the submissions it works on
    seenStatus,  \* submissions.status as loaded
    seenRows,    \* session_slots as loaded
    audit,       \* audit_logs rows inserted by the last commit
    dirty        \* some commit so far was computed from outdated values

tables == <<status, rows, open>>
requests == <<op, left, target, seenStatus, seenRows>>
vars == <<tables, requests, audit, dirty>>

AdvancedStatuses == {"notified", "confirmed", "files_submitted"}
Scheduled == {"assigned_to_session"} \cup AdvancedStatuses

NothingLoaded == [s \in Submission |-> None]
NoRows == [s \in Submission |-> {}]

Init ==
    /\ status = [s \in Submission |-> "decided"]
    /\ rows = NoRows
    /\ open = TRUE
    /\ op = [r \in Request |-> "idle"]
    /\ left = [r \in Request |-> <<>>]
    /\ target = [r \in Request |-> {}]
    /\ seenStatus = [r \in Request |-> NothingLoaded]
    /\ seenRows = [r \in Request |-> NoRows]
    /\ audit = {}
    /\ dirty = FALSE

-----------------------------------------------------------------------------
(* Arrival and loading. *)

SingleOp == {"assign", "remove_slot", "withdraw", "confirm", "submit_files",
             "request_replacement"}
Op == SingleOp \cup {"delete_session", "bulk_notify"}

\* The queries of a handler, in order: the slots or the submissions.
Queries(o) ==
    CASE o \in {"assign", "remove_slot", "delete_session"} -> <<"rows", "status">>
      [] o = "withdraw" -> <<"status", "rows">>
      [] OTHER -> <<"status">>

Arrive(r, o, S) ==
    /\ op[r] = "idle"
    /\ S \subseteq Submission
    /\ IF o \in SingleOp THEN \E s \in Submission : S = {s} ELSE S = {}
    /\ op' = [op EXCEPT ![r] = o]
    /\ left' = [left EXCEPT ![r] = Queries(o)]
    /\ target' = [target EXCEPT ![r] = S]
    /\ UNCHANGED <<tables, seenStatus, seenRows, audit, dirty>>

\* Assigning counts the slots of the session; deleting it loads them.
ReadsSession(r) == op[r] \in {"assign", "delete_session"}

LoadRows(r) ==
    /\ left[r] # <<>> /\ Head(left[r]) = "rows"
    /\ ReadsSession(r) => open
    /\ left' = [left EXCEPT ![r] = Tail(@)]
    /\ seenRows' = [seenRows EXCEPT ![r] =
           [s \in Submission |-> IF ReadsSession(r) \/ s \in target[r]
                                 THEN rows[s] ELSE {}]]
    /\ target' = IF op[r] = "delete_session"
                 THEN [target EXCEPT ![r] = {s \in Submission : rows[s] # {}}]
                 ELSE target
    /\ UNCHANGED <<tables, op, seenStatus, audit, dirty>>

LoadStatus(r) ==
    LET found == IF op[r] = "bulk_notify"
                 THEN {s \in Submission : status[s] = "assigned_to_session"}
                 ELSE target[r]
    IN  /\ left[r] # <<>> /\ Head(left[r]) = "status"
        /\ left' = [left EXCEPT ![r] = Tail(@)]
        /\ target' = [target EXCEPT ![r] = found]
        /\ seenStatus' = [seenStatus EXCEPT ![r] =
               [s \in Submission |-> IF s \in found THEN status[s] ELSE None]]
        /\ UNCHANGED <<tables, op, seenRows, audit, dirty>>

-----------------------------------------------------------------------------
(* Commits. *)

Ready(r, o) == op[r] = o /\ left[r] = <<>>

\* The request is answered.
End(r) ==
    /\ op' = [op EXCEPT ![r] = "idle"]
    /\ left' = [left EXCEPT ![r] = <<>>]
    /\ target' = [target EXCEPT ![r] = {}]
    /\ seenStatus' = [seenStatus EXCEPT ![r] = NothingLoaded]
    /\ seenRows' = [seenRows EXCEPT ![r] = NoRows]

\* A guard of the handler, a constraint or a failure: nothing is committed.
Refuse(r) ==
    /\ op[r] # "idle"
    /\ End(r)
    /\ UNCHANGED <<tables, audit, dirty>>

OldStatus(r) == \E s \in target[r] : seenStatus[r][s] # status[s]
OldRows(r) ==
    \E s \in Submission :
        (ReadsSession(r) \/ s \in target[r]) /\ seenRows[r][s] # rows[s]

Commit(r, entries, outdated) ==
    /\ audit' = entries
    /\ dirty' = (dirty \/ outdated)
    /\ End(r)

Entry(s, from, to) == [submission |-> s, from |-> from, to |-> to]

\* Slots of a session, over a loaded or committed table.
RowsOf(table) == UNION {table[s] : s \in Submission}
Count(table) == Cardinality(RowsOf(table))

\* A new row has an identity nobody ever saw.
Fresh(n) ==
    /\ \A s \in Submission : n \notin rows[s]
    /\ \A r \in Request : \A s \in Submission : n \notin seenRows[r][s]

\* The partial unique index on session_slots.submission_id.
NoIndex(s) == TRUE
UniqueIndex(s) == rows[s] = {}

\* The foreign key refuses the row when the session is gone.
CommitAssign(r, n) ==
    \E s \in target[r] :
       /\ Ready(r, "assign")
       /\ Count(seenRows[r]) < MaxSlots
       /\ seenStatus[r][s] = "decided"
       /\ UniqueIndex(s) /\ open /\ Fresh(n)
       /\ rows' = [rows EXCEPT ![s] = @ \cup {n}]
       /\ status' = [status EXCEPT ![s] = "assigned_to_session"]
       /\ Commit(r, {}, OldStatus(r) \/ Count(seenRows[r]) # Count(rows))
       /\ UNCHANGED open

\* The status and the audit rows of a submission whose slot goes.
Reverted(seen, to) ==
    IF seen = "assigned_to_session" THEN "decided"
    ELSE IF seen \in AdvancedStatuses THEN to
    ELSE seen

\* ADVANCED_DELETE_TARGETS, what the request may choose for the submissions of
\* a deleted session that were notified already.
AnyTarget == SubmissionStatus
AdvancedDeleteTargets == {"decided", "withdrawn"}

RevertedQuietly(r, S, to) == {}
RevertEntries(r, S, to) ==
    {Entry(s, seenStatus[r][s], to) :
        s \in {x \in S : seenStatus[r][x] \in AdvancedStatuses}}

\* The new status is written only where it differs from the loaded one.
WrittenIfAssigned(r, S, to) ==
    [s \in Submission |->
        IF s \in S /\ seenStatus[r][s] = "assigned_to_session"
        THEN "decided" ELSE status[s]]
Written(r, S, to) ==
    [s \in Submission |->
        IF s \in S /\ seenStatus[r][s] \in Scheduled
        THEN Reverted(seenStatus[r][s], to) ELSE status[s]]

CommitRemoveSlot(r) ==
    LET S == target[r]
    IN  /\ Ready(r, "remove_slot")
        /\ \E s \in S : seenRows[r][s] # {}
        /\ rows' = [s \in Submission |-> rows[s] \ seenRows[r][s]]
        /\ status' = Written(r, S, "decided")
        /\ Commit(r, RevertEntries(r, S, "decided"), OldStatus(r) \/ OldRows(r))
        /\ UNCHANGED open

\* Rows added since are deleted by the cascade of the foreign key.
CommitDeleteSession(r, advanced) ==
    LET S == target[r]
    IN  /\ Ready(r, "delete_session")
        /\ advanced \in AdvancedDeleteTargets
        /\ rows' = NoRows
        /\ open' = FALSE
        /\ status' = Written(r, S, advanced)
        /\ Commit(r, RevertEntries(r, S, advanced), OldStatus(r) \/ OldRows(r))

\* transition_submission along an edge that releases no slot.
CommitTransition(r, o, to, entries) ==
    \E s \in target[r] :
       /\ Ready(r, o)
       /\ status' = [status EXCEPT ![s] = to]
       /\ Commit(r, entries, OldStatus(r))
       /\ UNCHANGED <<rows, open>>

Loaded(r, st) == \E s \in target[r] : seenStatus[r][s] = st

CommitConfirm(r) ==
    Loaded(r, "notified") /\ CommitTransition(r, "confirm", "confirmed", {})

CommitSubmitFiles(r) ==
    Loaded(r, "confirmed") /\ CommitTransition(r, "submit_files", "files_submitted", {})

CommitRequestReplacement(r) ==
    /\ Loaded(r, "files_submitted")
    /\ CommitTransition(r, "request_replacement", "confirmed",
           {Entry(s, "files_submitted", "confirmed") : s \in target[r]})

CommitWithdraw(r) ==
    /\ Ready(r, "withdraw")
    /\ Loaded(r, "notified")
    /\ rows' = [s \in Submission |-> rows[s] \ seenRows[r][s]]
    /\ status' = [s \in Submission |-> IF s \in target[r] THEN "withdrawn" ELSE status[s]]
    /\ Commit(r, {}, OldStatus(r) \/ OldRows(r))
    /\ UNCHANGED open

\* One turn of the loop in bulk_notify_decisions, with a commit of its own.
\* What the loop has left keeps the status that was loaded before it.
CommitNotify(r, s) ==
    /\ Ready(r, "bulk_notify")
    /\ s \in target[r]
    /\ status' = [status EXCEPT ![s] = "notified"]
    /\ target' = [target EXCEPT ![r] = @ \ {s}]
    /\ seenStatus' = [seenStatus EXCEPT ![r][s] = None]
    /\ audit' = {}
    /\ dirty' = (dirty \/ seenStatus[r][s] # status[s])
    /\ UNCHANGED <<rows, open, op, left, seenRows>>

-----------------------------------------------------------------------------
Serve(r) ==
    \/ \E o \in Op, S \in SUBSET Submission : Arrive(r, o, S)
    \/ LoadRows(r)
    \/ LoadStatus(r)
    \/ Refuse(r)
    \/ \E n \in Row : CommitAssign(r, n)
    \/ CommitRemoveSlot(r)
    \/ \E advanced \in SubmissionStatus : CommitDeleteSession(r, advanced)
    \/ CommitConfirm(r)
    \/ CommitSubmitFiles(r)
    \/ CommitRequestReplacement(r)
    \/ CommitWithdraw(r)
    \/ \E s \in Submission : CommitNotify(r, s)

Next == \E r \in Request : Serve(r)

Spec == Init /\ [][Next]_vars

-----------------------------------------------------------------------------
(* Properties. *)

Status == {"decided", "withdrawn"} \cup Scheduled

StillQueried ==
    {<<>>, <<"rows">>, <<"status">>, <<"rows", "status">>, <<"status", "rows">>}

\* Tables, loaded values and pending loads have their types.
TypeOK ==
    /\ status \in [Submission -> Status]
    /\ rows \in [Submission -> SUBSET Row]
    /\ open \in BOOLEAN
    /\ op \in [Request -> Op \cup {"idle"}]
    /\ left \in [Request -> StillQueried]
    /\ target \in [Request -> SUBSET Submission]
    /\ seenStatus \in [Request -> [Submission -> Status \cup {None}]]
    /\ seenRows \in [Request -> [Submission -> SUBSET Row]]
    /\ audit \subseteq [submission : Submission, from : Status, to : Status]
    /\ dirty \in BOOLEAN

\* However requests overlap, a submission is never in two slots: two chairs who
\* assign it at the same time both pass the check, and the index stops one.
UniquePlacement == \A s \in Submission : Cardinality(rows[s]) <= 1

\* Status and slots agree, and the session is not over its limit, as long as no
\* commit was computed from values that had changed since they were loaded: a
\* check of them at the commit would rule out every disagreement.
ConsistentUnlessStale ==
    ~dirty => /\ \A s \in Submission : rows[s] # {} <=> status[s] \in Scheduled
              /\ Count(rows) <= MaxSlots

\* A status moves along TRANSITIONS, back to "decided" before anybody was told,
\* or with an audit row that names both ends, unless a commit was outdated.
LegalUnlessStale ==
    [][~dirty' =>
          \A s \in Submission :
             \/ status'[s] = status[s]
             \/ <<status[s], status'[s]>> \in TRANSITIONS
             \/ status[s] = "assigned_to_session" /\ status'[s] = "decided"
             \/ Entry(s, status[s], status'[s]) \in audit']_vars

(* What makes them inductive. *)

AtMostOneRow ==
    /\ \A s \in Submission : rows[s] = {} \/ \E n \in Row : rows[s] = {n}
    /\ IsFiniteSet(RowsOf(rows))

\* What a request still has to load is a suffix of the queries of its handler.
StillToLoad ==
    \A r \in Request :
        /\ op[r] = "idle" => left[r] = <<>>
        /\ op[r] \in {"assign", "remove_slot", "delete_session"} =>
               left[r] \in {<<"rows", "status">>, <<"status">>, <<>>}
        /\ op[r] = "withdraw" => left[r] \in {<<"status", "rows">>, <<"rows">>, <<>>}
        /\ op[r] \notin {"assign", "remove_slot", "delete_session", "withdraw"} =>
               left[r] \in {<<"status">>, <<>>}

\* A handler on one submission keeps it; slots are loaded for the submissions
\* it works on, and deleting a session works on those whose slots were loaded.
LoadedFor(r) ==
    /\ op[r] \in SingleOp => \E s \in Submission : target[r] = {s}
    /\ op[r] \in {"remove_slot", "withdraw"} =>
           \A s \in Submission \ target[r] : seenRows[r][s] = {}
    /\ op[r] = "delete_session" =>
           target[r] = {s \in Submission : seenRows[r][s] # {}}
    /\ op[r] \notin {"assign", "remove_slot", "delete_session", "withdraw"} =>
           seenRows[r] = NoRows

LoadedForTargets == \A r \in Request : LoadedFor(r)

\* What is left of a bulk notification was found at assigned_to_session.
NotifiesAssigned ==
    \A r \in Request :
        op[r] = "bulk_notify" =>
            \A s \in target[r] : seenStatus[r][s] = "assigned_to_session"

LoadingInv == StillToLoad /\ LoadedForTargets /\ NotifiesAssigned

RequestsInv == TypeOK /\ LoadingInv /\ AtMostOneRow /\ ConsistentUnlessStale
===============================================================================

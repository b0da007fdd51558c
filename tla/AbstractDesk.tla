------------------------------ MODULE AbstractDesk -----------------------------
(***************************************************************************)
(* The committee's page of one abstract: decision, decision override,      *)
(* status override, change of presenter, presenter's details and the       *)
(* assignment to a session.  Each card has a spinner of its own, so their  *)
(* requests overlap.  The server reads, awaits and commits without a lock, *)
(* and most answers carry the whole submission: as it was read, with the   *)
(* request's own change.  A decision is followed by a request for the row; *)
(* the outcome the page shows is the one that was clicked.  Nobody else    *)
(* changes the abstract while the page is open.                            *)
(***************************************************************************)
EXTENDS Naturals, FiniteSets

CONSTANTS
    Verdict,     \* decision outcomes; those that are session types can be slotted
    SlotVerdict,
    Account4,    \* the accounts a submission may be moved to
    MaxDeskOps

NoVerdict == "no decision"
DeskStatus == {"under_review", "decided", "assigned_to_session", "withdrawn"}
Undecided == {"draft", "submitted", "under_review"}

VARIABLES
    row,         \* the submission's row: status, presenter, edition
    verdict,     \* its decision, and how often that changed
    held,        \* setSubmission
    heldVerdict, \* setDecisionOutcome, and the newest change that it reflects
    errands,     \* requests on their way
    doneOps,
    behind,      \* an answer shown was older than what it replaced, or made of a row
                 \* that another request had changed since it was read
    unread       \* the page was not told of a change

deskVars == <<row, verdict, held, heldVerdict, errands, doneOps, behind, unread>>

DeskInit ==
    /\ row \in [status : DeskStatus \ {"assigned_to_session"}, author : Account4, edition : {0}]
    /\ verdict \in [is : Verdict \cup {NoVerdict}, edition : {0}]
    /\ row.status = "decided" => verdict.is # NoVerdict
    /\ held = row /\ heldVerdict = verdict
    /\ errands = {} /\ doneOps = 0
    /\ behind = FALSE /\ unread = FALSE

Errand(op, arg) ==
    /\ doneOps < MaxDeskOps /\ doneOps' = doneOps + 1
    /\ \A e \in errands : e.op # op
    /\ errands' = errands \cup {[op |-> op, arg |-> arg, at |-> "sent", row |-> held,
                                 was |-> NoVerdict, edition |-> 0, mixed |-> FALSE]}
    /\ UNCHANGED <<row, verdict, held, heldVerdict, behind, unread>>

\* The cards, and what each of them sends.
OnDecide(o) == held.status = "under_review" /\ Errand("decide", o)
OnOverrideDecision(o) == held.status \notin Undecided /\ Errand("overrule", o)
OnOverride(s) == Errand("status", s)
OnReassign(a) == a # held.author /\ Errand("reassign", a)
HandleSavePresenter == Errand("presenter", "details")
OnAssign == heldVerdict.is \in SlotVerdict /\ Errand("slot", heldVerdict.is)

-------------------------------------------------------------------------------
(* The server: what it reads and tests, and what it then writes. *)

Decides(e) == e.op \in {"decide", "overrule"}

AcceptsRow(e) ==
    /\ e.op = "decide" => row.status = "under_review"
    /\ e.op = "reassign" => row.author # e.arg
    /\ e.op = "slot" => row.status = "decided"

LoadRow(e) ==
    /\ e.at = "sent" /\ AcceptsRow(e)
    /\ errands' = (errands \ {e}) \cup
           {[e EXCEPT !.at = IF Decides(e) \/ e.op = "slot" THEN "found" ELSE "loaded",
                      !.row = row]}
    /\ UNCHANGED <<row, verdict, held, heldVerdict, doneOps, behind, unread>>

\* A decision, or the outcome that must be the session's type, is read after the row.
LoadVerdict(e) ==
    /\ e.at = "found" /\ (e.op = "slot" => verdict.is = e.arg)
    /\ errands' = (errands \ {e}) \cup
           {[e EXCEPT !.at = "loaded", !.was = verdict.is, !.edition = verdict.edition]}
    /\ UNCHANGED <<row, verdict, held, heldVerdict, doneOps, behind, unread>>

\* The request's own change to a row: a column set to the value that was read
\* for it is not written.
StatusAfter(e, r) ==
    CASE e.op = "decide" -> "decided"
      [] e.op = "status" /\ e.arg # e.row.status -> e.arg
      [] e.op = "slot" -> "assigned_to_session"
      [] OTHER -> r.status

Written(e, r) ==
    IF e.op = "overrule" THEN r
    ELSE [status |-> StatusAfter(e, r), author |-> IF e.op = "reassign" THEN e.arg ELSE r.author,
          edition |-> r.edition + 1]

VerdictAfter(e) ==
    IF Decides(e) /\ e.arg # e.was THEN [is |-> e.arg, edition |-> verdict.edition + 1]
    ELSE verdict

\* A decision that was not there when it was looked for is inserted, and there is one at most.
SecondDecision(e) == Decides(e) /\ e.was = NoVerdict /\ verdict.is # NoVerdict

CommitErrand(e) ==
    /\ e.at = "loaded" /\ ~SecondDecision(e)
    /\ row' = Written(e, row) /\ verdict' = VerdictAfter(e)
    /\ errands' = (errands \ {e}) \cup
           {[e EXCEPT !.at = "done", !.row = Written(e, e.row),
                      !.edition = IF Decides(e) /\ e.arg # e.was THEN verdict'.edition ELSE e.edition,
                      !.mixed = row.edition # e.row.edition]}
    /\ UNCHANGED <<held, heldVerdict, doneOps, behind, unread>>

\* After a decision the submission is asked for.
ReadRow(e) ==
    /\ e.at = "asking"
    /\ errands' = (errands \ {e}) \cup {[e EXCEPT !.at = "read", !.row = row]}
    /\ UNCHANGED <<row, verdict, held, heldVerdict, doneOps, behind, unread>>

AskForRow(e) ==
    /\ e.at = "done" /\ Decides(e)
    /\ errands' = (errands \ {e}) \cup {[e EXCEPT !.at = "asking"]}
    /\ UNCHANGED <<row, verdict, held, heldVerdict, doneOps, behind, unread>>

Newer(a, b) == IF a > b THEN a ELSE b

ShowRow(r) == held' = [r EXCEPT !.edition = Newer(@, held.edition)]

StatusGuess(e) == [held EXCEPT !.status = "decided", !.edition = e.row.edition]
AnswerOf(e) == e.row

ShowDecision(e) ==
    /\ e.at = "read"
    /\ ShowRow(AnswerOf(e))
    /\ heldVerdict' = [is |-> e.arg, edition |-> Newer(e.edition, heldVerdict.edition)]
    /\ behind' = (behind \/ e.row.edition < held.edition \/ e.edition < heldVerdict.edition)
    /\ errands' = errands \ {e}
    /\ UNCHANGED <<row, verdict, doneOps, unread>>

ShowAnswer(e) ==
    /\ e.at = "done" /\ ~Decides(e) /\ e.op # "slot"
    /\ ShowRow(e.row)
    /\ behind' = (behind \/ e.mixed \/ e.row.edition < held.edition)
    /\ errands' = errands \ {e}
    /\ UNCHANGED <<row, verdict, heldVerdict, doneOps, unread>>

\* addSlot answers with the slot; the page goes on showing the submission it has.
ShowAssigned(e) ==
    /\ e.at = "done" /\ e.op = "slot"
    /\ errands' = errands \ {e}
    /\ unread' = TRUE
    /\ UNCHANGED <<row, verdict, held, heldVerdict, doneOps, behind>>

Effective == {"done", "asking", "read"}

\* A request is refused or lost, or an answer is lost after the effect.
ErrandFails(e) ==
    /\ errands' = errands \ {e}
    /\ unread' = (unread \/ e.at \in Effective)
    /\ UNCHANGED <<row, verdict, held, heldVerdict, doneOps, behind>>

DeskNext ==
    \/ \E o \in Verdict : OnDecide(o) \/ OnOverrideDecision(o)
    \/ \E s \in DeskStatus : OnOverride(s)
    \/ \E a \in Account4 : OnReassign(a)
    \/ HandleSavePresenter \/ OnAssign
    \/ \E e \in errands :
          \/ LoadRow(e) \/ LoadVerdict(e) \/ CommitErrand(e) \/ AskForRow(e) \/ ReadRow(e)
          \/ ShowDecision(e) \/ ShowAnswer(e) \/ ShowAssigned(e) \/ ErrandFails(e)

DeskSpec == DeskInit /\ [][DeskNext]_deskVars

-------------------------------------------------------------------------------
(* When nothing is on its way the page shows the submission and the decision  *)
(* as they are, whichever cards were used at once, with three exceptions: a   *)
(* request failed after its effect, or assigned the abstract to a session,    *)
(* which the page does not show; answers came in another order than the       *)
(* changes; or an answer was made of the row as it was read before another    *)
(* request changed it, and brings back what that one had changed.             *)
DeskSettles ==
    (errands = {} /\ ~unread /\ ~behind) =>
        held = row /\ heldVerdict = verdict
===============================================================================

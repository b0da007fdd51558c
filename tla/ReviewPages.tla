------------------------------ MODULE ReviewPages ------------------------------
(***************************************************************************)
(* The two pages that assign reviewers: the matrix of abstracts and        *)
(* reviewers, and the page of one abstract with its list of reviews.  Both *)
(* keep the reviews they were given and patch them after each answer.      *)
(***************************************************************************)
EXTENDS Naturals, FiniteSets

CONSTANTS
    Entry, Reader,   \* abstracts; people who may review
    OwnCell,         \* pairs of an abstract and its presenter
    MaxToggles

VARIABLES
    assigned,        \* the rows of reviews
    status3,         \* the status of each abstract
    issued,          \* ids given to reviews
    onMatrix,        \* the page is the matrix, not an abstract's
    heldReviews, heldStatus,   \* reviewList and subs
    busyCells,       \* the cells with a spinner
    cellCalls, toggles,
    finished,        \* reviews submitted while the page was open
    changedElse,     \* somebody else changed reviews, or an answer was lost
    erased           \* a submitted review was deleted without a warning

reviewVars == <<assigned, status3, issued, onMatrix, heldReviews, heldStatus, busyCells,
                cellCalls, toggles, finished, changedElse, erased>>

Open3 == {"submitted", "under_review"}
Cell == Entry \X Reader
CellOf(r) == r.cell
At(reviews, cell) == {r \in reviews : r.cell = cell}

ReviewsInit ==
    /\ \E some \in SUBSET (Cell \ OwnCell) :
          assigned = {[cell |-> cell, id |-> 0, done |-> FALSE] : cell \in some}
    /\ Cardinality(assigned) <= 1
    /\ status3 \in [Entry -> Open3 \cup {"decided"}]
    /\ \A r \in assigned : status3[r.cell[1]] # "submitted"
    /\ issued = 1
    /\ onMatrix \in BOOLEAN
    /\ heldReviews = assigned /\ heldStatus = status3
    /\ busyCells = {} /\ cellCalls = {} /\ toggles = 0
    /\ finished = {} /\ changedElse = FALSE /\ erased = FALSE

\* cellState, and what the page of an abstract offers: every reviewer without a
\* review, whatever the status and whoever presents.
CellState(cell) ==
    CASE onMatrix /\ cell \in OwnCell -> "own"
      [] At(heldReviews, cell) # {} ->
            IF \E r \in At(heldReviews, cell) : r.done THEN "completed" ELSE "pending"
      [] onMatrix /\ heldStatus[cell[1]] \notin Open3 -> "locked"
      [] OTHER -> "assignable"

Send3(call) ==
    /\ toggles < MaxToggles /\ toggles' = toggles + 1
    /\ cellCalls' = cellCalls \cup {call}
    /\ busyCells' = IF onMatrix THEN busyCells \cup {call.cell} ELSE busyCells
    /\ UNCHANGED <<assigned, status3, issued, onMatrix, heldReviews, heldStatus, finished,
                   changedElse, erased>>

NoReview == [cell |-> <<>>, id |-> 0, done |-> FALSE]
Toggled(cell, op, review, warned) ==
    [n |-> toggles, cell |-> cell, op |-> op, review |-> review, warned |-> warned, at |-> "sent",
     seen |-> heldReviews, submitted |-> heldStatus[cell[1]] = "submitted"]

AssignCell(cell) ==
    /\ cell \notin busyCells /\ CellState(cell) = "assignable"
    /\ ~onMatrix => \A c \in cellCalls : c.op # "assign"
    /\ Send3(Toggled(cell, "assign", NoReview, FALSE))

\* A submitted review is only unassigned after a warning was confirmed.
NoWarning(r) == FALSE
Warning(r) == r.done
UnassignCell(cell) ==
    /\ cell \notin busyCells
    /\ \E r \in At(heldReviews, cell) : Send3(Toggled(cell, "unassign", r, Warning(r)))

-------------------------------------------------------------------------------
Answer3(c, at, review) ==
    cellCalls' = (cellCalls \ {c}) \cup {[c EXCEPT !.at = at, !.review = review]}

\* assign_reviewer and unassign_reviewer.
MayAssign(cell) ==
    status3[cell[1]] \in Open3 /\ cell \notin OwnCell /\ At(assigned, cell) = {}

ServeAssign(c) ==
    /\ c.op = "assign" /\ c.at = "sent"
    /\ \/ /\ MayAssign(c.cell)
          /\ LET r == [cell |-> c.cell, id |-> issued, done |-> FALSE]
             IN assigned' = assigned \cup {r} /\ Answer3(c, "done", r)
          /\ issued' = issued + 1
          /\ status3' = [status3 EXCEPT ![c.cell[1]] = "under_review"]
       \/ /\ ~MayAssign(c.cell)
          /\ Answer3(c, "refused", NoReview)
          /\ UNCHANGED <<assigned, issued, status3>>
    /\ UNCHANGED <<onMatrix, heldReviews, heldStatus, busyCells, toggles, finished, changedElse,
                   erased>>

ServeUnassign(c) ==
    /\ c.op = "unassign" /\ c.at = "sent"
    /\ LET same == {r \in assigned : r.id = c.review.id /\ r.cell = c.cell}
       IN /\ assigned' = assigned \ same
          /\ Answer3(c, IF same = {} THEN "refused" ELSE "done", c.review)
          /\ erased' = (erased \/ \E r \in same : r.done /\ ~c.warned /\ r \notin finished)
    /\ UNCHANGED <<status3, issued, onMatrix, heldReviews, heldStatus, busyCells, toggles,
                   finished, changedElse>>

\* The patches are of the list as it is by now (prev), not as the click saw it.
FromTheClosure(c) == c.seen
AsItIs(c) == heldReviews
Patched(c) == AsItIs(c)

CellAnswered(c) ==
    /\ c.at = "done"
    /\ cellCalls' = cellCalls \ {c}
    /\ busyCells' = busyCells \ {c.cell}
    /\ heldReviews' = IF c.op = "assign" THEN Patched(c) \cup {c.review}
                      ELSE {r \in Patched(c) : r.id # c.review.id \/ r.cell # c.cell}
    /\ heldStatus' = IF c.op = "assign" /\ c.submitted /\ onMatrix
                     THEN [heldStatus EXCEPT ![c.cell[1]] = "under_review"] ELSE heldStatus
    /\ UNCHANGED <<assigned, status3, issued, onMatrix, toggles, finished, changedElse, erased>>

CellRefused(c) ==
    /\ c.at \in {"refused", "done"}
    /\ cellCalls' = cellCalls \ {c}
    /\ busyCells' = busyCells \ {c.cell}
    /\ changedElse' = (changedElse \/ c.at = "done")
    /\ UNCHANGED <<assigned, status3, issued, onMatrix, heldReviews, heldStatus, toggles, finished,
                   erased>>

\* A reviewer submits; the committee decides.
ReviewerSubmits(r) ==
    /\ ~r.done
    /\ assigned' = (assigned \ {r}) \cup {[r EXCEPT !.done = TRUE]}
    /\ finished' = finished \cup {[r EXCEPT !.done = TRUE]}
    /\ UNCHANGED <<status3, issued, onMatrix, heldReviews, heldStatus, busyCells, cellCalls,
                   toggles, changedElse, erased>>

CommitteeDecides(s) ==
    /\ status3[s] = "under_review"
    /\ status3' = [status3 EXCEPT ![s] = "decided"]
    /\ changedElse' = TRUE
    /\ UNCHANGED <<assigned, issued, onMatrix, heldReviews, heldStatus, busyCells, cellCalls,
                   toggles, finished, erased>>

\* The page is opened again.
ReadAgain ==
    /\ cellCalls = {}
    /\ heldReviews' = assigned /\ heldStatus' = status3
    /\ finished' = {} /\ changedElse' = FALSE
    /\ UNCHANGED <<assigned, status3, issued, onMatrix, busyCells, cellCalls, toggles, erased>>

ReviewsNext ==
    \/ ReadAgain
    \/ \E cell \in Cell : AssignCell(cell) \/ UnassignCell(cell)
    \/ \E c \in cellCalls : ServeAssign(c) \/ ServeUnassign(c) \/ CellAnswered(c) \/ CellRefused(c)
    \/ \E r \in assigned : ReviewerSubmits(r)
    \/ \E s \in Entry : CommitteeDecides(s)

ReviewsSpec == ReviewsInit /\ [][ReviewsNext]_reviewVars

-------------------------------------------------------------------------------
(* When nothing is on its way the reviews on the page are those of the server *)
(* apart from what reviewers submitted meanwhile, however many cells were     *)
(* toggled at the same time; so are the statuses on the matrix, though not on *)
(* the page of an abstract, which does not show that assigning a reviewer     *)
(* began its review.                                                          *)
ReviewsShown ==
    (cellCalls = {} /\ ~changedElse) =>
        /\ {r.id : r \in heldReviews} = {r.id : r \in assigned}
        /\ \A r \in assigned : r \in heldReviews \cup finished
        /\ onMatrix => heldStatus = status3

(* Feedback a reviewer has submitted is never deleted without the warning,    *)
(* unless it was submitted after the page had been loaded.                    *)
FeedbackNotErased == ~erased
===============================================================================

----------------------------- MODULE SessionEditor -----------------------------
(***************************************************************************)
(* The page of one session: its slots in their order, and the submissions  *)
(* that may be added.  Every operation ends by replacing the whole session *)
(* the page holds with the one in the answer; adding a slot asks for it in *)
(* a second request, and removing a talk asks again for the submissions.   *)
(*                                                                         *)
(* A handler loads what it checks, commits later without a lock on what it *)
(* has loaded, and reads the session for its answer later still.  It       *)
(* renumbers the slots relative to the orders they have at the commit, but *)
(* from the order its own slot had when it was loaded, and nothing that it *)
(* holds already is read again: the answer tells the place of its own slot *)
(* from memory, and that to a publish the whole line-up.  (A range update  *)
(* and its commit are one step.)                                           *)
(***************************************************************************)
EXTENDS Integers, FiniteSets

CONSTANTS
    Talk,        \* submissions whose decision matches the session's type
    OtherTalk,   \* submissions decided for another type
    Pause,       \* what is in a slot without a submission: Q&A, discussion
    MaxSteps     \* operations begun on the page

VARIABLES
    lineup,      \* the rows of session_slots of the session
    stage,       \* the status of each submission
    edition,     \* the version of the line-up: how often it was changed
    heldLineup,  \* setSession
    heldEdition, \* the edition of the newest line-up the page has held
    assignable,  \* decidedSubmissions
    steps,       \* the operations on their way
    begunSteps,
    elsewhere,   \* a request failed after it had taken effect
    olderLast,   \* the answer heard last was older than one before, or mixed
    removing     \* a talk was removed while another operation was on its way

editorVars == <<lineup, stage, edition, heldLineup, heldEdition, assignable, steps, begunSteps,
                elsewhere, olderLast, removing>>

Submission == Talk \cup OtherTalk

\* A slot is known by an id: by what is in it and the addition that made it.
Slot == [item : Submission \cup Pause, n : Nat]
NoSlot == [item |-> "none", n |-> 0]
SlotRow == [slot : Slot, order : Int]
Lines(rows) == {x.slot.item : x \in rows}
RowOf(rows, slot) == {x \in rows : x.slot = slot}

\* assignableSubmissions(): decided, not in a slot here, of the session's type.
AssignableSubmissions(decided, rows) == (decided \ Lines(rows)) \cap Talk
Decided == {t \in Submission : stage[t] = "decided"}

EditorInit ==
    /\ lineup \in SUBSET [slot : [item : Talk \cup Pause, n : {0}],
                          order : 1 .. Cardinality(Talk \cup Pause)]
    /\ \A x, y \in lineup : x # y => x.slot # y.slot /\ x.order # y.order
    /\ stage \in [Submission -> {"decided", "assigned_to_session", "under_review"}]
    /\ \A t \in Submission : stage[t] = "assigned_to_session" <=> t \in Lines(lineup)
    /\ edition = 0
    /\ heldLineup = lineup /\ heldEdition = 0
    /\ assignable = AssignableSubmissions(Decided, lineup)
    /\ steps = {} /\ begunSteps = 0
    /\ elsewhere = FALSE /\ olderLast = FALSE /\ removing = FALSE

Step(n, op, slot, place) ==
    [n |-> n, op |-> op, slot |-> slot, place |-> place, at |-> "sent", order |-> 0,
     session |-> {}, edition |-> 0, mixed |-> FALSE, decided |-> {}]

\* A number tells a request from those of the same kind for the same slot.
Start(op, slot, place) ==
    /\ begunSteps < MaxSteps /\ begunSteps' = begunSteps + 1
    /\ LET taken == {s.n : s \in {r \in steps : r.op = op /\ r.slot = slot}}
       IN \E n \in 0 .. MaxSteps : /\ n \notin taken /\ 0 .. n - 1 \subseteq taken
                                  /\ steps' = steps \cup {Step(n, op, slot, place)}
    /\ removing' = (removing \/ \E s \in steps : "remove" \in {op, s.op})
    /\ UNCHANGED <<lineup, stage, edition, heldLineup, heldEdition, assignable, elsewhere,
                   olderLast>>

Places == 1 .. Cardinality(heldLineup) + 1

\* The forms; isSubmitting allows one addition at a time.
OnAddSlot(item, place) ==
    /\ ~\E s \in steps : s.op = "add"
    /\ item \in assignable \cup Pause
    /\ Start("add", [item |-> item, n |-> begunSteps + 1], place)

\* The arrows name the order of the neighbour as the page shows it.
MoveTo(x, y) ==
    /\ x # y
    /\ \A z \in heldLineup : /\ ~(x.order < z.order /\ z.order < y.order)
                             /\ ~(y.order < z.order /\ z.order < x.order)
    /\ Start("move", x.slot, y.order)

\* The panel of a slot takes any order.
EditOrder(x, place) == Start("move", x.slot, place)

\* Publishing changes no slot, and is answered by the whole session too.
HandleTogglePublishHere ==
    /\ ~\E s \in steps : s.op = "publish"
    /\ Start("publish", NoSlot, 0)

HandleRemoveSlot(x) == Start("remove", x.slot, 0)

\* What the handlers check.
Allowed(s) ==
    CASE s.op = "add" -> \/ s.slot.item \in (Decided \cap Talk) \ Lines(lineup)
                         \/ s.slot.item \in Pause
      [] s.op = "publish" -> TRUE
      [] OTHER -> RowOf(lineup, s.slot) # {}

\* A handler loads its slot with its order and its submission; that of a publish
\* the session with its slots, which are its answer.
Load(s) ==
    /\ s.at = "sent" /\ Allowed(s)
    /\ \E q \in IF s.op = "publish"
                THEN {[s EXCEPT !.at = "done", !.session = lineup, !.edition = edition]}
                ELSE {[s EXCEPT !.at = "loaded", !.order = o, !.decided = Decided] :
                        o \in IF s.op = "add" THEN {0} ELSE {x.order : x \in RowOf(lineup, s.slot)}} :
          steps' = (steps \ {s}) \cup {q}
    /\ UNCHANGED <<lineup, stage, edition, heldLineup, heldEdition, assignable, begunSteps,
                   elsewhere, olderLast, removing>>

Shifted(rows, part, by) ==
    (rows \ part) \cup {[x EXCEPT !.order = @ + by] : x \in part}
Set(rows, order) == {[x EXCEPT !.order = order] : x \in rows}

\* What a request does to the rows there are when it commits.
Put(s) ==
    Shifted(lineup, {x \in lineup : x.order >= s.place}, 1) \cup {[slot |-> s.slot, order |-> s.place]}

Without(s) ==
    LET rest == lineup \ RowOf(lineup, s.slot)
    IN Shifted(rest, {x \in rest : x.order > s.order}, -1)

Placed(s) ==
    LET own == RowOf(lineup, s.slot)
        rest == lineup \ own
        up == {x \in rest : s.place <= x.order /\ x.order < s.order}
        down == {x \in rest : s.order < x.order /\ x.order <= s.place}
    IN Shifted(Shifted(rest, up, 1), down, -1) \cup Set(own, s.place)

Changed(s) ==
    CASE s.op = "add" -> Put(s)
      [] s.op = "remove" -> Without(s)
      [] s.op = "move" /\ s.place # s.order -> Placed(s)
      [] OTHER -> lineup

\* A slot that is gone cannot be moved; removing it again renumbers again.
SlotThere(s) == s.op = "move" /\ s.place # s.order => RowOf(lineup, s.slot) # {}

Commit(s) ==
    /\ s.at = "loaded" /\ SlotThere(s)
    /\ lineup' = Changed(s)
    /\ stage' = [t \in Submission |->
                    IF t = s.slot.item /\ s.op = "add" THEN "assigned_to_session"
                    ELSE IF t = s.slot.item /\ s.op = "remove" /\ t \notin s.decided THEN "decided"
                    ELSE stage[t]]
    /\ edition' = IF lineup' = lineup THEN edition ELSE edition + 1
    /\ steps' = (steps \ {s}) \cup {[s EXCEPT !.at = "written"]}
    /\ UNCHANGED <<heldLineup, heldEdition, assignable, begunSteps, elsewhere, olderLast,
                   removing>>

\* The line-up as it is read for the answer, or asked for by the page once it
\* has the answer to an addition.
Answer(s) ==
    IF s.op = "move"
    THEN (lineup \ RowOf(lineup, s.slot)) \cup Set(RowOf(lineup, s.slot), s.place) ELSE lineup

ReadBack(s) ==
    /\ s.at = "written"
    /\ steps' = (steps \ {s}) \cup {[s EXCEPT !.at = "done", !.session = Answer(s),
                                              !.edition = edition, !.mixed = (Answer(s) # lineup)]}
    /\ UNCHANGED <<lineup, stage, edition, heldLineup, heldEdition, assignable, begunSteps,
                   elsewhere, olderLast, removing>>

\* Refused, for instance because the session is full or the slot is gone, or an
\* answer that never comes.
Fail(s) ==
    /\ steps' = steps \ {s}
    /\ elsewhere' = (elsewhere \/ s.at \notin {"sent", "loaded"})
    /\ UNCHANGED <<lineup, stage, edition, heldLineup, heldEdition, assignable, begunSteps,
                   olderLast, removing>>

\* setSession with what the answer carries.
OnlyTheItem(s) == IF s.op = "move" THEN heldLineup ELSE s.session
WholeSession(s) == s.session
Hold(s) ==
    /\ heldLineup' = WholeSession(s)
    /\ heldEdition' = IF s.edition > heldEdition THEN s.edition ELSE heldEdition
    /\ olderLast' = (s.edition < heldEdition \/ s.mixed)

Added(s) ==
    /\ s.at = "done" /\ s.op = "add"
    /\ Hold(s)
    /\ assignable' = assignable \ {s.slot.item}
    /\ steps' = steps \ {s}
    /\ UNCHANGED <<lineup, stage, edition, begunSteps, elsewhere, removing>>

Moved(s) ==
    /\ s.at = "done" /\ s.op \in {"move", "publish"}
    /\ Hold(s)
    /\ steps' = steps \ {s}
    /\ UNCHANGED <<lineup, stage, edition, assignable, begunSteps, elsewhere, removing>>

\* A talk that was removed may be added again, once the lists are read again.
Removed(s) ==
    /\ s.at = "done" /\ s.op = "remove"
    /\ Hold(s)
    /\ steps' = (steps \ {s})
                \cup (IF s.slot.item \in Submission THEN {[s EXCEPT !.at = "reading"]} ELSE {})
    /\ UNCHANGED <<lineup, stage, edition, assignable, begunSteps, elsewhere, removing>>

ListsRead(s) ==
    /\ s.at = "reading" /\ s.op = "remove"
    /\ steps' = (steps \ {s}) \cup {[s EXCEPT !.at = "read", !.decided = Decided]}
    /\ UNCHANGED <<lineup, stage, edition, heldLineup, heldEdition, assignable, begunSteps,
                   elsewhere, olderLast, removing>>

LocalPatch(s) == assignable
Rederived(s) == AssignableSubmissions(s.decided, s.session)

ListsShown(s) ==
    /\ s.at = "read" /\ s.op = "remove"
    /\ assignable' = Rederived(s)
    /\ steps' = steps \ {s}
    /\ UNCHANGED <<lineup, stage, edition, heldLineup, heldEdition, begunSteps, elsewhere,
                   olderLast, removing>>

EditorNext ==
    \/ \E item \in Submission \cup Pause, place \in Places : OnAddSlot(item, place)
    \/ \E x, y \in heldLineup : MoveTo(x, y)
    \/ \E x \in heldLineup : HandleRemoveSlot(x) \/ \E place \in Places : EditOrder(x, place)
    \/ HandleTogglePublishHere
    \/ \E s \in steps :
          \/ Load(s) \/ Commit(s) \/ ReadBack(s) \/ Fail(s) \/ Added(s)
          \/ Moved(s) \/ Removed(s) \/ ListsRead(s) \/ ListsShown(s)

EditorSpec == EditorInit /\ [][EditorNext]_editorVars

-------------------------------------------------------------------------------
(* When nothing is on its way the page shows the line-up the server has,      *)
(* however the arrows, additions, removals and publishing overlapped, with    *)
(* three exceptions: the answer heard last is older than what the page        *)
(* already showed (an answer overtaken on its way, and that to a publish,     *)
(* which carries the line-up as it was before the publish was checked); it    *)
(* shows a moved slot where its request put it, though another has renumbered *)
(* it since; and a request whose effect was not seen failed.                  *)
LineupShown ==
    (steps = {} /\ ~elsewhere /\ ~olderLast) => heldLineup = lineup

(* The submissions offered are those the server would accept: what was added  *)
(* is gone from the list and what was removed is back in it, unless a removal *)
(* overlapped another operation.                                              *)
OfferedIsAssignable ==
    (steps = {} /\ ~elsewhere /\ ~removing) =>
        assignable = {t \in Talk : stage[t] = "decided" /\ t \notin Lines(lineup)}
===============================================================================

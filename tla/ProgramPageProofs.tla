-------------------------- MODULE ProgramPageProofs ---------------------------
(***************************************************************************)
(* Proofs about the pages the program is made on: the line-up of one       *)
(* session, the list of sessions and the templates; for every set of       *)
(* sessions, submissions and templates and any number of requests,         *)
(* whatever order their answers come in.                                   *)
(***************************************************************************)
EXTENDS SessionEditor, SessionsPage, TemplatesPage, TLAPS

-------------------------------------------------------------------------------
(* The page of one session. *)

EditStep ==
    [n : Nat, op : {"add", "move", "remove", "publish"}, slot : Slot \cup {NoSlot}, place : Int,
     at : {"sent", "loaded", "written", "done", "reading", "read"}, order : Int,
     session : SUBSET SlotRow, edition : Nat, mixed : BOOLEAN, decided : SUBSET Submission]

EditorTyped ==
    /\ lineup \in SUBSET SlotRow /\ heldLineup \in SUBSET SlotRow
    /\ edition \in Nat /\ heldEdition \in Nat /\ begunSteps \in Nat
    /\ assignable \subseteq Talk
    /\ steps \in SUBSET EditStep
    /\ \A s \in steps : s.op = "add" => s.slot \in Slot

\* Will bring the page the line-up as it is now.
BringsSession(s) == s.at = "written" \/ (s.at = "done" /\ s.edition = edition)

\* A line-up of the current edition is the current one, unless its own slot is out
\* of place.
EditionsTell ==
    /\ \A s \in steps : s.at = "done" =>
           s.edition <= edition /\ (s.edition = edition /\ ~s.mixed => s.session = lineup)
    /\ heldEdition <= edition
    /\ ~olderLast /\ heldEdition = edition => heldLineup = lineup
    /\ ~elsewhere => heldEdition = edition \/ \E s \in steps : BringsSession(s)

Offerable == {t \in Talk : stage[t] = "decided" /\ t \notin Lines(lineup)}

\* What has been added and is still offered.
Coming(s) == s.op = "add" /\ s.at \in {"written", "done"}
BringsItem(s, x) == Coming(s) /\ s.slot.item = x
Entering == {s.slot.item : s \in {a \in steps : Coming(a)}}

\* A removal that nothing overlaps is the only operation, and is sure to read
\* the lists after it has taken a talk out.
Removing(s) ==
    /\ steps = {s}
    /\ s.at \in {"sent", "loaded"} \/ s.slot.item \notin Submission => assignable = Offerable
    /\ s.at \in {"done", "reading", "read"} => s.session = lineup
    /\ s.at \in {"reading", "read"} => s.slot.item \in Submission
    /\ s.at = "read" => s.decided = Decided

OffersFollow ==
    (~removing /\ ~elsewhere) =>
        /\ \A s \in steps : s.op = "remove" => Removing(s)
        /\ (\A s \in steps : s.op # "remove") =>
               assignable \ Entering = Offerable /\ Entering \cap Offerable = {}

EditorInv == EditorTyped /\ EditionsTell /\ OffersFollow

\* What a line-up holds does not depend on its orders.
LEMMA ShiftedLines ==
    ASSUME NEW rows \in SUBSET SlotRow, NEW part \in SUBSET rows, NEW by \in Int
    PROVE  Shifted(rows, part, by) \in SUBSET SlotRow /\ Lines(Shifted(rows, part, by)) = Lines(rows)
<1> DEFINE Moved1(x) == [x EXCEPT !.order = x.order + by]
<1>1. \A x \in part : Moved1(x) \in SlotRow /\ Moved1(x).slot = x.slot
  BY DEF SlotRow
<1>2. Shifted(rows, part, by) = (rows \ part) \cup {Moved1(x) : x \in part}
  BY DEF Shifted
<1> HIDE DEF Moved1
<1>3. PICK new : new = (rows \ part) \cup {Moved1(x) : x \in part}
  OBVIOUS
<1>4. new \in SUBSET SlotRow
  BY <1>1, <1>3
<1>5. \A x \in new : \E y \in rows : x.slot = y.slot
  BY <1>1, <1>3
<1>6. \A y \in rows : \E x \in new : x.slot = y.slot
  BY <1>1, <1>3
<1>7. Lines(new) = Lines(rows)
  BY <1>5, <1>6 DEF Lines
<1> QED
  BY <1>2, <1>3, <1>4, <1>7

LEMMA SetLines ==
    ASSUME NEW rows \in SUBSET SlotRow, NEW order \in Int
    PROVE  Set(rows, order) \in SUBSET SlotRow /\ Lines(Set(rows, order)) = Lines(rows)
<1> DEFINE At(x) == [x EXCEPT !.order = order]
<1>1. \A x \in rows : At(x) \in SlotRow /\ At(x).slot = x.slot
  BY DEF SlotRow
<1>2. Set(rows, order) = {At(x) : x \in rows}
  BY DEF Set
<1> HIDE DEF At
<1>3. PICK new : new = {At(x) : x \in rows}
  OBVIOUS
<1>4. new \in SUBSET SlotRow
  BY <1>1, <1>3
<1>5. (\A x \in new : \E y \in rows : x.slot = y.slot) /\ \A y \in rows : \E x \in new : x.slot = y.slot
  BY <1>1, <1>3
<1>6. Lines(new) = Lines(rows)
  BY <1>5 DEF Lines
<1> QED
  BY <1>2, <1>3, <1>4, <1>6

LEMMA JoinedLines == ASSUME NEW a, NEW b PROVE Lines(a \cup b) = Lines(a) \cup Lines(b)
  BY DEF Lines

LEMMA Enters ==
    /\ \A x : x \in Entering <=> \E a \in steps : BringsItem(a, x)
    /\ (\A x : x \in Entering <=> \E a \in steps : BringsItem(a, x))'
  BY DEF Entering, Coming, BringsItem

LEMMA InitEditorInv == ASSUME EditorInit PROVE EditorInv
<1>1. lineup \in SUBSET SlotRow
  <2>1. lineup \in SUBSET [slot : [item : Talk \cup Pause, n : {0}],
                           order : 1 .. Cardinality(Talk \cup Pause)]
    BY DEF EditorInit
  <2>2. ASSUME NEW x \in lineup PROVE x \in SlotRow
    <3>1. PICK slot \in [item : Talk \cup Pause, n : {0}],
               order \in 1 .. Cardinality(Talk \cup Pause) : x = [slot |-> slot, order |-> order]
      BY <2>1
    <3>2. slot \in Slot
      BY DEF Slot, Submission
    <3>3. order \in Int
      OBVIOUS
    <3> QED
      BY <3>1, <3>2, <3>3 DEF SlotRow
  <2> QED
    BY <2>2
<1>2. /\ edition = 0 /\ heldLineup = lineup /\ heldEdition = 0 /\ steps = {} /\ begunSteps = 0
      /\ assignable = (Decided \ Lines(lineup)) \cap Talk
  BY DEF EditorInit, AssignableSubmissions
<1>3. assignable = Offerable
  BY <1>2 DEF Decided, Offerable, Submission
<1>4. EditorTyped
  BY <1>1, <1>2 DEF EditorTyped
<1>5. EditionsTell
  BY <1>2 DEF EditionsTell
<1>6. Entering = {}
  BY <1>2 DEF Entering
<1> QED
  BY <1>2, <1>3, <1>4, <1>5, <1>6 DEF EditorInv, OffersFollow

LEMMA MarkedStep ==
    ASSUME NEW s \in EditStep, NEW at \in {"written", "reading"}
    PROVE  LET q == [s EXCEPT !.at = at] IN
           /\ q \in EditStep /\ q.op = s.op /\ q.slot = s.slot /\ q.at = at
           /\ q.session = s.session /\ q.edition = s.edition /\ q.decided = s.decided
  BY DEF EditStep

LEMMA StartKeeps ==
    ASSUME EditorInv, NEW op \in {"add", "move", "remove", "publish"}, NEW slot \in Slot \cup {NoSlot},
           NEW order \in Int, op = "add" => slot \in Slot,
           Start(op, slot, order)
    PROVE  EditorInv'
<1> USE DEF EditorInv
<1>1. PICK n \in Nat : steps' = steps \cup {Step(n, op, slot, order)}
  BY DEF Start
<1> DEFINE q == Step(n, op, slot, order)
<1>4. q \in EditStep /\ q.op = op /\ q.slot = slot /\ q.at = "sent"
  BY DEF EditStep, Step
<1>5. /\ steps' = steps \cup {q} /\ begunSteps' = begunSteps + 1
      /\ UNCHANGED <<lineup, stage, edition, heldLineup, heldEdition, assignable, elsewhere, olderLast>>
      /\ ~removing' => ~removing /\ \A s \in steps : op # "remove" /\ s.op # "remove"
  BY <1>1 DEF Start
<1> HIDE DEF q
<1>6. EditorTyped'
  BY <1>4, <1>5 DEF EditorTyped
<1>7. EditionsTell'
  <2>1. \A s \in steps' : s.at = "done" =>
            s.edition <= edition' /\ (s.edition = edition' /\ ~s.mixed => s.session = lineup')
    BY <1>4, <1>5 DEF EditionsTell
  <2>2. ~elsewhere' => heldEdition' = edition' \/ \E s \in steps' : BringsSession(s)'
    BY <1>5 DEF EditionsTell, BringsSession
  <2> QED
    BY <1>5, <2>1, <2>2 DEF EditionsTell
<1>8. OffersFollow'
  <2> SUFFICES ASSUME ~removing', ~elsewhere' PROVE OffersFollow'
    BY DEF OffersFollow
  <2>1. Offerable' = Offerable
    BY <1>5 DEF Offerable
  <2>2. Entering' = Entering
    <3>1. \A x : x \in Entering' <=> x \in Entering
      BY <1>4, <1>5, Enters DEF Coming, BringsItem
    <3> QED
      BY <3>1
  <2>3. assignable \ Entering = Offerable /\ Entering \cap Offerable = {}
    BY <1>5 DEF OffersFollow
  <2>4. CASE op = "remove"
    <3>1. steps = {} /\ steps' = {q}
      BY <1>5, <2>4
    <3>2. \A x : x \notin Entering
      BY <3>1, Enters
    <3>3. Removing(q)'
      BY <1>4, <1>5, <2>1, <2>3, <3>1, <3>2 DEF Removing
    <3> QED
      BY <1>4, <2>4, <3>1, <3>3 DEF OffersFollow
  <2>5. CASE op # "remove"
    <3>1. \A s \in steps' : s.op # "remove"
      BY <1>4, <1>5, <2>5
    <3> QED
      BY <1>5, <2>1, <2>2, <2>3, <3>1 DEF OffersFollow
  <2> QED
    BY <2>4, <2>5
<1> QED
  BY <1>6, <1>7, <1>8

LEMMA BeginKeeps ==
    ASSUME EditorInv,
           \/ \E item \in Submission \cup Pause, order \in Places : OnAddSlot(item, order)
           \/ \E x, y \in heldLineup : MoveTo(x, y)
           \/ \E x \in heldLineup : HandleRemoveSlot(x) \/ \E order \in Places : EditOrder(x, order)
           \/ HandleTogglePublishHere
    PROVE  EditorInv'
<1>1. \A x \in heldLineup : x.slot \in Slot /\ x.order \in Int
  BY DEF EditorInv, EditorTyped, SlotRow
<1>2. CASE \E item \in Submission \cup Pause, order \in Places : OnAddSlot(item, order)
  <2>1. PICK item \in Submission \cup Pause, order \in Places :
            Start("add", [item |-> item, n |-> begunSteps + 1], order)
    BY <1>2 DEF OnAddSlot
  <2>2. order \in Int
    BY DEF Places
  <2>3. [item |-> item, n |-> begunSteps + 1] \in Slot
    BY DEF Slot, EditorInv, EditorTyped
  <2> QED
    BY <2>1, <2>2, <2>3, StartKeeps
<1>3. CASE \E x, y \in heldLineup : MoveTo(x, y)
  <2>1. PICK x \in heldLineup, y \in heldLineup : Start("move", x.slot, y.order)
    BY <1>3 DEF MoveTo
  <2> QED
    BY <1>1, <2>1, StartKeeps
<1>4. CASE \E x \in heldLineup : HandleRemoveSlot(x) \/ \E order \in Places : EditOrder(x, order)
  <2>1. PICK x \in heldLineup : HandleRemoveSlot(x) \/ \E order \in Places : EditOrder(x, order)
    BY <1>4
  <2>2. CASE HandleRemoveSlot(x)
    BY <1>1, <2>2, StartKeeps DEF HandleRemoveSlot
  <2>3. CASE \E order \in Places : EditOrder(x, order)
    BY <1>1, <2>3, StartKeeps DEF EditOrder, Places
  <2> QED
    BY <2>1, <2>2, <2>3
<1>5. CASE HandleTogglePublishHere
  <2>1. Start("publish", NoSlot, 0)
    BY <1>5 DEF HandleTogglePublishHere
  <2> QED
    BY <2>1, StartKeeps
<1> QED
  BY <1>2, <1>3, <1>4, <1>5

\* What a request does to the line-up and to what may be added.
LEMMA Carried ==
    ASSUME EditorInv, NEW s \in steps
    PROVE  /\ Changed(s) \in SUBSET SlotRow
           /\ s.op = "add" => Lines(Changed(s)) = Lines(lineup) \cup {s.slot.item}
           /\ s.op = "remove" => /\ Lines(Changed(s)) \subseteq Lines(lineup)
                                 /\ Lines(lineup) \ {s.slot.item} \subseteq Lines(Changed(s))
           /\ s.op \in {"move", "publish"} => Lines(Changed(s)) = Lines(lineup)
<1>1. /\ lineup \in SUBSET SlotRow /\ s \in EditStep /\ (s.op = "add" => s.slot \in Slot)
      /\ s.place \in Int /\ s.op \in {"add", "move", "remove", "publish"}
  BY DEF EditorInv, EditorTyped, EditStep
<1>2. CASE s.op = "add"
  <2>1. PICK part \in SUBSET lineup : part = {x \in lineup : x.order >= s.place}
    OBVIOUS
  <2>2. PICK old \in SUBSET SlotRow : old = Shifted(lineup, part, 1) /\ Lines(old) = Lines(lineup)
    <3>1. Shifted(lineup, part, 1) \in SUBSET SlotRow /\ Lines(Shifted(lineup, part, 1)) = Lines(lineup)
      BY <1>1, ShiftedLines
    <3> QED
      BY <3>1
  <2>3. PICK own : own = {[slot |-> s.slot, order |-> s.place]}
    OBVIOUS
  <2>4. own \in SUBSET SlotRow /\ Lines(own) = {s.slot.item}
    BY <1>1, <1>2, <2>3 DEF SlotRow, Lines
  <2>5. Changed(s) = old \cup own
    BY <1>2, <2>1, <2>2, <2>3 DEF Changed, Put
  <2>6. Lines(old \cup own) = Lines(lineup) \cup {s.slot.item}
    BY <2>2, <2>4, JoinedLines
  <2> QED
    BY <1>2, <2>4, <2>5, <2>6
<1> DEFINE own == RowOf(lineup, s.slot)
           rest == lineup \ own
<1>3. own \in SUBSET SlotRow /\ rest \in SUBSET SlotRow /\ lineup = rest \cup own
  BY <1>1 DEF RowOf
<1>4. Lines(own) \subseteq {s.slot.item} /\ Lines(lineup) = Lines(rest) \cup Lines(own)
  <2>1. Lines(own) \subseteq {s.slot.item}
    BY DEF RowOf, Lines
  <2> QED
    BY <1>3, <2>1, JoinedLines
<1> HIDE DEF own, rest
<1>5. CASE s.op = "remove"
  <2>1. PICK part \in SUBSET rest : part = {x \in rest : x.order > s.order}
    OBVIOUS
  <2>2. Shifted(rest, part, -1) \in SUBSET SlotRow /\ Lines(Shifted(rest, part, -1)) = Lines(rest)
    BY <1>3, ShiftedLines
  <2>3. Changed(s) = Shifted(rest, part, -1)
    BY <1>5, <2>1 DEF Changed, Without, rest, own
  <2> QED
    BY <1>4, <1>5, <2>2, <2>3
<1>6. CASE s.op = "move" /\ s.place # s.order
  <2>1. PICK up \in SUBSET rest : up = {x \in rest : s.place <= x.order /\ x.order < s.order}
    OBVIOUS
  <2>2. PICK down \in SUBSET rest : down = {x \in rest : s.order < x.order /\ x.order <= s.place}
    OBVIOUS
  <2>3. PICK new \in SUBSET SlotRow : new = Shifted(rest, up, 1) /\ Lines(new) = Lines(rest)
    BY <1>3, ShiftedLines
  <2>4. down \subseteq new
    <3>1. down \cap up = {}
      <4>1. \A x \in rest : x.order \in Int
        BY <1>3 DEF SlotRow
      <4>2. s.order \in Int
        BY <1>1 DEF EditStep
      <4> QED
        BY <2>1, <2>2, <4>1, <4>2
    <3> QED
      BY <2>3, <3>1 DEF Shifted
  <2>5. PICK all \in SUBSET SlotRow : all = Shifted(new, down, -1) /\ Lines(all) = Lines(rest)
    BY <2>3, <2>4, ShiftedLines
  <2>6. PICK put \in SUBSET SlotRow : put = Set(own, s.place) /\ Lines(put) = Lines(own)
    BY <1>1, <1>3, SetLines
  <2>7. Changed(s) = all \cup put
    BY <1>6, <2>1, <2>2, <2>3, <2>5, <2>6 DEF Changed, Placed, rest, own
  <2>8. Lines(all \cup put) = Lines(lineup)
    BY <1>4, <2>5, <2>6, JoinedLines
  <2> QED
    BY <1>6, <2>7, <2>8
<1>7. CASE s.op = "publish" \/ (s.op = "move" /\ s.place = s.order)
  <2>1. Changed(s) = lineup
    BY <1>7 DEF Changed
  <2> QED
    BY <1>1, <1>7, <2>1
<1> QED
  BY <1>1, <1>2, <1>5, <1>6, <1>7

\* A step goes on or ends while the session and what the page holds stay.
LEMMA EditionsStay ==
    ASSUME EditionsTell, NEW s \in steps, NEW new, steps' = (steps \ {s}) \cup new,
           UNCHANGED <<lineup, edition, heldLineup, heldEdition, olderLast>>,
           \A q \in new : q.at = "done" =>
               q.edition <= edition /\ (q.edition = edition /\ ~q.mixed => q.session = lineup),
           ~elsewhere' => ~elsewhere /\ (BringsSession(s) => \E q \in new : BringsSession(q))
    PROVE  EditionsTell'
<1>1. ~elsewhere' => heldEdition = edition \/ \E r \in steps' : BringsSession(r)
  BY DEF EditionsTell
<1>2. \A r : BringsSession(r)' <=> BringsSession(r)
  BY DEF BringsSession
<1> QED
  BY <1>1, <1>2 DEF EditionsTell

\* An operation other than a removal goes on or ends.
LEMMA OtherOffers ==
    ASSUME OffersFollow, NEW s \in steps, s.op # "remove", NEW new, steps' = (steps \ {s}) \cup new,
           \A q \in new : q.op # "remove",
           UNCHANGED <<lineup, stage, assignable, removing>>,
           ~elsewhere' => /\ ~elsewhere
                          /\ \A x : BringsItem(s, x) <=> \E q \in new : BringsItem(q, x)
    PROVE  OffersFollow'
<1> SUFFICES ASSUME ~removing, ~elsewhere' PROVE OffersFollow'
  BY DEF OffersFollow
<1>1. \A r \in steps : r.op # "remove"
  BY DEF OffersFollow, Removing
<1>2. \A r \in steps' : r.op # "remove"
  BY <1>1
<1>3. \A x : x \in Entering' <=> x \in Entering
  <2>1. \A x : x \in Entering <=> \E a \in steps : BringsItem(a, x)
    BY Enters DEF Coming
  <2>2. \A x : x \in Entering' <=> \E a \in steps' : BringsItem(a, x)
    BY Enters DEF Coming
  <2> QED
    BY <2>1, <2>2
<1>4. Offerable' = Offerable
  BY DEF Offerable
<1>5. assignable \ Entering = Offerable /\ Entering \cap Offerable = {}
  BY <1>1 DEF OffersFollow
<1>6. assignable' \ Entering' = Offerable' /\ Entering' \cap Offerable' = {}
  BY <1>3, <1>4, <1>5
<1> QED
  BY <1>2, <1>6 DEF OffersFollow

\* A removal that nothing overlaps goes on, or ends.
LEMMA RemovalGoesOn ==
    ASSUME OffersFollow, NEW s \in steps, s.op = "remove", NEW q, steps' = (steps \ {s}) \cup {q},
           q.op = "remove", UNCHANGED removing, ~elsewhere' => ~elsewhere,
           (steps = {s} /\ steps' = {q} /\ ~elsewhere /\ Removing(s)) => Removing(q)'
    PROVE  OffersFollow'
<1> SUFFICES ASSUME ~removing, ~elsewhere' PROVE OffersFollow'
  BY DEF OffersFollow
<1>1. Removing(s) /\ ~elsewhere
  BY DEF OffersFollow
<1>2. steps = {s} /\ steps' = {q}
  BY <1>1 DEF Removing
<1> QED
  BY <1>1, <1>2 DEF OffersFollow

LEMMA RemovalEnds ==
    ASSUME OffersFollow, NEW s \in steps, s.op = "remove", steps' = steps \ {s},
           UNCHANGED <<lineup, stage, removing>>, ~elsewhere' => ~elsewhere,
           Removing(s) => assignable' = Offerable
    PROVE  OffersFollow'
<1> SUFFICES ASSUME ~removing, ~elsewhere' PROVE OffersFollow'
  BY DEF OffersFollow
<1>1. Removing(s)
  BY DEF OffersFollow
<1>2. steps' = {}
  BY <1>1 DEF Removing
<1>3. \A x : x \notin Entering'
  BY <1>2, Enters
<1>4. Offerable' = Offerable
  BY DEF Offerable
<1>5. assignable' \ Entering' = Offerable' /\ Entering' \cap Offerable' = {}
  BY <1>1, <1>3, <1>4
<1> QED
  BY <1>2, <1>5 DEF OffersFollow

LEMMA LoadKeeps == ASSUME EditorInv, NEW s \in steps, Load(s) PROVE EditorInv'
<1> USE DEF EditorInv
<1>1. /\ s \in EditStep /\ s.at = "sent" /\ (s.op = "add" => s.slot \in Slot)
      /\ lineup \in SUBSET SlotRow /\ edition \in Nat
      /\ UNCHANGED <<lineup, stage, edition, heldLineup, heldEdition, assignable, begunSteps,
                     elsewhere, olderLast, removing>>
  <2>1. s.at = "sent" /\ UNCHANGED <<lineup, stage, edition, heldLineup, heldEdition, assignable,
                                   begunSteps, elsewhere, olderLast, removing>>
    BY ZenonT(30) DEF Load
  <2> QED
    BY <2>1 DEF EditorTyped
<1>2. PICK d \in SUBSET Submission : d = Decided
  BY DEF Decided
<1>3. PICK q \in EditStep :
          /\ steps' = (steps \ {s}) \cup {q} /\ q.op = s.op /\ q.slot = s.slot
          /\ \/ q.at = "loaded" /\ s.op # "publish"
             \/ q.at = "done" /\ s.op = "publish" /\ q.session = lineup /\ q.edition = edition
  <2>1. CASE s.op = "publish"
    <3> DEFINE q == [s EXCEPT !.at = "done", !.session = lineup, !.edition = edition]
    <3>1. /\ q \in EditStep /\ q.op = s.op /\ q.slot = s.slot /\ q.at = "done"
          /\ q.session = lineup /\ q.edition = edition
      BY <1>1 DEF EditStep
    <3>2. steps' = (steps \ {s}) \cup {q}
      BY <2>1 DEF Load
    <3> HIDE DEF q
    <3> QED
      BY <2>1, <3>1, <3>2
  <2>2. CASE s.op # "publish"
    <3>1. PICK o \in IF s.op = "add" THEN {0} ELSE {x.order : x \in RowOf(lineup, s.slot)} :
              steps' = (steps \ {s}) \cup {[s EXCEPT !.at = "loaded", !.order = o, !.decided = d]}
      BY ZenonT(30), <1>2, <2>2 DEF Load
    <3>2. o \in Int
      BY <1>1, <3>1 DEF RowOf, SlotRow
    <3> DEFINE q == [s EXCEPT !.at = "loaded", !.order = o, !.decided = d]
    <3>3. q \in EditStep /\ q.op = s.op /\ q.slot = s.slot /\ q.at = "loaded"
      BY <1>1, <1>2, <3>2 DEF EditStep
    <3>4. steps' = (steps \ {s}) \cup {q}
      BY <3>1
    <3> HIDE DEF q
    <3> QED
      BY <2>2, <3>3, <3>4
  <2> QED
    BY <2>1, <2>2
<1>4. PICK new : new = {q} /\ steps' = (steps \ {s}) \cup new
  BY <1>3
<1>5. EditorTyped'
  BY <1>1, <1>3 DEF EditorTyped
<1>6. EditionsTell'
  <2>1. ~BringsSession(s)
    BY <1>1 DEF BringsSession
  <2> QED
    BY <1>1, <1>3, <1>4, <2>1, EditionsStay
<1>7. OffersFollow'
  <2>1. CASE s.op = "remove"
    <3>1. Offerable' = Offerable /\ q.at = "loaded"
      BY <1>1, <1>3, <2>1 DEF Offerable
    <3>2. steps = {s} /\ steps' = {q} /\ Removing(s) => Removing(q)'
      BY <1>1, <1>3, <3>1 DEF Removing
    <3> QED
      BY <1>1, <1>3, <2>1, <3>2, RemovalGoesOn
  <2>2. CASE s.op # "remove"
    <3>1. \A x : ~BringsItem(s, x) /\ ~BringsItem(q, x)
      BY <1>1, <1>3 DEF BringsItem, Coming
    <3>2. q.op # "remove" /\ UNCHANGED <<lineup, stage, assignable, removing, elsewhere>>
      BY <1>1, <1>3, <2>2
    <3> QED
      BY <1>4, <2>2, <3>1, <3>2, OtherOffers
  <2> QED
    BY <2>1, <2>2
<1> QED
  BY <1>5, <1>6, <1>7

LEMMA CommitKeeps == ASSUME EditorInv, NEW s \in steps, Commit(s) PROVE EditorInv'
<1> USE DEF EditorInv
<1>1. /\ s \in EditStep /\ s.at = "loaded" /\ edition \in Nat
      /\ s.op = "add" => s.slot \in Slot
      /\ s.op \in {"add", "move", "remove", "publish"}
      /\ UNCHANGED <<heldLineup, heldEdition, assignable, begunSteps, elsewhere, olderLast, removing>>
      /\ edition' = IF lineup' = lineup THEN edition ELSE edition + 1
      /\ lineup' = Changed(s)
  BY DEF Commit, EditorTyped, EditStep
<1>2. /\ lineup' \in SUBSET SlotRow
      /\ s.op = "add" => Lines(lineup') = Lines(lineup) \cup {s.slot.item}
      /\ s.op = "remove" => /\ Lines(lineup') \subseteq Lines(lineup)
                            /\ Lines(lineup) \ {s.slot.item} \subseteq Lines(lineup')
      /\ s.op \in {"move", "publish"} => Lines(lineup') = Lines(lineup)
  BY <1>1, Carried
<1> DEFINE q == [s EXCEPT !.at = "written"]
<1>3. steps' = (steps \ {s}) \cup {q}
  BY DEF Commit
<1>4. q \in EditStep /\ q.op = s.op /\ q.slot = s.slot /\ q.at = "written"
  BY <1>1, MarkedStep
<1> HIDE DEF q
<1>5. EditorTyped'
  BY <1>1, <1>2, <1>3, <1>4 DEF EditorTyped
<1>6. EditionsTell'
  <2>1. edition' \in Nat /\ edition' >= edition /\ (edition' = edition => lineup' = lineup)
    BY <1>1
  <2>2. ASSUME NEW r \in steps', r.at = "done"
        PROVE  r.edition <= edition' /\ (r.edition = edition' /\ ~r.mixed => r.session = lineup')
    <3>1. r \in steps
      BY <1>3, <1>4, <2>2
    <3>2. r.edition \in Nat /\ r.edition <= edition
          /\ (r.edition = edition /\ ~r.mixed => r.session = lineup)
      BY <2>2, <3>1 DEF EditorTyped, EditStep, EditionsTell
    <3> QED
      BY <1>1, <2>1, <3>2
  <2>3. heldEdition' <= edition' /\ (heldEdition' = edition' => edition' = edition)
    BY <1>1, <2>1 DEF EditionsTell, EditorTyped
  <2>4. BringsSession(q)'
    BY <1>3, <1>4 DEF BringsSession
  <2>5. ~olderLast' /\ heldEdition' = edition' => heldLineup' = lineup'
    BY <1>1, <2>1, <2>3 DEF EditionsTell
  <2> QED
    BY <1>3, <2>2, <2>3, <2>4, <2>5 DEF EditionsTell
<1>7. \A t \in Submission :
          stage'[t] = IF t = s.slot.item /\ s.op = "add" THEN "assigned_to_session"
                      ELSE IF t = s.slot.item /\ s.op = "remove" /\ t \notin s.decided THEN "decided"
                      ELSE stage[t]
  BY DEF Commit
<1>8. OffersFollow'
  <2> SUFFICES ASSUME ~removing, ~elsewhere PROVE OffersFollow'
    BY <1>1 DEF OffersFollow
  <2>1. CASE s.op = "remove"
    <3>1. Removing(s)
      BY <2>1 DEF OffersFollow
    <3>2. steps' = {q}
      BY <1>3, <3>1 DEF Removing
    <3>3. s.slot.item \notin Submission => Offerable' = Offerable
      <4> SUFFICES ASSUME s.slot.item \notin Submission, NEW t \in Talk
                   PROVE  (stage'[t] = "decided" /\ t \notin Lines(lineup')) <=>
                          (stage[t] = "decided" /\ t \notin Lines(lineup))
        BY DEF Offerable
      <4>1. t # s.slot.item /\ t \in Submission
        BY DEF Submission
      <4> QED
        BY <1>2, <1>7, <2>1, <4>1
    <3>4. Removing(q)'
      BY <1>1, <1>3, <1>4, <3>1, <3>2, <3>3 DEF Removing
    <3> QED
      BY <1>4, <2>1, <3>2, <3>4 DEF OffersFollow
  <2>2. CASE s.op # "remove"
    <3>1. \A r \in steps : r.op # "remove"
      BY <2>2 DEF OffersFollow, Removing
    <3>2. \A r \in steps' : r.op # "remove"
      BY <1>3, <1>4, <2>2, <3>1
    <3>3. assignable \ Entering = Offerable /\ Entering \cap Offerable = {}
      BY <3>1 DEF OffersFollow
    <3>4. CASE s.op = "add"
      <4>1. \A x : x \in Entering' <=> x \in Entering \/ x = s.slot.item
        BY <1>1, <1>3, <1>4, <3>4, Enters DEF Coming, BringsItem
      <4>2. Offerable' = Offerable \ {s.slot.item}
        <5> SUFFICES ASSUME NEW t \in Talk
                     PROVE  (stage'[t] = "decided" /\ t \notin Lines(lineup')) <=>
                            (stage[t] = "decided" /\ t \notin Lines(lineup) /\ t # s.slot.item)
          BY DEF Offerable
        <5>1. t \in Submission
          BY DEF Submission
        <5> QED
          BY <1>2, <1>7, <3>4, <5>1
      <4>3. assignable' \ Entering' = Offerable' /\ Entering' \cap Offerable' = {}
        BY <1>1, <3>3, <4>1, <4>2
      <4> QED
        BY <3>2, <4>3 DEF OffersFollow
    <3>5. CASE s.op # "add"
      <4>1. Entering' = Entering
        <5>1. \A x : x \in Entering' <=> x \in Entering
          BY <1>1, <1>3, <1>4, <3>5, Enters DEF Coming, BringsItem
        <5> QED
          BY <5>1
      <4>2. Offerable' = Offerable
        <5> SUFFICES ASSUME NEW t \in Talk
                     PROVE  (stage'[t] = "decided" /\ t \notin Lines(lineup')) <=>
                            (stage[t] = "decided" /\ t \notin Lines(lineup))
          BY DEF Offerable
        <5>1. t \in Submission
          BY DEF Submission
        <5> QED
          BY <1>1, <1>2, <1>7, <2>2, <3>5, <5>1
      <4>3. assignable' \ Entering' = Offerable' /\ Entering' \cap Offerable' = {}
        BY <1>1, <3>3, <4>1, <4>2
      <4> QED
        BY <3>2, <4>3 DEF OffersFollow
    <3> QED
      BY <3>4, <3>5
  <2> QED
    BY <2>1, <2>2
<1> QED
  BY <1>5, <1>6, <1>8

\* setSession with what an answer carries.
LEMMA HoldKeeps ==
    ASSUME EditorTyped, EditionsTell, NEW s \in steps, s.at = "done", NEW new,
           steps' = (steps \ {s}) \cup new, \A q \in new : q.at = "reading",
           Hold(s), UNCHANGED <<lineup, edition, elsewhere>>
    PROVE  EditionsTell' /\ heldLineup' \in SUBSET SlotRow /\ heldEdition' \in Nat
<1>1. /\ s.edition \in Nat /\ heldEdition \in Nat /\ edition \in Nat /\ s.session \in SUBSET SlotRow
      /\ s.edition <= edition /\ heldEdition <= edition
      /\ (s.edition = edition /\ ~s.mixed => s.session = lineup)
  BY DEF EditorTyped, EditStep, EditionsTell
<1>2. heldLineup' = s.session
  BY DEF Hold, WholeSession
<1>3. /\ heldEdition' \in Nat /\ heldEdition' >= heldEdition /\ heldEdition' >= s.edition
      /\ heldEdition' = heldEdition \/ heldEdition' = s.edition
  BY <1>1 DEF Hold
<1>4. s.edition < heldEdition \/ s.mixed => olderLast'
  BY DEF Hold
<1>5. ~olderLast' /\ heldEdition' = edition => heldLineup' = lineup
  BY <1>1, <1>2, <1>3, <1>4
<1>6. \A r \in steps' : r.at = "done" =>
          r.edition <= edition /\ (r.edition = edition /\ ~r.mixed => r.session = lineup)
  BY <1>1 DEF EditionsTell
<1>7. \A r : BringsSession(r)' <=> BringsSession(r)
  BY DEF BringsSession
<1>8. ~elsewhere' => heldEdition' = edition' \/ \E r \in steps' : BringsSession(r)'
  <2> SUFFICES ASSUME ~elsewhere, heldEdition' # edition PROVE \E r \in steps' : BringsSession(r)
    BY <1>7
  <2>1. heldEdition # edition /\ s.edition # edition
    BY <1>1, <1>3
  <2>2. PICK r \in steps : BringsSession(r)
    BY <2>1 DEF EditionsTell
  <2>3. r # s
    BY <2>1, <2>2 DEF BringsSession
  <2> QED
    BY <2>2, <2>3
<1> QED
  BY <1>1, <1>2, <1>3, <1>5, <1>6, <1>8 DEF EditionsTell

LEMMA ReadBackKeeps == ASSUME EditorInv, NEW s \in steps, ReadBack(s) PROVE EditorInv'
<1> USE DEF EditorInv
<1>1. /\ s \in EditStep /\ s.at = "written" /\ (s.op = "add" => s.slot \in Slot)
      /\ edition \in Nat /\ lineup \in SUBSET SlotRow
      /\ UNCHANGED <<lineup, stage, edition, heldLineup, heldEdition, assignable, begunSteps,
                     elsewhere, olderLast, removing>>
  BY DEF ReadBack, EditorTyped
<1>2. PICK a \in SUBSET SlotRow : a = Answer(s) /\ (s.op # "move" => a = lineup)
  <2>1. CASE s.op # "move"
    BY <1>1, <2>1 DEF Answer
  <2>2. CASE s.op = "move"
    <3>1. s.place \in Int /\ RowOf(lineup, s.slot) \in SUBSET SlotRow
      BY <1>1 DEF EditStep, RowOf
    <3>2. Set(RowOf(lineup, s.slot), s.place) \in SUBSET SlotRow
      BY <3>1, SetLines
    <3> QED
      BY <1>1, <2>2, <3>2 DEF Answer
  <2> QED
    BY <2>1, <2>2
<1>3. PICK m \in BOOLEAN, e \in Nat : m = (a # lineup) /\ e = edition
  BY <1>1
<1> DEFINE q == [s EXCEPT !.at = "done", !.session = a, !.edition = e, !.mixed = m]
<1>4. /\ q \in EditStep /\ q.op = s.op /\ q.slot = s.slot /\ q.at = "done"
      /\ q.session = a /\ q.edition = edition /\ q.mixed = m
  BY <1>1, <1>2, <1>3 DEF EditStep
<1>5. steps' = (steps \ {s}) \cup {q}
  BY <1>2, <1>3 DEF ReadBack
<1> HIDE DEF q
<1>6. PICK new : new = {q} /\ steps' = (steps \ {s}) \cup new
  BY <1>5
<1>7. EditorTyped'
  BY <1>1, <1>4, <1>5 DEF EditorTyped
<1>8. EditionsTell'
  <2>1. BringsSession(q) /\ (q.edition = edition /\ ~q.mixed => q.session = lineup)
    BY <1>3, <1>4 DEF BringsSession
  <2>2. \A r \in new : r.at = "done" =>
            r.edition <= edition /\ (r.edition = edition /\ ~r.mixed => r.session = lineup)
    BY <1>1, <1>4, <1>6, <2>1
  <2> QED
    BY <1>1, <1>6, <2>1, <2>2, EditionsStay
<1>9. OffersFollow'
  <2>1. CASE s.op = "remove"
    <3>1. Offerable' = Offerable
      BY <1>1 DEF Offerable
    <3>2. q.at = "done" /\ q.slot = s.slot /\ q.session = lineup /\ q.op = "remove"
      BY <1>2, <1>4, <2>1
    <3>3. s.at = "written" /\ UNCHANGED <<lineup, assignable, removing, elsewhere>>
      BY <1>1
    <3>4. steps = {s} /\ steps' = {q} /\ Removing(s) => Removing(q)'
      BY <3>1, <3>2, <3>3 DEF Removing
    <3> QED
      BY <1>5, <2>1, <3>2, <3>3, <3>4, RemovalGoesOn
  <2>2. CASE s.op # "remove"
    <3>1. Coming(s) <=> Coming(q)
      BY <1>1, <1>4 DEF Coming
    <3>2. \A x : BringsItem(s, x) <=> \E y \in new : BringsItem(y, x)
      BY <1>4, <1>6, <3>1 DEF BringsItem
    <3>3. \A y \in new : y.op # "remove"
      BY <1>4, <1>6, <2>2
    <3>4. UNCHANGED <<lineup, stage, assignable, removing, elsewhere>>
      BY <1>1
    <3> QED
      BY <1>6, <2>2, <3>2, <3>3, <3>4, OtherOffers
  <2> QED
    BY <2>1, <2>2
<1> QED
  BY <1>7, <1>8, <1>9

LEMMA FailKeeps == ASSUME EditorInv, NEW s \in steps, Fail(s) PROVE EditorInv'
<1> USE DEF EditorInv
<1>1. /\ steps' = steps \ {s}
      /\ ~elsewhere' => ~elsewhere /\ s.at \in {"sent", "loaded"}
      /\ UNCHANGED <<lineup, stage, edition, heldLineup, heldEdition, assignable, begunSteps,
                     olderLast, removing>>
  BY DEF Fail
<1>2. PICK new : new = {} /\ steps' = (steps \ {s}) \cup new
  <2>1. steps' = (steps \ {s}) \cup {}
    BY <1>1
  <2> QED
    BY <2>1
<1>3. EditorTyped'
  BY <1>1 DEF EditorTyped
<1>4. EditionsTell'
  <2>1. ~elsewhere' => ~BringsSession(s)
    BY <1>1 DEF BringsSession
  <2> QED
    BY <1>1, <1>2, <2>1, EditionsStay
<1>5. OffersFollow'
  <2> SUFFICES ASSUME ~elsewhere' PROVE OffersFollow'
    BY DEF OffersFollow
  <2>1. CASE s.op = "remove"
    <3>1. Removing(s) => assignable' = Offerable
      BY <1>1 DEF Removing
    <3> QED
      BY <1>1, <2>1, <3>1, RemovalEnds
  <2>2. CASE s.op # "remove"
    <3>1. ~elsewhere' => \A x : ~BringsItem(s, x)
      BY <1>1 DEF BringsItem, Coming
    <3> QED
      BY <1>1, <1>2, <2>2, <3>1, OtherOffers
  <2> QED
    BY <2>1, <2>2
<1> QED
  BY <1>3, <1>4, <1>5

LEMMA MovedKeeps == ASSUME EditorInv, NEW s \in steps, Moved(s) PROVE EditorInv'
<1> USE DEF EditorInv
<1>1. /\ s.at = "done" /\ s.op \in {"move", "publish"} /\ Hold(s) /\ steps' = steps \ {s}
      /\ UNCHANGED <<lineup, stage, edition, assignable, begunSteps, elsewhere, removing>>
  BY DEF Moved
<1>2. PICK new : new = {} /\ steps' = (steps \ {s}) \cup new
  <2>1. steps' = (steps \ {s}) \cup {}
    BY <1>1
  <2> QED
    BY <2>1
<1>3. EditionsTell' /\ heldLineup' \in SUBSET SlotRow /\ heldEdition' \in Nat
  BY <1>1, <1>2, HoldKeeps
<1>4. EditorTyped'
  BY <1>1, <1>3 DEF EditorTyped
<1>5. OffersFollow'
  <2>1. \A x : ~BringsItem(s, x)
    BY <1>1 DEF BringsItem, Coming
  <2> QED
    BY <1>1, <1>2, <2>1, OtherOffers
<1> QED
  BY <1>3, <1>4, <1>5

LEMMA AddedKeeps == ASSUME EditorInv, NEW s \in steps, Added(s) PROVE EditorInv'
<1> USE DEF EditorInv
<1>1. /\ s.at = "done" /\ s.op = "add" /\ Hold(s) /\ steps' = steps \ {s}
      /\ assignable' = assignable \ {s.slot.item}
      /\ UNCHANGED <<lineup, stage, edition, begunSteps, elsewhere, removing>>
  BY DEF Added
<1>2. PICK new : new = {} /\ steps' = (steps \ {s}) \cup new
  <2>1. steps' = (steps \ {s}) \cup {}
    BY <1>1
  <2> QED
    BY <2>1
<1>3. EditionsTell' /\ heldLineup' \in SUBSET SlotRow /\ heldEdition' \in Nat
  BY <1>1, <1>2, HoldKeeps
<1>4. EditorTyped'
  BY <1>1, <1>3 DEF EditorTyped
<1>5. OffersFollow'
  <2> SUFFICES ASSUME ~removing, ~elsewhere PROVE OffersFollow'
    BY <1>1 DEF OffersFollow
  <2>1. \A r \in steps : r.op # "remove"
    BY <1>1 DEF OffersFollow, Removing
  <2>2. \A x : /\ x \in Entering' => x \in Entering
               /\ x \in Entering => x \in Entering' \/ x = s.slot.item
    BY <1>1, Enters DEF Coming, BringsItem
  <2>3. s.slot.item \in Entering
    BY <1>1, Enters DEF Coming, BringsItem
  <2>4. Offerable' = Offerable
    BY <1>1 DEF Offerable
  <2>5. assignable \ Entering = Offerable /\ Entering \cap Offerable = {}
    BY <2>1 DEF OffersFollow
  <2>6. assignable' \ Entering' = Offerable' /\ Entering' \cap Offerable' = {}
    BY <1>1, <2>2, <2>3, <2>4, <2>5
  <2> QED
    BY <1>1, <2>1, <2>6 DEF OffersFollow
<1> QED
  BY <1>3, <1>4, <1>5

LEMMA RemovedKeeps == ASSUME EditorInv, NEW s \in steps, Removed(s) PROVE EditorInv'
<1> USE DEF EditorInv
<1>1. /\ s \in EditStep /\ s.at = "done" /\ s.op = "remove" /\ Hold(s)
      /\ UNCHANGED <<lineup, stage, edition, assignable, begunSteps, elsewhere, removing>>
  BY DEF Removed, EditorTyped
<1>3. Offerable' = Offerable
  BY <1>1 DEF Offerable
<1>4. CASE s.slot.item \in Submission
  <2> DEFINE q == [s EXCEPT !.at = "reading"]
  <2>1. /\ q \in EditStep /\ q.op = s.op /\ q.slot = s.slot /\ q.at = "reading"
        /\ q.session = s.session /\ q.edition = s.edition
    BY <1>1, MarkedStep
  <2>2. steps' = (steps \ {s}) \cup {q}
    BY <1>4 DEF Removed
  <2> HIDE DEF q
  <2>3. PICK new : new = {q} /\ steps' = (steps \ {s}) \cup new
    BY <2>2
  <2>4. EditionsTell' /\ heldLineup' \in SUBSET SlotRow /\ heldEdition' \in Nat
    <3>1. \A x \in new : x.at = "reading"
      BY <2>1, <2>3
    <3> QED
      BY <1>1, <2>3, <3>1, HoldKeeps
  <2>5. EditorTyped'
    BY <1>1, <2>1, <2>2, <2>4 DEF EditorTyped
  <2>6. OffersFollow'
    <3>1. steps = {s} /\ steps' = {q} /\ Removing(s) => Removing(q)'
      BY <1>1, <1>3, <1>4, <2>1 DEF Removing
    <3> QED
      BY <1>1, <2>1, <2>2, <3>1, RemovalGoesOn
  <2> QED
    BY <2>4, <2>5, <2>6
<1>5. CASE s.slot.item \notin Submission
  <2>1. steps' = steps \ {s}
    BY <1>5 DEF Removed
  <2>2. PICK new : new = {} /\ steps' = (steps \ {s}) \cup new
    <3>1. steps' = (steps \ {s}) \cup {}
      BY <2>1
    <3> QED
      BY <3>1
  <2>3. EditionsTell' /\ heldLineup' \in SUBSET SlotRow /\ heldEdition' \in Nat
    BY <1>1, <2>2, HoldKeeps
  <2>4. EditorTyped'
    BY <1>1, <2>1, <2>3 DEF EditorTyped
  <2>5. OffersFollow'
    <3>1. Removing(s) => assignable' = Offerable
      BY <1>1, <1>5 DEF Removing
    <3> QED
      BY <1>1, <2>1, <3>1, RemovalEnds
  <2> QED
    BY <2>3, <2>4, <2>5
<1> QED
  BY <1>4, <1>5

LEMMA ListsReadKeeps == ASSUME EditorInv, NEW s \in steps, ListsRead(s) PROVE EditorInv'
<1> USE DEF EditorInv
<1>1. /\ s \in EditStep /\ s.at = "reading" /\ s.op = "remove"
      /\ UNCHANGED <<lineup, stage, edition, heldLineup, heldEdition, assignable, begunSteps,
                     elsewhere, olderLast, removing>>
  BY DEF ListsRead, EditorTyped, EditionsTell
<1>2. PICK d \in SUBSET Submission : d = Decided
  BY DEF Decided
<1> DEFINE q == [s EXCEPT !.at = "read", !.decided = d]
<1>3. /\ q \in EditStep /\ q.op = s.op /\ q.slot = s.slot /\ q.at = "read"
      /\ q.session = s.session /\ q.edition = s.edition /\ q.decided = d
  BY <1>1, <1>2 DEF EditStep
<1>4. steps' = (steps \ {s}) \cup {q}
  BY <1>2 DEF ListsRead
<1> HIDE DEF q
<1>5. PICK new : new = {q} /\ steps' = (steps \ {s}) \cup new
  BY <1>4
<1>6. EditorTyped'
  BY <1>1, <1>3, <1>4 DEF EditorTyped
<1>7. EditionsTell'
  <2>1. ~BringsSession(s)
    BY <1>1 DEF BringsSession
  <2> QED
    BY <1>1, <1>3, <1>5, <2>1, EditionsStay
<1>8. OffersFollow'
  <2>1. Offerable' = Offerable /\ Decided' = Decided
    BY <1>1 DEF Offerable, Decided
  <2>2. ~elsewhere /\ steps = {s} /\ steps' = {q} /\ Removing(s) => Removing(q)'
    BY <1>1, <1>2, <1>3, <2>1 DEF Removing
  <2> QED
    BY <1>1, <1>3, <1>4, <2>2, RemovalGoesOn
<1> QED
  BY <1>6, <1>7, <1>8

LEMMA ListsShownKeeps == ASSUME EditorInv, NEW s \in steps, ListsShown(s) PROVE EditorInv'
<1> USE DEF EditorInv
<1>1. /\ s.at = "read" /\ s.op = "remove" /\ steps' = steps \ {s}
      /\ assignable' = (s.decided \ Lines(s.session)) \cap Talk
      /\ UNCHANGED <<lineup, stage, edition, heldLineup, heldEdition, begunSteps, elsewhere,
                     olderLast, removing>>
  BY DEF ListsShown, Rederived, AssignableSubmissions
<1>2. PICK new : new = {} /\ steps' = (steps \ {s}) \cup new
  <2>1. steps' = (steps \ {s}) \cup {}
    BY <1>1
  <2> QED
    BY <2>1
<1>3. EditorTyped'
  BY <1>1 DEF EditorTyped
<1>4. EditionsTell'
  <2>1. ~BringsSession(s)
    BY <1>1 DEF BringsSession
  <2> QED
    BY <1>1, <1>2, <2>1, EditionsStay
<1>5. OffersFollow'
  <2>1. ASSUME Removing(s) PROVE assignable' = Offerable
    <3>1. s.session = lineup /\ s.decided = Decided
      BY <1>1, <2>1 DEF Removing
    <3> QED
      BY <1>1, <3>1 DEF Offerable, Decided, Submission
  <2> QED
    BY <1>1, <2>1, RemovalEnds
<1> QED
  BY <1>3, <1>4, <1>5

LEMMA RestEditorInv == ASSUME EditorInv, UNCHANGED editorVars PROVE EditorInv'
<1> USE DEF EditorInv, editorVars
<1>1. EditorTyped'
  BY DEF EditorTyped
<1>2. \A r : BringsSession(r)' <=> BringsSession(r)
  BY DEF BringsSession
<1>3. EditionsTell'
  BY <1>2 DEF EditionsTell
<1>4. Offerable' = Offerable /\ Decided' = Decided /\ Entering' = Entering
  BY DEF Offerable, Decided, Entering, Coming
<1>5. \A s : Removing(s)' <=> Removing(s)
  BY <1>4 DEF Removing
<1>6. OffersFollow'
  BY <1>4, <1>5 DEF OffersFollow
<1> QED
  BY <1>1, <1>3, <1>6

LEMMA NextEditorInv == ASSUME EditorInv, [EditorNext]_editorVars PROVE EditorInv'
  BY BeginKeeps, LoadKeeps, CommitKeeps, ReadBackKeeps, FailKeeps, AddedKeeps, MovedKeeps,
     RemovedKeeps, ListsReadKeeps, ListsShownKeeps, RestEditorInv DEF EditorNext

\* When nothing is on its way, what the page holds is of the current edition
\* and what it offers is what may be added.
LEMMA SettledEditor == ASSUME EditorInv PROVE LineupShown /\ OfferedIsAssignable
<1>1. LineupShown
  BY DEF EditorInv, EditionsTell, LineupShown
<1>2. OfferedIsAssignable
  <2> SUFFICES ASSUME steps = {}, ~elsewhere, ~removing PROVE assignable = Offerable
    BY DEF OfferedIsAssignable, Offerable
  <2>1. \A x : x \notin Entering
    BY Enters
  <2>2. assignable \ Entering = Offerable
    BY DEF EditorInv, OffersFollow
  <2> QED
    BY <2>1, <2>2
<1> QED
  BY <1>1, <1>2

\* The page of a session settles on the line-up the server has and offers the
\* submissions it would accept, however its operations overlapped.
THEOREM LineupIsShown == EditorSpec => [](LineupShown /\ OfferedIsAssignable)
<1>1. EditorInit => EditorInv
  BY InitEditorInv
<1>2. EditorInv /\ [EditorNext]_editorVars => EditorInv'
  BY NextEditorInv
<1>3. EditorInv => LineupShown /\ OfferedIsAssignable
  BY SettledEditor
<1> QED
  BY <1>1, <1>2, <1>3, PTL DEF EditorSpec

-------------------------------------------------------------------------------
(* The list of sessions and the dialog that deletes one. *)

ListView == [present : SUBSET Item, public : SUBSET Item, revision : Nat]
Impact == [asked : BOOLEAN, named : SUBSET Booked]
Act == [n : Nat, op : {"publish", "create", "impact", "delete", "load"}, item : Item \cup {NoItem},
        at : {"sent", "done", "refused"}, got : SUBSET {Single, Block}, view : ListView,
        impact : Impact, fate : {"public", "hidden", "decided", "withdrawn"}, excused : BOOLEAN]
Dialog == [target : Item \cup {NoItem}, question : Nat, impact : Impact, loading : BOOLEAN,
           deleting : BOOLEAN, choice : {"decided", "withdrawn"}, stale : BOOLEAN]

SessionsTyped ==
    /\ present \in SUBSET Item /\ public \in SUBSET Item
    /\ place \in [Booked -> Item \cup {NoItem}]
    /\ revision \in Nat /\ listed \in ListView
    /\ dialog \in Dialog /\ acts \in SUBSET Act /\ begunActs \in Nat

PartOf(i) == IF i \in Single THEN Single ELSE Block

\* No request failed, so none was refused.
Calm == ~unseen /\ \A r \in acts : r.at # "refused"

\* A request that will still bring the page what became of an item: c says at
\* which revision each item changed last.
Promises(r, c, j) ==
    \/ r.at = "done" /\ r.item = j /\ (r.op \in {"create", "delete"} \/ (r.op = "publish" /\ j \in Block))
    \/ r.op = "load" /\ (r.got = {} \/ r.view.revision >= c[j])
    \/ r.op = "publish" /\ r.at = "done" /\ r.item = j /\ j \in Single /\ r.view.revision >= c[j]

\* What an answer carries is true of every item that has not changed since.
Honest(r, c) ==
    /\ r.op = "create" => r.item \in Block
    /\ r.op = "load" =>
         /\ r.at = "done" => r.got = {Single, Block}
         /\ r.got # {} => r.view.revision <= revision
         /\ Single \in r.got => present \cap Single \subseteq r.view.present
         /\ \A i \in Item : PartOf(i) \in r.got /\ r.view.revision >= c[i] =>
               /\ i \in r.view.present <=> i \in present
               /\ i \in r.view.public <=> i \in public
    /\ (r.op = "publish" /\ r.at = "done" /\ r.item \in Single) =>
         /\ r.view.revision <= revision
         /\ r.view.revision >= c[r.item] =>
               /\ r.item \in present
               /\ r.fate = "public" <=> r.item \in public

Agrees(i) ==
    /\ i \in listed.present <=> i \in present
    /\ i \in listed.public <=> i \in public

Promised(c, j) == \E r \in acts : Promises(r, c, j)

ListFollows(c) ==
    /\ \A i \in Item : c[i] <= revision
    /\ listed.revision <= revision
    /\ present \cap Single \subseteq listed.present
    /\ \A r \in acts : Honest(r, c)
    /\ \A j \in Item : listed.revision >= c[j] \/ Promised(c, j)
    /\ ~overtaken2 => \A j \in Item : Agrees(j) \/ Promised(c, j)

\* While no abstract moves on, what the dialog and a deletion name is all there is.
FateFollows ==
    ~moved =>
        /\ \A r \in acts : r.op = "impact" /\ r.at = "done" => Advanced(r.item) \subseteq r.impact.named
        /\ (dialog.target # NoItem /\ ~dialog.stale /\ dialog.impact.asked) =>
               Advanced(dialog.target) \subseteq dialog.impact.named
        /\ \A r \in acts : r.op = "delete" => r.excused \/ Advanced(r.item) \subseteq r.impact.named

\* The answer to the question of the dialog is about its target.
QuestionsFit ==
    /\ \A r \in acts : r.n < begunActs /\ (r.op \in {"impact", "delete", "create"} => r.item \in Item)
    /\ \A r \in acts : r.op = "impact" /\ dialog.target # NoItem /\ r.n = dialog.question
                       => r.item = dialog.target

SessionsInv ==
    /\ SessionsTyped /\ QuestionsFit /\ FateFollows /\ FateWasNamed
    /\ Calm => \E c \in [Item -> Nat] : ListFollows(c)

LEMMA Parts == /\ \A i \in Item : PartOf(i) \in {Single, Block} /\ i \in PartOf(i)
               /\ \A i \in Single : i \notin Block
               /\ NoItem \notin Item
  BY SessionsAssumption DEF PartOf, Item

\* The shapes of requests as they are made and answered.
LEMMA NewAct ==
    ASSUME SessionsTyped, NEW op \in {"publish", "create", "impact", "delete", "load"},
           NEW i \in Item \cup {NoItem}
    PROVE  /\ Request(op, i) \in Act
           /\ Request(op, i).n = begunActs /\ Request(op, i).op = op /\ Request(op, i).item = i
           /\ Request(op, i).at = "sent" /\ Request(op, i).got = {}
<1>1. NotAsked \in Impact
  BY DEF NotAsked, Impact
<1>2. NotRead \in ListView
  BY DEF NotRead, ListView
<1> QED
  BY <1>1, <1>2 DEF Request, Act, SessionsTyped

LEMMA ReloadAct ==
    ASSUME SessionsTyped, NEW r \in Act
    PROVE  \E q \in Act : /\ Reload(r) = {q}
                          /\ q.n = r.n /\ q.op = "load" /\ q.at = "sent" /\ q.got = {}
<1> DEFINE a == Request("load", NoItem)
<1>1. a \in Act /\ a.op = "load" /\ a.at = "sent" /\ a.got = {}
  BY NewAct
<1>2. Reload(r) = {[a EXCEPT !.n = r.n]}
  BY DEF Reload
<1> DEFINE q == [a EXCEPT !.n = r.n]
<1> HIDE DEF a
<1>3. q \in Act /\ q.n = r.n /\ q.op = "load" /\ q.at = "sent" /\ q.got = {}
  BY <1>1 DEF Act
<1> HIDE DEF q
<1>4. Reload(r) = {q}
  BY <1>2 DEF q
<1> QED
  BY <1>3, <1>4

LEMMA DoneAct ==
    ASSUME NEW r \in Act, NEW at \in {"done", "refused"}
    PROVE  LET q == [r EXCEPT !.at = at] IN
           /\ q \in Act /\ q.n = r.n /\ q.op = r.op /\ q.item = r.item /\ q.at = at
           /\ q.got = r.got /\ q.view = r.view /\ q.impact = r.impact /\ q.fate = r.fate
           /\ q.excused = r.excused
  BY DEF Act

LEMMA ImpactAct ==
    ASSUME NEW r \in Act, NEW named \in SUBSET Booked
    PROVE  LET q == [r EXCEPT !.at = "done", !.impact = [asked |-> TRUE, named |-> named]] IN
           /\ q \in Act /\ q.n = r.n /\ q.op = r.op /\ q.item = r.item /\ q.at = "done"
           /\ q.impact.named = named
<1> DEFINE m == [asked |-> TRUE, named |-> named]
<1>1. m \in Impact /\ m.named = named
  BY DEF Impact
<1> HIDE DEF m
<1>2. LET q == [r EXCEPT !.at = "done", !.impact = m] IN
           /\ q \in Act /\ q.n = r.n /\ q.op = r.op /\ q.item = r.item /\ q.at = "done"
           /\ q.impact = m
  BY <1>1 DEF Act
<1> QED
  BY <1>1, <1>2 DEF m

\* Requests come and go while the items and the list stay as they are: what a
\* request promised, another does.
LEMMA ListStays ==
    ASSUME SessionsInv, NEW gone, NEW new \in SUBSET Act, acts' = (acts \ gone) \cup new,
           UNCHANGED <<present, public, revision, listed, overtaken2>>,
           NEW c \in [Item -> Nat], ListFollows(c),
           \A q \in new : Honest(q, c),
           \A r \in gone \cap acts : \A j \in Item : Promises(r, c, j) => \E q \in new : Promises(q, c, j)
    PROVE  ListFollows(c)'
<1>1. \A q \in acts' : Honest(q, c)'
  <2> SUFFICES ASSUME NEW q \in acts' PROVE Honest(q, c)'
    OBVIOUS
  <2>1. Honest(q, c)
    BY DEF ListFollows
  <2> QED
    BY <2>1 DEF Honest
<1>2. \A j \in Item : Promised(c, j) => Promised(c, j)'
  <2> SUFFICES ASSUME NEW j \in Item, NEW r \in acts, Promises(r, c, j)
               PROVE  \E q \in acts' : Promises(q, c, j)
    BY DEF Promised, Promises
  <2>1. CASE r \in gone
    BY <2>1
  <2>2. CASE r \notin gone
    BY <2>2
  <2> QED
    BY <2>1, <2>2
<1>3. \A j \in Item : Agrees(j)' <=> Agrees(j)
  BY DEF Agrees
<1> QED
  BY <1>1, <1>2, <1>3 DEF ListFollows

\* An item changes, and the answer that says so is on its way.
LEMMA ItemChanges ==
    ASSUME SessionsInv, NEW r \in acts, r.at = "sent", r.op # "load", r.item \in Item,
           NEW q \in Act, acts' = (acts \ {r}) \cup {q},
           q.op = r.op, q.item = r.item, q.at = "done",
           r.op \in {"publish", "create", "delete"},
           r.op = "create" => r.item \in Block,
           revision' = revision + 1, UNCHANGED <<listed, overtaken2>>,
           present' \in SUBSET Item, public' \in SUBSET Item,
           \A j \in Item \ {r.item} : (j \in present' <=> j \in present) /\ (j \in public' <=> j \in public),
           r.item \in present' /\ r.item \notin present => r.op = "create",
           r.op = "publish" => /\ q.view.revision = revision + 1 /\ r.item \in present'
                               /\ q.fate = "public" <=> r.item \in public',
           NEW c \in [Item -> Nat], ListFollows(c)
    PROVE  \E d \in [Item -> Nat] : ListFollows(d)'
<1> DEFINE i == r.item
<1>1. revision \in Nat /\ listed \in ListView /\ acts \in SUBSET Act
  BY DEF SessionsInv, SessionsTyped
<1>2. PICK d \in [Item -> Nat] : d[i] = revision + 1 /\ \A j \in Item \ {i} : d[j] = c[j]
  <2> DEFINE e == [c EXCEPT ![i] = revision + 1]
  <2>1. e \in [Item -> Nat] /\ e[i] = revision + 1 /\ \A j \in Item \ {i} : e[j] = c[j]
    BY <1>1
  <2> QED
    BY <2>1
<1>3. \A j \in Item : c[j] \in Nat /\ c[j] <= revision
  BY DEF ListFollows
<1>4. \A j \in Item : d[j] <= revision + 1
  BY <1>1, <1>2, <1>3
<1>5. listed.revision <= revision + 1
  BY <1>1 DEF ListFollows, ListView
<1>6. present' \cap Single \subseteq listed.present
  BY Parts DEF ListFollows, Item
<1>7. ASSUME NEW s \in acts' PROVE Honest(s, d)'
  <2>1. CASE s = q
    BY <1>1, <1>2, <2>1 DEF Honest
  <2>2. CASE s \in acts
    <3>1. Honest(s, c)
      BY <2>2 DEF ListFollows
    <3>2. s \in Act /\ s.view.revision \in Nat
      BY <1>1, <2>2 DEF Act, ListView
    <3>3. s.op = "load" => /\ s.at = "done" => s.got = {Single, Block}
                           /\ s.got # {} => s.view.revision <= revision + 1
                           /\ Single \in s.got => present' \cap Single \subseteq s.view.present
      BY <1>1, <3>1, <3>2, Parts DEF Honest, Item
    <3>4. ASSUME s.op = "load", NEW j \in Item, PartOf(j) \in s.got, s.view.revision >= d[j]
          PROVE  /\ j \in s.view.present <=> j \in present'
                 /\ j \in s.view.public <=> j \in public'
      <4>1. s.view.revision <= revision
        BY <3>1, <3>4 DEF Honest
      <4>2. j # i
        BY <1>1, <1>2, <3>2, <3>4, <4>1
      <4> QED
        BY <1>2, <3>1, <3>4, <4>2 DEF Honest
    <3>5. ASSUME s.op = "publish", s.at = "done", s.item \in Single
          PROVE  /\ s.view.revision <= revision + 1
                 /\ s.view.revision >= d[s.item] =>
                       /\ s.item \in present'
                       /\ s.fate = "public" <=> s.item \in public'
      <4>1. s.view.revision <= revision
        BY <3>1, <3>5 DEF Honest
      <4>2. CASE s.item = i
        BY <1>1, <1>2, <3>2, <4>1, <4>2
      <4>3. CASE s.item # i
        <5>1. s.item \in Item
          BY <3>5 DEF Item
        <5> QED
          BY <1>1, <1>2, <3>1, <3>2, <3>5, <4>1, <4>3, <5>1 DEF Honest
      <4> QED
        BY <4>2, <4>3
    <3>6. s.op = "create" => s.item \in Block
      BY <3>1 DEF Honest
    <3> QED
      BY <1>1, <3>3, <3>4, <3>5, <3>6 DEF Honest
  <2> QED
    BY <1>7, <2>1, <2>2
<1>8. \A j \in Item \ {i} : Promised(c, j) => Promised(d, j)'
  <2> SUFFICES ASSUME NEW j \in Item \ {i}, NEW s \in acts, Promises(s, c, j)
               PROVE  s \in acts' /\ Promises(s, d, j)
    BY DEF Promised, Promises
  <2>1. s # r
    BY DEF Promises
  <2> QED
    BY <1>2, <2>1 DEF Promises
<1>9. Promised(d, i)'
  <2>1. CASE r.op = "publish"
    <3>1. Promises(q, d, i)
      BY <1>1, <1>2, <2>1 DEF Promises, Item
    <3> QED
      BY <3>1 DEF Promised, Promises
  <2>2. CASE r.op \in {"create", "delete"}
    <3>1. Promises(q, d, i)
      BY <2>2 DEF Promises
    <3> QED
      BY <3>1 DEF Promised, Promises
  <2> QED
    BY <2>1, <2>2
<1>10. \A j \in Item \ {i} : Agrees(j) => Agrees(j)'
  BY DEF Agrees
<1>11. \A j \in Item : listed'.revision >= d[j] \/ Promised(d, j)'
  BY <1>2, <1>8, <1>9 DEF ListFollows
<1>12. ~overtaken2' => \A j \in Item : Agrees(j)' \/ Promised(d, j)'
  BY <1>8, <1>9, <1>10 DEF ListFollows
<1>13. ListFollows(d)'
  BY <1>4, <1>5, <1>6, <1>7, <1>11, <1>12 DEF ListFollows
<1> QED
  BY <1>2, <1>13

LEMMA InitSessionsInv == ASSUME SessionsInit PROVE SessionsInv
<1>1. NotAsked \in Impact
  BY DEF NotAsked, Impact
<1>2. dialog \in Dialog /\ dialog.target = NoItem
  BY <1>1 DEF SessionsInit, Dialog
<1>3. present \in SUBSET Item /\ public = {} /\ revision = 0 /\ acts = {} /\ begunActs = 0
      /\ place \in [Booked -> present]
  BY DEF SessionsInit
<1>4. listed \in ListView /\ listed.present = present /\ listed.public = public /\ listed.revision = 0
  BY <1>3 DEF SessionsInit, Listed, ListView
<1>5. SessionsTyped
  BY <1>2, <1>3, <1>4 DEF SessionsTyped
<1>6. QuestionsFit /\ FateFollows /\ FateWasNamed
  BY <1>2, <1>3 DEF QuestionsFit, FateFollows, FateWasNamed, SessionsInit
<1>7. ListFollows([i \in Item |-> 0])
  BY <1>3, <1>4 DEF ListFollows, Agrees
<1> QED
  BY <1>5, <1>6, <1>7 DEF SessionsInv

\* What the dialog and the deletions name, when only requests come and go.
LEMMA FateStays ==
    ASSUME FateFollows, NEW gone, NEW new, acts' = (acts \ gone) \cup new,
           UNCHANGED <<place, rank, dialog, moved>>,
           \A q \in new : /\ ~moved /\ q.op = "impact" /\ q.at = "done" => Advanced(q.item) \subseteq q.impact.named
                          /\ ~moved /\ q.op = "delete" => q.excused \/ Advanced(q.item) \subseteq q.impact.named
    PROVE  FateFollows'
<1>1. \A i : Advanced(i)' = Advanced(i)
  BY DEF Advanced, In
<1> QED
  BY <1>1 DEF FateFollows

\* An operation begins.
LEMMA Issued ==
    ASSUME SessionsInv, NEW q \in Act, q.n = begunActs, q.at = "sent", q.op # "load",
           q.op = "create" => q.item \in Block,
           acts' = acts \cup {q}, begunActs' = begunActs + 1, dialog' \in Dialog,
           UNCHANGED <<present, public, place, revision, listed, overtaken2, unseen>>
    PROVE  /\ SessionsTyped'
           /\ Calm' => \E c \in [Item -> Nat] : ListFollows(c)'
<1>1. SessionsTyped'
  BY DEF SessionsInv, SessionsTyped
<1>2. SUFFICES ASSUME Calm' PROVE \E c \in [Item -> Nat] : ListFollows(c)'
  BY <1>1
<1>3. Calm
  BY <1>2 DEF Calm
<1>4. PICK c \in [Item -> Nat] : ListFollows(c)
  BY <1>3 DEF SessionsInv
<1>5. Honest(q, c)
  BY DEF Honest
<1>6. PICK gone, new : gone = {} /\ new = {q}
  OBVIOUS
<1>7. new \in SUBSET Act /\ acts' = (acts \ gone) \cup new
  BY <1>6
<1>8. \A x \in new : Honest(x, c)
  BY <1>5, <1>6
<1>9. \A r \in gone \cap acts : \A j \in Item :
          Promises(r, c, j) => \E x \in new : Promises(x, c, j)
  BY <1>6
<1>10. ListFollows(c)'
  BY <1>4, <1>7, <1>8, <1>9, ListStays
<1> QED
  BY <1>10

LEMMA PressKeeps ==
    ASSUME SessionsInv, NEW i \in Item, HandleTogglePublish(i) \/ CreateBlock(i)
    PROVE  SessionsInv'
<1> USE DEF SessionsInv
<1>1. PICK q \in Act : /\ q.n = begunActs /\ q.at = "sent" /\ q.op \in {"publish", "create"}
                       /\ q.op = "create" => q.item \in Block
                       /\ acts' = acts \cup {q}
  <2>1. CASE HandleTogglePublish(i)
    <3> DEFINE a == Request("publish", i)
               f == IF i \in listed.public THEN "hidden" ELSE "public"
               q == [a EXCEPT !.fate = f]
    <3>1. a \in Act /\ a.n = begunActs /\ a.op = "publish" /\ a.at = "sent"
      BY NewAct
    <3>2. f \in {"hidden", "public"}
      OBVIOUS
    <3>3. acts' = acts \cup {q}
      BY <2>1 DEF HandleTogglePublish, Issue
    <3> HIDE DEF a, f
    <3>4. q \in Act /\ q.n = begunActs /\ q.op = "publish" /\ q.at = "sent"
      BY <3>1, <3>2 DEF Act
    <3> QED
      BY <3>3, <3>4
  <2>2. CASE CreateBlock(i)
    <3>1. acts' = acts \cup {Request("create", i)} /\ i \in Block
      BY <2>2 DEF CreateBlock, Issue
    <3> QED
      BY <3>1, NewAct
  <2> QED
    BY <2>1, <2>2
<1>2. /\ begunActs' = begunActs + 1
      /\ UNCHANGED <<server, listed, dialog, flags>>
  BY DEF HandleTogglePublish, CreateBlock, Issue
<1>3. /\ SessionsTyped'
      /\ Calm' => \E c \in [Item -> Nat] : ListFollows(c)'
  BY <1>1, <1>2, Issued DEF server, flags, SessionsTyped
<1>4. QuestionsFit'
  BY <1>1, <1>2 DEF QuestionsFit, SessionsTyped, Act, Item
<1>5. FateFollows'
  <2>1. PICK gone, new : gone = {} /\ new = {q}
    OBVIOUS
  <2>2. acts' = (acts \ gone) \cup new
    BY <1>1, <2>1
  <2>3. UNCHANGED <<place, rank, dialog, moved>>
    BY <1>2 DEF server, flags
  <2> QED
    BY <1>1, <2>1, <2>2, <2>3, FateStays
<1> QED
  BY <1>2, <1>3, <1>4, <1>5 DEF FateWasNamed, flags

LEMMA OpenDeleteKeeps ==
    ASSUME SessionsInv, NEW i \in Item, OpenDelete(i)
    PROVE  SessionsInv'
<1> USE DEF SessionsInv
<1> DEFINE q == Request("impact", i)
<1>1. q \in Act /\ q.n = begunActs /\ q.op = "impact" /\ q.item = i /\ q.at = "sent"
  BY NewAct
<1>2. /\ acts' = acts \cup {q} /\ begunActs' = begunActs + 1
      /\ dialog' = [dialog EXCEPT !.target = i, !.question = begunActs, !.choice = "decided",
                                  !.impact = NotAsked, !.loading = TRUE, !.stale = FALSE]
      /\ UNCHANGED <<server, listed, flags>>
  BY DEF OpenDelete, Issue, ForgetImpact
<1> HIDE DEF q
<1>3. NotAsked \in Impact /\ ~NotAsked.asked
  BY DEF NotAsked, Impact
<1>4. dialog' \in Dialog
  BY <1>2, <1>3 DEF SessionsTyped, Dialog
<1>5. dialog'.target = i /\ dialog'.question = begunActs /\ dialog'.impact = NotAsked
  BY <1>2 DEF SessionsTyped, Dialog
<1>6. /\ SessionsTyped'
      /\ Calm' => \E c \in [Item -> Nat] : ListFollows(c)'
  BY <1>1, <1>2, <1>4, Issued DEF server, flags
<1>7. QuestionsFit'
  BY <1>1, <1>2, <1>5 DEF QuestionsFit, SessionsTyped, Act
<1>8. FateFollows'
  <2>1. \A j : Advanced(j)' = Advanced(j)
    BY <1>2 DEF Advanced, In, server
  <2> QED
    BY <1>1, <1>2, <1>3, <1>5, <2>1 DEF FateFollows, flags
<1> QED
  BY <1>2, <1>6, <1>7, <1>8 DEF FateWasNamed, flags

\* The dialog moves while the requests rest.
LEMMA DialogMoves ==
    ASSUME SessionsInv, dialog' \in Dialog, acts' = acts, begunActs' = begunActs,
           UNCHANGED <<server, listed, flags>>,
           dialog'.target = NoItem \/ (/\ dialog'.target = dialog.target
                                       /\ dialog'.impact = dialog.impact
                                       /\ dialog'.question = dialog.question
                                       /\ dialog'.stale = dialog.stale)
    PROVE  SessionsInv'
<1> USE DEF SessionsInv
<1>1. SessionsTyped'
  BY DEF SessionsTyped, server
<1>2. QuestionsFit'
  BY DEF QuestionsFit
<1>3. FateFollows'
  <2>1. \A j : Advanced(j)' = Advanced(j)
    BY DEF Advanced, In, server
  <2> QED
    BY <2>1 DEF FateFollows, flags
<1>4. Calm' => \E c \in [Item -> Nat] : ListFollows(c)'
  <2> SUFFICES ASSUME Calm' PROVE \E c \in [Item -> Nat] : ListFollows(c)'
    OBVIOUS
  <2>1. PICK c \in [Item -> Nat] : ListFollows(c)
    BY DEF Calm, flags
  <2>2. PICK gone, new : gone = {} /\ new = {}
    OBVIOUS
  <2>3. ListFollows(c)'
    <3>1. UNCHANGED <<present, public, revision, listed, overtaken2>>
      BY DEF server, flags
    <3>2. new \in SUBSET Act /\ acts' = (acts \ gone) \cup new
      BY <2>2
    <3>3. \A x \in new : Honest(x, c)
      BY <2>2
    <3>4. \A r \in gone \cap acts : \A j \in Item :
              Promises(r, c, j) => \E x \in new : Promises(x, c, j)
      BY <2>2
    <3> QED
      BY <2>1, <3>1, <3>2, <3>3, <3>4, ListStays
  <2> QED
    BY <2>3
<1> QED
  BY <1>1, <1>2, <1>3, <1>4 DEF FateWasNamed, flags

LEMMA DialogKeeps == ASSUME SessionsInv, CloseDialog \/ ChooseFate PROVE SessionsInv'
<1>1. /\ acts' = acts /\ begunActs' = begunActs
      /\ UNCHANGED <<server, listed, flags>>
  BY DEF CloseDialog, ChooseFate
<1>2. dialog \in Dialog
  BY DEF SessionsInv, SessionsTyped
<1>3. CASE CloseDialog
  <2>1. dialog' = [dialog EXCEPT !.target = NoItem]
    BY <1>3 DEF CloseDialog
  <2>2. dialog' \in Dialog /\ dialog'.target = NoItem
    BY <1>2, <2>1 DEF Dialog
  <2> QED
    BY <1>1, <2>2, DialogMoves
<1>4. CASE ChooseFate
  <2>1. dialog' = [dialog EXCEPT !.choice = IF dialog.choice = "decided" THEN "withdrawn" ELSE "decided"]
    BY <1>4 DEF ChooseFate
  <2>2. /\ dialog' \in Dialog /\ dialog'.target = dialog.target /\ dialog'.impact = dialog.impact
        /\ dialog'.question = dialog.question /\ dialog'.stale = dialog.stale
    BY <1>2, <2>1 DEF Dialog
  <2> QED
    BY <1>1, <2>2, DialogMoves
<1> QED
  BY <1>3, <1>4

LEMMA HandleConfirmKeeps == ASSUME SessionsInv, HandleConfirm PROVE SessionsInv'
<1> USE DEF SessionsInv
<1> DEFINE a == Request("delete", dialog.target)
<1>1. dialog \in Dialog /\ dialog.target \in Item
  BY DEF HandleConfirm, SessionsTyped, Dialog
<1>2. a \in Act /\ a.n = begunActs /\ a.op = "delete" /\ a.item = dialog.target /\ a.at = "sent"
  BY <1>1, NewAct
<1>3. PICK fate \in {"decided", "withdrawn"} :
          fate = IF dialog.impact.named # {} THEN dialog.choice ELSE "decided"
  BY <1>1 DEF Dialog
<1>4. PICK b \in BOOLEAN : b = (dialog.stale \/ ~dialog.impact.asked)
  OBVIOUS
<1>5. /\ acts' = acts \cup {[a EXCEPT !.impact = dialog.impact, !.fate = fate, !.excused = b]}
      /\ begunActs' = begunActs + 1
      /\ dialog' = [dialog EXCEPT !.deleting = TRUE]
      /\ UNCHANGED <<server, listed, flags>>
  BY <1>3, <1>4 DEF HandleConfirm, Issue
<1> DEFINE q == [a EXCEPT !.impact = dialog.impact, !.fate = fate, !.excused = b]
<1> HIDE DEF a
<1>6. dialog.impact \in Impact
  BY <1>1 DEF Dialog
<1>7. /\ q \in Act /\ q.n = begunActs /\ q.op = "delete" /\ q.item = dialog.target /\ q.at = "sent"
      /\ q.impact = dialog.impact /\ q.excused = b
  BY <1>2, <1>3, <1>4, <1>6 DEF Act
<1>8. acts' = acts \cup {q}
  BY <1>5
<1> HIDE DEF q
<1>9. /\ dialog' \in Dialog /\ dialog'.target = dialog.target /\ dialog'.question = dialog.question
      /\ dialog'.impact = dialog.impact /\ dialog'.stale = dialog.stale
  BY <1>1, <1>5 DEF Dialog
<1>10. /\ SessionsTyped'
       /\ Calm' => \E c \in [Item -> Nat] : ListFollows(c)'
  BY <1>5, <1>7, <1>8, <1>9, Issued DEF server, flags
<1>11. QuestionsFit'
  BY <1>1, <1>5, <1>7, <1>8, <1>9 DEF QuestionsFit, SessionsTyped, Act
<1>12. FateFollows'
  <2>1. \A j : Advanced(j)' = Advanced(j)
    BY <1>5 DEF Advanced, In, server
  <2>2. ~moved => q.excused \/ Advanced(q.item) \subseteq q.impact.named
    <3>0. NoItem \notin Item
      BY Parts
    <3>1. dialog.stale \/ ~dialog.impact.asked => b
      BY <1>4
    <3> QED
      BY <1>1, <1>7, <3>0, <3>1 DEF FateFollows
  <2> QED
    BY <1>5, <1>7, <1>8, <1>9, <2>1, <2>2 DEF FateFollows, flags
<1> QED
  BY <1>5, <1>10, <1>11, <1>12 DEF FateWasNamed, flags

\* A request is answered, and others may follow from it.
LEMMA Answered ==
    ASSUME SessionsInv, NEW r \in acts, r.at # "refused", NEW new \in SUBSET Act,
           acts' = (acts \ {r}) \cup new, begunActs' = begunActs, dialog' \in Dialog,
           UNCHANGED <<present, public, place, revision, listed, overtaken2, unseen>>,
           \A c \in [Item -> Nat] : ListFollows(c) =>
               /\ \A q \in new : Honest(q, c)
               /\ \A j \in Item : Promises(r, c, j) => \E q \in new : Promises(q, c, j)
    PROVE  /\ SessionsTyped'
           /\ Calm' => \E c \in [Item -> Nat] : ListFollows(c)'
<1>1. SessionsTyped'
  BY DEF SessionsInv, SessionsTyped
<1>2. SUFFICES ASSUME Calm' PROVE \E c \in [Item -> Nat] : ListFollows(c)'
  BY <1>1
<1>3. Calm
  BY <1>2 DEF Calm
<1>4. PICK c \in [Item -> Nat] : ListFollows(c)
  BY <1>3 DEF SessionsInv
<1>5. PICK gone : gone = {r}
  OBVIOUS
<1>6. acts' = (acts \ gone) \cup new
  BY <1>5
<1>7. \A q \in new : Honest(q, c)
  BY <1>4
<1>8. \A s \in gone \cap acts : \A j \in Item :
          Promises(s, c, j) => \E q \in new : Promises(q, c, j)
  BY <1>4, <1>5
<1>9. ListFollows(c)'
  BY <1>4, <1>6, <1>7, <1>8, ListStays
<1> QED
  BY <1>9

LEMMA QuestionsStay ==
    ASSUME QuestionsFit, NEW r \in acts, NEW new, acts' = (acts \ {r}) \cup new, begunActs' = begunActs,
           dialog'.target = NoItem \/ (dialog'.target = dialog.target /\ dialog'.question = dialog.question),
           \A q \in new : /\ q.n = r.n
                          /\ q.op \notin {"impact", "delete", "create"} \/ (q.op = r.op /\ q.item = r.item)
    PROVE  QuestionsFit'
  BY DEF QuestionsFit

LEMMA ServeImpactKeeps == ASSUME SessionsInv, NEW r \in acts, ServeImpact(r) PROVE SessionsInv'
<1> USE DEF SessionsInv
<1>1. PICK named \in SUBSET Booked : named = Advanced(r.item)
  BY DEF Advanced, In
<1>2. r \in Act /\ r.op = "impact" /\ r.at = "sent"
  BY DEF ServeImpact, SessionsTyped
<1> DEFINE q == [r EXCEPT !.at = "done", !.impact = [asked |-> TRUE, named |-> named]]
<1>3. /\ q \in Act /\ q.n = r.n /\ q.op = r.op /\ q.item = r.item /\ q.at = "done"
      /\ q.impact.named = named
  BY <1>2, ImpactAct
<1>4. acts' = (acts \ {r}) \cup {q} /\ UNCHANGED <<server, listed, toggling, dialog, begunActs, flags>>
  BY <1>1 DEF ServeImpact, Replace
<1> HIDE DEF q
<1>5. PICK new \in SUBSET Act : new = {q}
  BY <1>3
<1>6. \A c \in [Item -> Nat] : /\ \A x \in new : Honest(x, c)
                               /\ \A j \in Item : ~Promises(r, c, j)
  BY <1>2, <1>3, <1>5 DEF Honest, Promises
<1>7. acts' = (acts \ {r}) \cup new
  BY <1>4, <1>5
<1>8. /\ SessionsTyped'
      /\ Calm' => \E c \in [Item -> Nat] : ListFollows(c)'
  <2>1. dialog' \in Dialog /\ begunActs' = begunActs
        /\ UNCHANGED <<present, public, place, revision, listed, overtaken2, unseen>>
    BY <1>4 DEF server, flags, SessionsTyped
  <2> QED
    BY <1>2, <1>6, <1>7, <2>1, Answered
<1>9. QuestionsFit'
  BY <1>3, <1>4, <1>5, <1>7, QuestionsStay
<1>10. FateFollows'
  <2>1. PICK gone : gone = {r}
    OBVIOUS
  <2>2. acts' = (acts \ gone) \cup new /\ UNCHANGED <<place, rank, dialog, moved>>
    BY <1>4, <1>7, <2>1 DEF server, flags
  <2> QED
    BY <1>1, <1>2, <1>3, <1>5, <2>2, FateStays
<1> QED
  BY <1>4, <1>8, <1>9, <1>10 DEF FateWasNamed, flags

LEMMA ServeListKeeps ==
    ASSUME SessionsInv, NEW r \in acts, NEW part \in {Single, Block}, ServeList(r, part)
    PROVE  SessionsInv'
<1> USE DEF SessionsInv
<1>1. /\ r \in Act /\ r.op = "load" /\ r.at = "sent" /\ part \notin r.got
      /\ present \in SUBSET Item /\ public \in SUBSET Item /\ revision \in Nat
      /\ UNCHANGED <<server, listed, toggling, dialog, begunActs, flags>>
  BY DEF ServeList, SessionsTyped
<1>2. PICK pre \in SUBSET Item, pub \in SUBSET Item, v \in Nat :
          pre = present /\ pub = public /\ v = revision
  BY <1>1
<1> DEFINE q == [r EXCEPT
                   !.got = r.got \cup {part},
                   !.view = [present |-> (r.view.present \ part) \cup (pre \cap part),
                             public |-> (r.view.public \ part) \cup (pub \cap part),
                             revision |-> IF r.got = {} THEN v ELSE r.view.revision],
                   !.at = IF r.got \cup {part} = {Single, Block} THEN "done" ELSE "sent"]
<1>3. /\ q \in Act /\ q.n = r.n /\ q.op = r.op /\ q.item = r.item
      /\ q.got = r.got \cup {part}
      /\ q.at \in {"sent", "done"} /\ (q.at = "done" => q.got = {Single, Block})
      /\ q.view.present = (r.view.present \ part) \cup (pre \cap part)
      /\ q.view.public = (r.view.public \ part) \cup (pub \cap part)
      /\ q.view.revision = IF r.got = {} THEN v ELSE r.view.revision
  <2>1. r.view \in ListView /\ r.got \in SUBSET {Single, Block}
    BY <1>1 DEF Act
  <2> DEFINE w == [present |-> (r.view.present \ part) \cup (pre \cap part),
                   public |-> (r.view.public \ part) \cup (pub \cap part),
                   revision |-> IF r.got = {} THEN v ELSE r.view.revision]
             g == r.got \cup {part}
             at == IF g = {Single, Block} THEN "done" ELSE "sent"
  <2>2. w \in ListView
    BY <1>2, <2>1 DEF ListView
  <2>3. g \in SUBSET {Single, Block}
    BY <2>1
  <2>4. at \in {"sent", "done"} /\ (at = "done" => g = {Single, Block})
    OBVIOUS
  <2>5. /\ w.present = (r.view.present \ part) \cup (pre \cap part)
        /\ w.public = (r.view.public \ part) \cup (pub \cap part)
        /\ w.revision = IF r.got = {} THEN v ELSE r.view.revision
    OBVIOUS
  <2>6. q = [r EXCEPT !.got = g, !.view = w, !.at = at]
    OBVIOUS
  <2> HIDE DEF w, g, at, q
  <2>7. q \in Act /\ q.n = r.n /\ q.op = r.op /\ q.item = r.item /\ q.got = g /\ q.at = at /\ q.view = w
    BY <1>1, <2>2, <2>3, <2>4, <2>6 DEF Act
  <2> QED
    BY <2>4, <2>5, <2>7 DEF g
<1>4. acts' = (acts \ {r}) \cup {q}
  BY <1>2 DEF ServeList, Replace
<1> HIDE DEF q
<1>5. PICK new \in SUBSET Act : new = {q}
  BY <1>3
<1>6. acts' = (acts \ {r}) \cup new
  BY <1>4, <1>5
<1>7. ASSUME NEW c \in [Item -> Nat], ListFollows(c)
      PROVE  /\ \A x \in new : Honest(x, c)
             /\ \A j \in Item : Promises(r, c, j) => \E x \in new : Promises(x, c, j)
  <2>1. Honest(r, c) /\ \A i \in Item : c[i] <= revision
    BY <1>7 DEF ListFollows
  <2>2. r.view \in ListView
    BY <1>1 DEF Act
  <2>3. q.view.revision <= revision
    BY <1>1, <1>2, <1>3, <2>1 DEF Honest
  <2>4. Single \in q.got => present \cap Single \subseteq q.view.present
    <3>1. CASE part = Single
      BY <1>2, <1>3, <3>1
    <3>2. CASE part # Single
      BY <1>1, <1>2, <1>3, <2>1, <3>2, Parts DEF Honest
    <3> QED
      BY <3>1, <3>2
  <2>5. ASSUME NEW i \in Item, PartOf(i) \in q.got, q.view.revision >= c[i]
        PROVE  /\ i \in q.view.present <=> i \in present
               /\ i \in q.view.public <=> i \in public
    <3>1. CASE PartOf(i) = part
      BY <1>2, <1>3, <3>1, Parts
    <3>2. CASE PartOf(i) # part
      <4>1. PartOf(i) \in r.got
        BY <1>3, <2>5, <3>2
      <4>2. r.got # {} /\ q.view.revision = r.view.revision
        BY <1>3, <4>1
      <4>3. i \notin part
        BY <3>2, Parts DEF PartOf
      <4>4. /\ i \in r.view.present <=> i \in present
            /\ i \in r.view.public <=> i \in public
        BY <1>1, <2>1, <2>5, <4>1, <4>2 DEF Honest
      <4> QED
        BY <1>3, <4>3, <4>4
    <3> QED
      BY <3>1, <3>2
  <2>6. Honest(q, c)
    BY <1>1, <1>3, <2>3, <2>4, <2>5 DEF Honest
  <2>7. \A j \in Item : Promises(r, c, j) => Promises(q, c, j)
    <3> SUFFICES ASSUME NEW j \in Item, Promises(r, c, j) PROVE Promises(q, c, j)
      OBVIOUS
    <3>1. r.got = {} \/ r.view.revision >= c[j]
      BY <1>1, <1>7 DEF Promises
    <3>2. q.view.revision >= c[j]
      BY <1>1, <1>2, <1>3, <2>1, <3>1
    <3> QED
      BY <1>1, <1>3, <3>2 DEF Promises
  <2> QED
    BY <1>5, <2>6, <2>7
<1>8. /\ SessionsTyped'
      /\ Calm' => \E c \in [Item -> Nat] : ListFollows(c)'
  <2>1. dialog' \in Dialog /\ begunActs' = begunActs
        /\ UNCHANGED <<present, public, place, revision, listed, overtaken2, unseen>>
    BY <1>1 DEF server, flags, SessionsTyped
  <2> QED
    BY <1>1, <1>6, <1>7, <2>1, Answered
<1>9. QuestionsFit'
  BY <1>1, <1>3, <1>5, <1>6, QuestionsStay
<1>10. FateFollows'
  <2>1. PICK gone : gone = {r}
    OBVIOUS
  <2>2. acts' = (acts \ gone) \cup new /\ UNCHANGED <<place, rank, dialog, moved>>
    BY <1>1, <1>6, <2>1 DEF server, flags
  <2>3. \A x \in new : x.op = "load"
    BY <1>1, <1>3, <1>5
  <2> QED
    BY <2>2, <2>3, FateStays
<1> QED
  BY <1>1, <1>8, <1>9, <1>10 DEF FateWasNamed, flags

\* The server changes an item.
LEMMA ItemServed ==
    ASSUME SessionsInv, NEW r \in acts, r.at = "sent", r.op \in {"publish", "create", "delete"},
           r.item \in Item,
           NEW q \in Act, acts' = (acts \ {r}) \cup {q},
           q.n = r.n, q.op = r.op, q.item = r.item, q.at = "done",
           revision' = revision + 1, UNCHANGED <<listed, dialog, begunActs, overtaken2, unseen>>,
           present' \in SUBSET Item, public' \in SUBSET Item,
           place' \in [Booked -> Item \cup {NoItem}],
           \A j \in Item \ {r.item} : (j \in present' <=> j \in present) /\ (j \in public' <=> j \in public),
           r.item \in present' /\ r.item \notin present => r.op = "create",
           r.op = "publish" => /\ q.view.revision = revision + 1 /\ r.item \in present'
                               /\ q.fate = "public" <=> r.item \in public'
    PROVE  /\ SessionsTyped' /\ QuestionsFit'
           /\ Calm' => \E c \in [Item -> Nat] : ListFollows(c)'
<1> USE DEF SessionsInv
<1>1. SessionsTyped'
  BY DEF SessionsTyped
<1>2. QuestionsFit'
  <2>1. PICK new : new = {q}
    OBVIOUS
  <2> QED
    BY <2>1, QuestionsStay
<1>3. ASSUME Calm' PROVE \E c \in [Item -> Nat] : ListFollows(c)'
  <2>1. Calm
    BY <1>3 DEF Calm
  <2>2. PICK c \in [Item -> Nat] : ListFollows(c)
    BY <2>1
  <2>3. r.op = "create" => r.item \in Block
    BY <2>2 DEF ListFollows, Honest
  <2> QED
    BY <2>2, <2>3, ItemChanges
<1> QED
  BY <1>1, <1>2, <1>3

LEMMA ServePublishKeeps == ASSUME SessionsInv, NEW r \in acts, ServePublish(r) PROVE SessionsInv'
<1> USE DEF SessionsInv
<1>1. /\ r \in Act /\ r.op = "publish" /\ r.at = "sent" /\ r.item \in present
      /\ present \in SUBSET Item /\ public \in SUBSET Item /\ revision \in Nat
  BY DEF ServePublish, SessionsTyped
<1>2. PICK v \in Nat : v = revision + 1
  BY <1>1
<1> DEFINE q == [r EXCEPT !.at = "done", !.view.revision = v]
<1>3. /\ q \in Act /\ q.n = r.n /\ q.op = r.op /\ q.item = r.item /\ q.at = "done"
      /\ q.fate = r.fate /\ q.view.revision = v
  <2>1. r.view \in ListView
    BY <1>1 DEF Act
  <2>2. [r.view EXCEPT !.revision = v] \in ListView /\ [r.view EXCEPT !.revision = v].revision = v
    BY <1>2, <2>1 DEF ListView
  <2> QED
    BY <1>1, <2>2 DEF Act
<1>4. acts' = (acts \ {r}) \cup {q}
  BY <1>2 DEF ServePublish, Replace
<1> HIDE DEF q
<1>5. /\ public' = IF r.fate = "public" THEN public \cup {r.item} ELSE public \ {r.item}
      /\ revision' = revision + 1
      /\ UNCHANGED <<present, place, rank, listed, toggling, dialog, begunActs, flags>>
  BY DEF ServePublish
<1>6. /\ SessionsTyped' /\ QuestionsFit'
      /\ Calm' => \E c \in [Item -> Nat] : ListFollows(c)'
  <2>1. present' \in SUBSET Item /\ public' \in SUBSET Item /\ r.item \in Item /\ r.item \in present'
        /\ place' \in [Booked -> Item \cup {NoItem}]
    BY <1>1, <1>5 DEF SessionsTyped
  <2>2. \A j \in Item \ {r.item} : (j \in present' <=> j \in present) /\ (j \in public' <=> j \in public)
    BY <1>5
  <2>3. UNCHANGED <<listed, dialog, begunActs, overtaken2, unseen>>
    BY <1>5 DEF flags
  <2>4. q.view.revision = revision + 1 /\ (q.fate = "public" <=> r.item \in public')
    BY <1>2, <1>3, <1>5
  <2> QED
    BY <1>1, <1>3, <1>4, <1>5, <2>1, <2>2, <2>3, <2>4, ItemServed
<1>7. FateFollows'
  <2>1. PICK gone, new : gone = {r} /\ new = {q}
    OBVIOUS
  <2>2. acts' = (acts \ gone) \cup new /\ UNCHANGED <<place, rank, dialog, moved>>
    BY <1>4, <1>5, <2>1 DEF flags
  <2>3. \A x \in new : x.op = "publish"
    BY <1>1, <1>3, <2>1
  <2> QED
    BY <2>2, <2>3, FateStays
<1> QED
  BY <1>5, <1>6, <1>7 DEF FateWasNamed, flags

LEMMA ServeCreateKeeps == ASSUME SessionsInv, NEW r \in acts, ServeCreate(r) PROVE SessionsInv'
<1> USE DEF SessionsInv
<1>1. /\ r \in Act /\ r.op = "create" /\ r.at = "sent" /\ r.item \notin present
      /\ present \in SUBSET Item /\ public \in SUBSET Item /\ revision \in Nat
      /\ r.item \in Item
  BY DEF ServeCreate, SessionsTyped, QuestionsFit
<1> DEFINE q == [r EXCEPT !.at = "done"]
<1>3. /\ q \in Act /\ q.n = r.n /\ q.op = r.op /\ q.item = r.item /\ q.at = "done"
  BY <1>1, DoneAct
<1>4. acts' = (acts \ {r}) \cup {q}
  BY DEF ServeCreate, Replace
<1> HIDE DEF q
<1>5. /\ present' = present \cup {r.item}
      /\ revision' = revision + 1
      /\ UNCHANGED <<public, place, rank, listed, toggling, dialog, begunActs, flags>>
  BY DEF ServeCreate
<1>6. /\ SessionsTyped' /\ QuestionsFit'
      /\ Calm' => \E c \in [Item -> Nat] : ListFollows(c)'
  <2>1. present' \in SUBSET Item /\ public' \in SUBSET Item
        /\ place' \in [Booked -> Item \cup {NoItem}]
    BY <1>1, <1>5 DEF SessionsTyped
  <2>2. \A j \in Item \ {r.item} : (j \in present' <=> j \in present) /\ (j \in public' <=> j \in public)
    BY <1>5
  <2>3. UNCHANGED <<listed, dialog, begunActs, overtaken2, unseen>>
    BY <1>5 DEF flags
  <2> QED
    BY <1>1, <1>3, <1>4, <1>5, <2>1, <2>2, <2>3, ItemServed
<1>7. FateFollows'
  <2>1. PICK gone, new : gone = {r} /\ new = {q}
    OBVIOUS
  <2>2. acts' = (acts \ gone) \cup new /\ UNCHANGED <<place, rank, dialog, moved>>
    BY <1>4, <1>5, <2>1 DEF flags
  <2>3. \A x \in new : x.op = "create"
    BY <1>1, <1>3, <2>1
  <2> QED
    BY <2>2, <2>3, FateStays
<1> QED
  BY <1>5, <1>6, <1>7 DEF FateWasNamed, flags

LEMMA ServeDeleteKeeps == ASSUME SessionsInv, NEW r \in acts, ServeDelete(r) PROVE SessionsInv'
<1> USE DEF SessionsInv
<1>1. /\ r \in Act /\ r.op = "delete" /\ r.at = "sent" /\ r.item \in present
      /\ present \in SUBSET Item /\ public \in SUBSET Item /\ revision \in Nat
      /\ place \in [Booked -> Item \cup {NoItem}] /\ r.item \in Item
  BY DEF ServeDelete, SessionsTyped
<1> DEFINE q == [r EXCEPT !.at = "done"]
<1>3. /\ q \in Act /\ q.n = r.n /\ q.op = r.op /\ q.item = r.item /\ q.at = "done"
      /\ q.impact = r.impact /\ q.excused = r.excused
  BY <1>1, DoneAct
<1>4. acts' = (acts \ {r}) \cup {q}
  BY DEF ServeDelete, Replace
<1> HIDE DEF q
<1>5. /\ present' = present \ {r.item} /\ public' = public \ {r.item}
      /\ revision' = revision + 1
      /\ place' = [t \in Booked |-> IF place[t] = r.item THEN NoItem ELSE place[t]]
      /\ rank' = [t \in Booked |->
                     IF t \in Advanced(r.item) THEN r.fate
                     ELSE IF t \in In(r.item) THEN "decided" ELSE rank[t]]
      /\ unnamed' = (unnamed \/ ~(\/ Advanced(r.item) \subseteq r.impact.named
                                  \/ r.excused \/ moved))
      /\ UNCHANGED <<listed, toggling, dialog, begunActs, overtaken2, unseen, moved>>
  BY DEF ServeDelete
<1>6. /\ SessionsTyped' /\ QuestionsFit'
      /\ Calm' => \E c \in [Item -> Nat] : ListFollows(c)'
  <2>1. present' \in SUBSET Item /\ public' \in SUBSET Item
        /\ place' \in [Booked -> Item \cup {NoItem}]
    BY <1>1, <1>5
  <2>2. \A j \in Item \ {r.item} : (j \in present' <=> j \in present) /\ (j \in public' <=> j \in public)
    BY <1>5
  <2>3. r.item \notin present'
    BY <1>5
  <2> QED
    BY <1>1, <1>3, <1>4, <1>5, <2>1, <2>2, <2>3, ItemServed
<1>7. \A i \in Item : Advanced(i)' \subseteq Advanced(i)
  BY <1>1, <1>5, Parts DEF Advanced, In
<1>8. FateFollows'
  <2> SUFFICES ASSUME ~moved PROVE FateFollows'
    BY <1>5 DEF FateFollows
  <2>1. \A x \in acts : x.op \in {"impact", "delete"} => x.item \in Item
    BY DEF QuestionsFit
  <2>2. \A x \in acts' : x.op = "impact" /\ x.at = "done" => (Advanced(x.item))' \subseteq x.impact.named
    BY <1>1, <1>3, <1>4, <1>7, <2>1 DEF FateFollows
  <2>3. \A x \in acts' : x.op = "delete" => x.excused \/ (Advanced(x.item))' \subseteq x.impact.named
    BY <1>1, <1>3, <1>4, <1>7, <2>1 DEF FateFollows
  <2>4. (dialog.target # NoItem /\ ~dialog.stale /\ dialog.impact.asked) =>
            (Advanced(dialog.target))' \subseteq dialog.impact.named
    BY <1>5, <1>7 DEF FateFollows, SessionsTyped, Dialog
  <2> QED
    BY <1>5, <2>2, <2>3, <2>4 DEF FateFollows
<1>9. ~unnamed'
  <2>1. moved \/ r.excused \/ Advanced(r.item) \subseteq r.impact.named
    BY <1>1 DEF FateFollows
  <2> QED
    BY <1>5, <2>1 DEF FateWasNamed
<1> QED
  BY <1>6, <1>8, <1>9 DEF FateWasNamed

LEMMA RefuseKeeps == ASSUME SessionsInv, NEW r \in acts, Refuse(r) PROVE SessionsInv'
<1> USE DEF SessionsInv
<1>1. r \in Act
  BY DEF SessionsTyped
<1> DEFINE q == [r EXCEPT !.at = "refused"]
<1>2. /\ q \in Act /\ q.n = r.n /\ q.op = r.op /\ q.item = r.item /\ q.at = "refused"
      /\ q.impact = r.impact /\ q.excused = r.excused
  BY <1>1, DoneAct
<1>3. acts' = (acts \ {r}) \cup {q}
      /\ UNCHANGED <<server, listed, toggling, dialog, begunActs, overtaken2, moved, unnamed>>
  BY DEF Refuse, Replace
<1> HIDE DEF q
<1>4. SessionsTyped'
  BY <1>2, <1>3 DEF SessionsTyped, server
<1>5. PICK gone, new : gone = {r} /\ new = {q}
  OBVIOUS
<1>6. acts' = (acts \ gone) \cup new
  BY <1>3, <1>5
<1>7. QuestionsFit'
  BY <1>2, <1>3, <1>5, QuestionsStay
<1>8. FateFollows'
  <2>1. UNCHANGED <<place, rank, dialog, moved>>
    BY <1>3 DEF server
  <2>2. \A x \in new : /\ x.op = "impact" /\ x.at = "done" => Advanced(x.item) \subseteq x.impact.named
                       /\ ~moved /\ x.op = "delete" => x.excused \/ Advanced(x.item) \subseteq x.impact.named
    BY <1>2, <1>5 DEF FateFollows
  <2> QED
    BY <1>6, <2>1, <2>2, FateStays
<1>9. ~Calm'
  BY <1>2, <1>3 DEF Calm
<1> QED
  BY <1>3, <1>4, <1>7, <1>8, <1>9 DEF FateWasNamed

LEMMA MoveOnKeeps == ASSUME SessionsInv, NEW t \in Booked, MoveOn(t) PROVE SessionsInv'
<1> USE DEF SessionsInv
<1>1. /\ moved' = TRUE
      /\ UNCHANGED <<present, public, place, revision, listed, dialog, acts, begunActs,
                     overtaken2, unseen, unnamed>>
  BY DEF MoveOn
<1>2. SessionsTyped' /\ QuestionsFit' /\ FateFollows'
  BY <1>1 DEF SessionsTyped, QuestionsFit, FateFollows
<1>3. ASSUME Calm' PROVE \E c \in [Item -> Nat] : ListFollows(c)'
  <2>1. PICK c \in [Item -> Nat] : ListFollows(c)
    BY <1>1, <1>3 DEF Calm
  <2>2. PICK gone, new : gone = {} /\ new = {}
    OBVIOUS
  <2>3. new \in SUBSET Act /\ acts' = (acts \ gone) \cup new
    BY <1>1, <2>2
  <2>4. \A x \in new : Honest(x, c)
    BY <2>2
  <2>5. \A r \in gone \cap acts : \A j \in Item :
            Promises(r, c, j) => \E x \in new : Promises(x, c, j)
    BY <2>2
  <2>6. ListFollows(c)'
    BY <1>1, <2>1, <2>3, <2>4, <2>5, ListStays
  <2> QED
    BY <2>6
<1> QED
  BY <1>1, <1>2, <1>3 DEF FateWasNamed

\* The answers after which the list is loaded.
LEMMA ReloadingKeeps ==
    ASSUME SessionsInv, NEW r \in acts, r.at = "done", acts' = (acts \ {r}) \cup Reload(r),
           begunActs' = begunActs, UNCHANGED <<server, listed, flags>>, dialog' \in Dialog,
           dialog'.target = NoItem \/ dialog' = dialog
    PROVE  SessionsInv'
<1> USE DEF SessionsInv
<1>1. r \in Act
  BY DEF SessionsTyped
<1>2. PICK q \in Act : Reload(r) = {q} /\ q.n = r.n /\ q.op = "load" /\ q.at = "sent" /\ q.got = {}
  BY <1>1, ReloadAct
<1>3. PICK new \in SUBSET Act : new = {q}
  OBVIOUS
<1>4. acts' = (acts \ {r}) \cup new
  BY <1>2, <1>3
<1>5. \A c \in [Item -> Nat] : Honest(q, c) /\ \A j \in Item : Promises(q, c, j)
  BY <1>2, Parts DEF Honest, Promises
<1>6. /\ SessionsTyped'
      /\ Calm' => \E c \in [Item -> Nat] : ListFollows(c)'
  <2>1. UNCHANGED <<present, public, place, revision, listed, overtaken2, unseen>>
    BY DEF server, flags
  <2>2. \A c \in [Item -> Nat] : /\ \A x \in new : Honest(x, c)
                                 /\ \A j \in Item : \E x \in new : Promises(x, c, j)
    BY <1>3, <1>5
  <2> QED
    BY <1>4, <2>1, <2>2, Answered
<1>7. QuestionsFit'
  BY <1>2, <1>3, <1>4, QuestionsStay
<1>8. FateFollows'
  <2>1. \A j : Advanced(j)' = Advanced(j)
    BY DEF Advanced, In, server
  <2> QED
    BY <1>2, <1>3, <1>4, <2>1 DEF FateFollows, flags
<1> QED
  BY <1>6, <1>7, <1>8 DEF FateWasNamed, flags

LEMMA PublishAnsweredKeeps == ASSUME SessionsInv, NEW r \in acts, PublishAnswered(r) PROVE SessionsInv'
<1> USE DEF SessionsInv
<1>1. /\ r \in Act /\ r.op = "publish" /\ r.at = "done"
      /\ UNCHANGED <<server, dialog, begunActs, unseen, moved, unnamed>>
      /\ present \in SUBSET Item /\ public \in SUBSET Item /\ revision \in Nat
      /\ listed \in ListView /\ r.view.revision \in Nat
  BY DEF PublishAnswered, SessionsTyped, Act, ListView
<1>2. CASE r.item \in Block
  <2>1. acts' = (acts \ {r}) \cup Reload(r) /\ UNCHANGED <<listed, overtaken2>>
    BY <1>2, Parts DEF PublishAnswered, Replace, AfterBlock
  <2>2. dialog' \in Dialog /\ dialog' = dialog
    BY <1>1 DEF SessionsTyped
  <2>3. UNCHANGED flags
    BY <1>1, <2>1 DEF flags
  <2> QED
    BY <1>1, <2>1, <2>2, <2>3, ReloadingKeeps
<1>3. CASE r.item \in Single /\ r.item \notin Block
  <2> DEFINE i == r.item
             pub == IF r.fate = "public" THEN listed.public \cup ({i} \cap listed.present)
                    ELSE listed.public \ {i}
             rev == IF r.view.revision > listed.revision THEN r.view.revision ELSE listed.revision
  <2>1. /\ listed' = [listed EXCEPT !.public = pub, !.revision = rev]
        /\ acts' = acts \ {r}
    BY <1>3 DEF PublishAnswered, Replace
  <2>2. ~overtaken2' => ~overtaken2 /\ ~(r.view.revision < listed.revision)
    BY <1>3 DEF PublishAnswered
  <2>3. pub \in SUBSET Item /\ rev \in Nat
    BY <1>1 DEF ListView
  <2>4. \A j \in Item \ {i} : j \in pub <=> j \in listed.public
    OBVIOUS
  <2>5. i \in pub <=> (IF r.fate = "public" THEN i \in listed.public \/ i \in listed.present ELSE FALSE)
    OBVIOUS
  <2>6. rev >= listed.revision /\ rev >= r.view.revision /\ (rev = listed.revision \/ rev = r.view.revision)
    BY <1>1 DEF ListView
  <2>7. PICK p \in SUBSET Item, n \in Nat : p = pub /\ n = rev
    BY <2>3
  <2>8. /\ listed' \in ListView /\ listed'.present = listed.present /\ listed'.public = p
        /\ listed'.revision = n
    <3>1. listed' = [listed EXCEPT !.public = p, !.revision = n]
      BY <2>1, <2>7
    <3> QED
      BY <1>1, <2>7, <3>1 DEF ListView
  <2>9. SessionsTyped'
    BY <1>1, <2>1, <2>8 DEF SessionsTyped, server
  <2>10. PICK gone, new : gone = {r} /\ new = {}
    OBVIOUS
  <2>11. acts' = (acts \ gone) \cup new
    BY <2>1, <2>10
  <2>12. QuestionsFit'
    BY <1>1, <2>1 DEF QuestionsFit
  <2>13. FateFollows'
    <3>1. UNCHANGED <<place, rank, dialog, moved>> /\ \A q \in new : FALSE
      BY <1>1, <2>10 DEF server
    <3> QED
      BY <2>11, <3>1, FateStays
  <2>14. ASSUME Calm' PROVE \E c \in [Item -> Nat] : ListFollows(c)'
    <3>1. Calm
      BY <1>1, <2>1, <2>14 DEF Calm
    <3>2. PICK c \in [Item -> Nat] : ListFollows(c)
      BY <3>1
    <3>3. Honest(r, c) /\ i \in Item
      BY <1>3, <3>2 DEF ListFollows, Item
    <3>4. /\ r.view.revision <= revision
          /\ r.view.revision >= c[i] => i \in present /\ (r.fate = "public" <=> i \in public)
      BY <1>1, <1>3, <3>3 DEF Honest
    <3>5. listed'.revision <= revision
      BY <2>6, <2>7, <2>8, <3>2, <3>4 DEF ListFollows
    <3>6. \A q \in acts' : Honest(q, c)'
      BY <1>1, <2>1, <3>2 DEF ListFollows, Honest, server
    <3>7. \A j \in Item : Promised(c, j) => Promised(c, j)' \/ (j = i /\ r.view.revision >= c[i])
      <4> SUFFICES ASSUME NEW j \in Item, NEW s \in acts, Promises(s, c, j)
                   PROVE  Promised(c, j)' \/ (j = i /\ r.view.revision >= c[i])
        BY DEF Promised
      <4>1. CASE s = r
        BY <1>1, <1>3, <4>1 DEF Promises
      <4>2. CASE s # r
        <5>1. s \in acts' /\ Promises(s, c, j)'
          BY <2>1, <4>2 DEF Promises
        <5> QED
          BY <5>1 DEF Promised
      <4> QED
        BY <4>1, <4>2
    <3>8. ASSUME NEW j \in Item PROVE listed'.revision >= c[j] \/ Promised(c, j)'
      <4>1. c[j] \in Nat /\ listed.revision \in Nat
        BY <1>1 DEF ListView
      <4> QED
        BY <1>1, <2>6, <2>7, <2>8, <3>2, <3>7, <4>1 DEF ListFollows
    <3>9. ASSUME ~overtaken2', NEW j \in Item PROVE Agrees(j)' \/ Promised(c, j)'
      <4>1. ~overtaken2 /\ r.view.revision >= listed.revision
        BY <1>1, <2>2, <3>9 DEF ListView
      <4>2. c[j] \in Nat /\ listed.revision \in Nat
        BY <1>1 DEF ListView
      <4>3. CASE j = i
        <5>1. CASE r.view.revision >= c[i]
          <6>1. i \in present /\ i \in listed.present
            BY <1>3, <3>2, <3>4, <5>1 DEF ListFollows
          <6>2. Agrees(i)'
            BY <1>1, <2>5, <2>7, <2>8, <3>4, <5>1, <6>1 DEF Agrees, server
          <6> QED
            BY <4>3, <6>2
        <5>2. CASE ~(r.view.revision >= c[i])
          <6>1. ~(listed.revision >= c[i])
            BY <1>1, <4>1, <4>2, <4>3, <5>2
          <6>2. Promised(c, i)
            BY <3>2, <3>3, <6>1 DEF ListFollows
          <6> QED
            BY <3>3, <3>7, <4>3, <5>2, <6>2
        <5> QED
          BY <5>1, <5>2
      <4>4. CASE j # i
        <5>1. Agrees(j) => Agrees(j)'
          BY <1>1, <2>4, <2>7, <2>8, <4>4 DEF Agrees, server
        <5> QED
          BY <3>2, <3>7, <4>1, <4>4, <5>1 DEF ListFollows
      <4> QED
        BY <4>3, <4>4
    <3>10. \A j \in Item : c[j] <= revision'
      BY <1>1, <3>2 DEF ListFollows, server
    <3>11. present' \cap Single \subseteq listed'.present
      BY <1>1, <2>8, <3>2 DEF ListFollows, server
    <3>12. listed'.revision <= revision'
      BY <1>1, <3>5 DEF server
    <3>13. ListFollows(c)'
      BY <3>6, <3>8, <3>9, <3>10, <3>11, <3>12 DEF ListFollows
    <3> QED
      BY <3>13
  <2> QED
    BY <1>1, <2>9, <2>12, <2>13, <2>14 DEF FateWasNamed
<1>4. r.item \in Single \/ r.item \in Block
  BY DEF PublishAnswered
<1> QED
  BY <1>2, <1>3, <1>4

LEMMA LoadAnsweredKeeps == ASSUME SessionsInv, NEW r \in acts, LoadAnswered(r) PROVE SessionsInv'
<1> USE DEF SessionsInv
<1>1. /\ r \in Act /\ r.op = "load" /\ r.at = "done"
      /\ UNCHANGED <<server, dialog, begunActs, unseen, moved, unnamed>>
      /\ present \in SUBSET Item /\ public \in SUBSET Item /\ revision \in Nat
      /\ listed \in ListView /\ r.view \in ListView /\ acts' = acts \ {r}
  BY DEF LoadAnswered, SessionsTyped, Act, Replace
<1>2. ~overtaken2' => ~(r.view.revision < listed.revision)
  BY DEF LoadAnswered
<1>3. PICK n \in Nat : /\ listed' = [r.view EXCEPT !.revision = n]
                       /\ n >= listed.revision /\ n >= r.view.revision
                       /\ n = listed.revision \/ n = r.view.revision
  <2> DEFINE n == IF r.view.revision > listed.revision THEN r.view.revision ELSE listed.revision
  <2>1. /\ n \in Nat /\ n >= listed.revision /\ n >= r.view.revision
        /\ n = listed.revision \/ n = r.view.revision
    BY <1>1 DEF ListView
  <2>2. listed' = [r.view EXCEPT !.revision = n]
    BY DEF LoadAnswered
  <2> QED
    BY <2>1, <2>2
<1>4. /\ listed' \in ListView /\ listed'.present = r.view.present /\ listed'.public = r.view.public
      /\ listed'.revision = n
  BY <1>1, <1>3 DEF ListView
<1>5. SessionsTyped'
  BY <1>1, <1>4 DEF SessionsTyped, server
<1>6. QuestionsFit'
  BY <1>1 DEF QuestionsFit
<1>7. FateFollows'
  <2>1. PICK gone, new : gone = {r} /\ new = {}
    OBVIOUS
  <2>2. acts' = (acts \ gone) \cup new
    BY <1>1, <2>1
  <2>3. UNCHANGED <<place, rank, dialog, moved>> /\ \A q \in new : FALSE
    BY <1>1, <2>1 DEF server
  <2> QED
    BY <2>2, <2>3, FateStays
<1>8. ASSUME Calm' PROVE \E c \in [Item -> Nat] : ListFollows(c)'
  <2>1. Calm
    BY <1>1, <1>8 DEF Calm
  <2>2. PICK c \in [Item -> Nat] : ListFollows(c)
    BY <2>1
  <2>3. Honest(r, c) /\ r.got = {Single, Block}
    BY <1>1, <2>2 DEF ListFollows, Honest
  <2>4. /\ r.view.revision <= revision
        /\ present \cap Single \subseteq r.view.present
        /\ \A i \in Item : r.view.revision >= c[i] => /\ i \in r.view.present <=> i \in present
                                                      /\ i \in r.view.public <=> i \in public
    BY <1>1, <2>3, Parts DEF Honest
  <2>5. \A q \in acts' : Honest(q, c)'
    BY <1>1, <2>2 DEF ListFollows, Honest, server
  <2>6. ASSUME NEW j \in Item, Promised(c, j)
        PROVE  Promised(c, j)' \/ r.view.revision >= c[j]
    <3>1. PICK s \in acts : Promises(s, c, j)
      BY <2>6 DEF Promised
    <3>2. CASE s = r
      BY <1>1, <2>3, <3>1, <3>2 DEF Promises
    <3>3. CASE s # r
      <4>1. s \in acts' /\ Promises(s, c, j)'
        BY <1>1, <3>1, <3>3 DEF Promises
      <4> QED
        BY <4>1 DEF Promised
    <3> QED
      BY <3>2, <3>3
  <2>7. ASSUME NEW j \in Item PROVE listed'.revision >= c[j] \/ Promised(c, j)'
    <3>1. c[j] \in Nat /\ listed.revision \in Nat /\ r.view.revision \in Nat
      BY <1>1 DEF ListView
    <3> QED
      BY <1>3, <1>4, <2>2, <2>6, <3>1 DEF ListFollows
  <2>8. ASSUME ~overtaken2', NEW j \in Item PROVE Agrees(j)' \/ Promised(c, j)'
    <3>1. c[j] \in Nat /\ listed.revision \in Nat /\ r.view.revision \in Nat
      BY <1>1 DEF ListView
    <3>2. r.view.revision >= listed.revision
      BY <1>2, <2>8, <3>1
    <3>3. CASE r.view.revision >= c[j]
      <4>1. Agrees(j)'
        BY <1>1, <1>4, <2>4, <3>3 DEF Agrees, server
      <4> QED
        BY <4>1
    <3>4. CASE ~(r.view.revision >= c[j])
      <4>1. ~(listed.revision >= c[j])
        BY <3>1, <3>2, <3>4
      <4>2. Promised(c, j)
        BY <2>2, <4>1 DEF ListFollows
      <4> QED
        BY <2>6, <3>4, <4>2
    <3> QED
      BY <3>3, <3>4
  <2>9. listed'.revision <= revision' /\ present' \cap Single \subseteq listed'.present
        /\ \A j \in Item : c[j] <= revision'
    BY <1>1, <1>3, <1>4, <2>2, <2>4 DEF ListFollows, server
  <2>10. ListFollows(c)'
    BY <2>5, <2>7, <2>8, <2>9 DEF ListFollows
  <2> QED
    BY <2>10
<1> QED
  BY <1>1, <1>5, <1>6, <1>7, <1>8 DEF FateWasNamed

LEMMA ReloadsKeep ==
    ASSUME SessionsInv, NEW r \in acts, CreateAnswered(r) \/ DeleteAnswered(r)
    PROVE  SessionsInv'
<1>1. /\ r.at = "done" /\ acts' = (acts \ {r}) \cup Reload(r) /\ begunActs' = begunActs
      /\ UNCHANGED <<server, listed, flags>>
  BY DEF CreateAnswered, DeleteAnswered, Replace
<1>2. dialog \in Dialog
  BY DEF SessionsInv, SessionsTyped
<1>3. dialog' = dialog \/ dialog' = [dialog EXCEPT !.deleting = FALSE, !.target = NoItem]
  BY DEF CreateAnswered, DeleteAnswered
<1>4. dialog' \in Dialog /\ (dialog'.target = NoItem \/ dialog' = dialog)
  BY <1>2, <1>3 DEF Dialog
<1> QED
  BY <1>1, <1>4, ReloadingKeeps

LEMMA ImpactAnsweredKeeps == ASSUME SessionsInv, NEW r \in acts, ImpactAnswered(r) PROVE SessionsInv'
<1> USE DEF SessionsInv
<1>1. /\ r \in Act /\ r.op = "impact" /\ r.at = "done" /\ r.impact \in Impact /\ dialog \in Dialog
      /\ acts' = acts \ {r} /\ UNCHANGED <<server, listed, toggling, begunActs, flags>>
  BY DEF ImpactAnswered, Replace, SessionsTyped, Act
<1>2. PICK b \in BOOLEAN : b = (r.n # dialog.question)
  OBVIOUS
<1>3. dialog' = [dialog EXCEPT !.impact = r.impact, !.loading = FALSE, !.stale = b]
  BY <1>2 DEF ImpactAnswered
<1>4. /\ dialog' \in Dialog /\ dialog'.target = dialog.target /\ dialog'.question = dialog.question
      /\ dialog'.impact = r.impact /\ dialog'.stale = b
  BY <1>1, <1>2, <1>3 DEF Dialog
<1>5. PICK new \in SUBSET Act : new = {}
  OBVIOUS
<1>6. acts' = (acts \ {r}) \cup new
  BY <1>1, <1>5
<1>7. /\ SessionsTyped'
      /\ Calm' => \E c \in [Item -> Nat] : ListFollows(c)'
  <2>1. \A c \in [Item -> Nat] : /\ \A x \in new : Honest(x, c)
                                 /\ \A j \in Item : ~Promises(r, c, j)
    BY <1>1, <1>5 DEF Promises
  <2>2. begunActs' = begunActs
        /\ UNCHANGED <<present, public, place, revision, listed, overtaken2, unseen>>
    BY <1>1 DEF server, flags
  <2> QED
    BY <1>1, <1>4, <1>6, <2>1, <2>2, Answered
<1>8. QuestionsFit'
  BY <1>1, <1>4 DEF QuestionsFit
<1>9. FateFollows'
  <2> SUFFICES ASSUME ~moved PROVE FateFollows'
    BY <1>1 DEF FateFollows, flags
  <2>1. \A j : Advanced(j)' = Advanced(j)
    BY <1>1 DEF Advanced, In, server
  <2>2. dialog.target # NoItem /\ ~b => r.item = dialog.target
    BY <1>1, <1>2 DEF QuestionsFit
  <2>3. Advanced(r.item) \subseteq r.impact.named
    BY <1>1 DEF FateFollows
  <2>4. (dialog'.target # NoItem /\ ~dialog'.stale /\ dialog'.impact.asked) =>
            Advanced(dialog'.target) \subseteq dialog'.impact.named
    BY <1>4, <2>2, <2>3
  <2> QED
    BY <1>1, <2>1, <2>4 DEF FateFollows
<1> QED
  BY <1>1, <1>7, <1>8, <1>9 DEF FateWasNamed, flags

LEMMA ErrorShownKeeps == ASSUME SessionsInv, NEW r \in acts, ErrorShown(r) PROVE SessionsInv'
<1> USE DEF SessionsInv
<1>1. /\ r \in Act /\ dialog \in Dialog /\ acts' = acts \ {r} /\ unseen' = TRUE
      /\ UNCHANGED <<server, listed, begunActs, overtaken2, moved, unnamed>>
  BY DEF ErrorShown, Replace, SessionsTyped
<1>2. PICK b1 \in BOOLEAN, b2 \in BOOLEAN, b3 \in BOOLEAN :
          /\ b1 = (dialog.loading /\ r.op # "impact") /\ b2 = (dialog.deleting /\ r.op # "delete")
          /\ b3 = (dialog.stale \/ (r.op = "impact" /\ r.n # dialog.question))
  OBVIOUS
<1>3. dialog' = [dialog EXCEPT !.loading = b1, !.deleting = b2, !.stale = b3]
  BY <1>2 DEF ErrorShown
<1>4. /\ dialog' \in Dialog /\ dialog'.target = dialog.target /\ dialog'.question = dialog.question
      /\ dialog'.impact = dialog.impact /\ dialog'.stale = b3
  BY <1>1, <1>2, <1>3 DEF Dialog
<1>5. dialog.stale => b3
  BY <1>2
<1>6. SessionsTyped' /\ QuestionsFit'
  BY <1>1, <1>4 DEF SessionsTyped, QuestionsFit, server
<1>7. FateFollows'
  <2>1. \A j : Advanced(j)' = Advanced(j)
    BY <1>1 DEF Advanced, In, server
  <2> QED
    BY <1>1, <1>4, <1>5, <2>1 DEF FateFollows
<1>8. ~Calm'
  BY <1>1 DEF Calm
<1> QED
  BY <1>1, <1>6, <1>7, <1>8 DEF FateWasNamed

LEMMA RestSessionsInv == ASSUME SessionsInv, UNCHANGED pageVars PROVE SessionsInv'
<1>1. \A r, c, j : Promises(r, c, j)' <=> Promises(r, c, j)
  BY DEF Promises
<1>2. \A r, c : Honest(r, c)' <=> Honest(r, c)
  BY DEF Honest, pageVars
<1>3. \A j : Agrees(j)' <=> Agrees(j)
  BY DEF Agrees, pageVars
<1>4. \A c, j : Promised(c, j)' <=> Promised(c, j)
  BY <1>1 DEF Promised, pageVars
<1>5. \A c : ListFollows(c) => ListFollows(c)'
  BY <1>2, <1>3, <1>4 DEF ListFollows, pageVars
<1>6. \A j : Advanced(j)' = Advanced(j)
  BY DEF Advanced, In, pageVars
<1>7. FateFollows'
  BY <1>6 DEF SessionsInv, FateFollows, pageVars
<1>8. SessionsTyped' /\ QuestionsFit' /\ FateWasNamed'
  BY DEF SessionsInv, SessionsTyped, QuestionsFit, FateWasNamed, pageVars
<1>9. Calm' => Calm
  BY DEF Calm, pageVars
<1> QED
  BY <1>5, <1>7, <1>8, <1>9 DEF SessionsInv

LEMMA NextSessionsInv == ASSUME SessionsInv, [SessionsNext]_pageVars PROVE SessionsInv'
  BY DialogKeeps, HandleConfirmKeeps, PressKeeps, OpenDeleteKeeps, MoveOnKeeps, ServePublishKeeps,
     ServeCreateKeeps, ServeImpactKeeps, ServeDeleteKeeps, ServeListKeeps, RefuseKeeps,
     PublishAnsweredKeeps, ReloadsKeep, LoadAnsweredKeeps, ImpactAnsweredKeeps, ErrorShownKeeps,
     RestSessionsInv DEF SessionsNext

\* When nothing is on its way, no promise is left and every item agrees.
LEMMA SettledList == ASSUME SessionsInv PROVE ListSettles
<1> SUFFICES ASSUME acts = {}, ~unseen, ~overtaken2
             PROVE  listed.present = present /\ listed.public = public
  BY DEF ListSettles
<1>1. PICK c \in [Item -> Nat] : ListFollows(c)
  BY DEF SessionsInv, Calm
<1>2. \A j \in Item : Agrees(j)
  BY <1>1 DEF ListFollows, Promised
<1>3. present \in SUBSET Item /\ public \in SUBSET Item /\ listed \in ListView
  BY DEF SessionsInv, SessionsTyped
<1> QED
  BY <1>2, <1>3 DEF Agrees, ListView

\* The list of sessions settles on the items there are and which of them are
\* published, and no deletion decides a fate the dialog had not named.
THEOREM SessionsAreShown == SessionsSpec => [](ListSettles /\ FateWasNamed)
<1>1. SessionsInit => SessionsInv
  BY InitSessionsInv
<1>2. SessionsInv /\ [SessionsNext]_pageVars => SessionsInv'
  BY NextSessionsInv
<1>3. SessionsInv => ListSettles /\ FateWasNamed
  BY SettledList DEF SessionsInv
<1> QED
  BY <1>1, <1>2, <1>3, PTL DEF SessionsSpec

-------------------------------------------------------------------------------
(* The page of program templates. *)

TemplateOrder ==
    [n : Nat, op : {"save", "import", "delete", "apply", "list"}, template : Template \cup {NoTemplate},
     opening : Nat, at : {"sent", "done", "refused"}, seen : SUBSET Template, seenAt : Nat]

TemplatesTyped ==
    /\ stock \in SUBSET Template /\ stockAt \in Nat /\ shelf \in SUBSET Template /\ shelfAt \in Nat
    /\ busy \in BOOLEAN /\ applyTarget \in Template \cup {NoTemplate}
    /\ orders \in SUBSET TemplateOrder /\ ordered \in Nat
    /\ opening \in Nat /\ applied3 \in Nat
    /\ olderShelf \in BOOLEAN /\ unheard \in BOOLEAN

Creates(o) == o.op \in {"save", "import"} /\ o.at = "done"
Asks(o) == o.op = "list" /\ o.at = "sent"
Brings(o) == o.op = "list" /\ o.at = "done"
Deletes(o) == o.op = "delete" /\ o.at = "done"
Deleted == {o.template : o \in {p \in orders : Deletes(p)}}

\* A list that was read is followed by a newer one, or is older than a deletion
\* that was shown, or becomes the stock when the deletions are shown.
ListFollowed(o) ==
    \/ \E p \in orders : Creates(p) \/ Asks(p)
    \/ o.seenAt < shelfAt
    \/ stock = o.seen \ Deleted
    \/ \E p \in orders : Brings(p) /\ p.seenAt > o.seenAt

ListsHold ==
    /\ \A o \in orders : Brings(o) => o.seenAt <= stockAt /\ (o.seenAt = stockAt => o.seen = stock)
    /\ \A o, d \in orders : (Brings(o) /\ Deletes(d)) => d.seenAt > o.seenAt \/ d.template \notin o.seen
    /\ \A d \in orders : Deletes(d) => d.template \notin stock

ShelfFollows ==
    /\ \A o \in orders : Brings(o) => ListFollowed(o)
    /\ \/ \E o \in orders : Creates(o) \/ Asks(o) \/ Brings(o)
       \/ olderShelf
       \/ stock = shelf \ Deleted

\* The buttons that save and apply are disabled until the answer is there, and
\* the dialog of a template that was applied is closed with it.
Occupies(o) == o.op \in {"save", "apply"}
ApplyDone(o) == o.op = "apply" /\ o.at = "done"
OneAtATime ==
    /\ \A o, p \in orders : Occupies(o) /\ Occupies(p) => o = p
    /\ \A o \in orders : Occupies(o) => busy
    /\ \/ applied3 = 0
       \/ /\ applied3 = 1
          /\ \A o \in orders : o.op = "apply" /\ o.at = "sent" => o.opening # opening
          /\ applyTarget = NoTemplate \/ \E o \in orders : ApplyDone(o)

TemplatesInv ==
    TemplatesTyped /\ (unheard \/ (ListsHold /\ ShelfFollows /\ OneAtATime))

LEMMA InitTemplatesInv == TemplatesInit => TemplatesInv
  <1> SUFFICES ASSUME TemplatesInit PROVE TemplatesInv
    OBVIOUS
  <1>1. /\ stock \in SUBSET Template /\ stockAt = 0 /\ shelf = stock /\ shelfAt = 0
        /\ busy = FALSE /\ applyTarget = NoTemplate /\ orders = {} /\ ordered = 0
        /\ opening = 0 /\ applied3 = 0 /\ olderShelf = FALSE /\ unheard = FALSE
    BY DEF TemplatesInit
  <1>2. shelf \in SUBSET Template
    BY <1>1
  <1>3. TemplatesTyped
    BY <1>1, <1>2 DEF TemplatesTyped
  <1>4. Deleted = {}
    BY <1>1 DEF Deleted
  <1>5. ListsHold /\ ShelfFollows /\ OneAtATime
    BY <1>1, <1>4 DEF ListsHold, ShelfFollows, OneAtATime
  <1>6. QED
    BY <1>3, <1>5 DEF TemplatesInv

\* Where the orders are the same, or differ by what tells of no template.
LEMMA OrdersAlike ==
    ASSUME ListsHold, ShelfFollows,
           UNCHANGED <<stock, stockAt, shelf, shelfAt, olderShelf>>,
           \A o \in orders : (Creates(o) \/ Asks(o) \/ Brings(o) \/ Deletes(o)) => o \in orders',
           \A o \in orders' : (Brings(o) \/ Deletes(o)) => o \in orders
    PROVE  ListsHold' /\ ShelfFollows'
  <1>1. Deleted' = Deleted
    BY DEF Deleted, Deletes
  <1>2. ListsHold'
    BY DEF ListsHold, Brings, Deletes
  <1>3. \A o \in orders : ListFollowed(o) => ListFollowed(o)'
    BY <1>1 DEF ListFollowed, Creates, Asks, Brings
  <1>4. ShelfFollows'
    BY <1>1, <1>3 DEF ShelfFollows, Creates, Asks, Brings
  <1>5. QED
    BY <1>2, <1>4

LEMMA DialogsKeepTemplates ==
    ASSUME TemplatesInv,
           \/ \E open \in BOOLEAN : OpenSave(open)
           \/ \E t \in Template : OpenApply(t)
           \/ CancelApply
    PROVE  TemplatesInv'
  <1>1. UNCHANGED <<stock, stockAt, shelf, shelfAt, busy, olderShelf, orders, ordered, unheard>>
    BY DEF OpenSave, OpenApply, CancelApply, onServer
  <1>2. \/ UNCHANGED <<opening, applied3>> /\ applyTarget' \in {applyTarget, NoTemplate}
        \/ opening' = opening + 1 /\ applied3' = 0 /\ applyTarget' \in Template
    BY DEF OpenSave, OpenApply, CancelApply
  <1>3. TemplatesTyped'
    BY <1>1, <1>2 DEF TemplatesInv, TemplatesTyped
  <1>4. ListsHold /\ ShelfFollows => ListsHold' /\ ShelfFollows'
    BY <1>1, OrdersAlike
  <1>5. OneAtATime => OneAtATime'
    BY <1>1, <1>2 DEF OneAtATime, Occupies, ApplyDone
  <1>6. QED
    BY <1>1, <1>3, <1>4, <1>5 DEF TemplatesInv

\* A request is sent from the page.
LEMMA PlaceKeepsTemplates ==
    ASSUME TemplatesInv, NEW op \in {"save", "import", "delete", "apply"},
           NEW t \in Template \cup {NoTemplate}, Place(op, t),
           UNCHANGED <<shelf, shelfAt, applyTarget, olderShelf>>,
           \/ op \in {"import", "delete"} /\ busy' = busy
           \/ op = "save" /\ ~busy /\ busy' = TRUE
           \/ op = "apply" /\ ~busy /\ busy' = TRUE /\ applyTarget # NoTemplate
    PROVE  TemplatesInv'
  <1>0. PICK k : k = Order(ordered, op, t)
    OBVIOUS
  <1>1. /\ orders' = orders \cup {k} /\ ordered' = ordered + 1
        /\ UNCHANGED <<stock, stockAt, opening, applied3, unheard>>
    BY <1>0 DEF Place, onServer
  <1>2. k \in TemplateOrder /\ k.op = op /\ k.at = "sent"
    BY <1>0 DEF Order, TemplateOrder, TemplatesInv, TemplatesTyped
  <1>7. busy' \in BOOLEAN
    BY DEF TemplatesInv, TemplatesTyped
  <1>3. TemplatesTyped'
    BY <1>1, <1>2, <1>7 DEF TemplatesInv, TemplatesTyped
  <1>4. ListsHold /\ ShelfFollows => ListsHold' /\ ShelfFollows'
    BY <1>1, <1>2, OrdersAlike DEF Brings, Deletes
  <1>5. OneAtATime => OneAtATime'
    <2>1. CASE op \in {"import", "delete"}
      BY <1>1, <1>2, <2>1 DEF OneAtATime, Occupies, ApplyDone
    <2>2. CASE op = "save"
      BY <1>1, <1>2, <2>2 DEF OneAtATime, Occupies, ApplyDone
    <2>3. CASE op = "apply"
      <3>1. OneAtATime => (\A o \in orders : ~Occupies(o)) /\ applied3 = 0
        BY <2>3 DEF OneAtATime, Occupies, ApplyDone
      <3>2. QED
        BY <1>1, <1>2, <2>3, <3>1 DEF OneAtATime, Occupies, ApplyDone
    <2>4. QED
      BY <2>1, <2>2, <2>3
  <1>6. QED
    BY <1>1, <1>3, <1>4, <1>5 DEF TemplatesInv

LEMMA PlacingKeepsTemplates ==
    ASSUME TemplatesInv,
           \/ \E t \in Template : HandleDeleteTemplate(t)
           \/ HandleSaveCurrent \/ HandleApply \/ HandleImportFile
    PROVE  TemplatesInv'
  <1>1. CASE HandleSaveCurrent
    BY <1>1, PlaceKeepsTemplates DEF HandleSaveCurrent
  <1>2. CASE HandleApply
    <2>1. applyTarget \in Template \cup {NoTemplate}
      BY DEF TemplatesInv, TemplatesTyped
    <2>2. Place("apply", applyTarget) /\ applyTarget # NoTemplate /\ ~busy /\ busy' = TRUE
          /\ UNCHANGED <<shelf, shelfAt, applyTarget, olderShelf>>
      BY <1>2 DEF HandleApply, Busy
    <2>3. QED
      BY <2>1, <2>2, PlaceKeepsTemplates
  <1>3. CASE HandleImportFile
    BY <1>3, PlaceKeepsTemplates DEF HandleImportFile, onPage
  <1>4. ASSUME NEW t \in Template, HandleDeleteTemplate(t) PROVE TemplatesInv'
    BY <1>4, PlaceKeepsTemplates DEF HandleDeleteTemplate, onPage
  <1>5. QED
    BY <1>1, <1>2, <1>3, <1>4

LEMMA ListKeepsTemplates ==
    ASSUME TemplatesInv, NEW o \in orders, ListTemplates(o)
    PROVE  TemplatesInv'
  <1>0. PICK q : q = [o EXCEPT !.at = "done", !.seen = stock, !.seenAt = stockAt]
    OBVIOUS
  <1>1. /\ o.op = "list" /\ o.at = "sent" /\ orders' = (orders \ {o}) \cup {q}
        /\ UNCHANGED <<stock, stockAt, shelf, shelfAt, busy, applyTarget, olderShelf, ordered, opening,
                       applied3, unheard>>
    BY <1>0 DEF ListTemplates, Serve, onServer, onPage
  <1>2. o \in TemplateOrder /\ stock \in SUBSET Template /\ stockAt \in Nat
    BY DEF TemplatesInv, TemplatesTyped
  <1>3. q \in TemplateOrder /\ q.op = "list" /\ q.at = "done" /\ q.seen = stock /\ q.seenAt = stockAt
    BY <1>0, <1>1, <1>2 DEF TemplateOrder
  <1>4. TemplatesTyped'
    BY <1>1, <1>3 DEF TemplatesInv, TemplatesTyped
  <1>5. Brings(q) /\ ~Deletes(q) /\ ~Deletes(o) /\ ~Creates(o) /\ ~Brings(o)
    BY <1>1, <1>3 DEF Brings, Deletes, Creates
  <1>6. Deleted' = Deleted
    BY <1>1, <1>5 DEF Deleted, Deletes
  <1>7. \A p \in orders : p.seenAt \in Nat
    BY DEF TemplatesInv, TemplatesTyped, TemplateOrder
  <1>8. ASSUME ListsHold PROVE ListsHold'
    BY <1>1, <1>2, <1>3, <1>5, <1>8 DEF ListsHold, Brings, Deletes
  <1>9. ASSUME ListsHold, ShelfFollows PROVE ShelfFollows'
    <2>1. ASSUME NEW p \in orders', Brings(p) PROVE ListFollowed(p)'
      <3>1. p = q \/ (p \in orders /\ p.seenAt <= stockAt /\ (p.seenAt = stockAt => p.seen = stock))
        BY <1>1, <1>9, <2>1 DEF ListsHold
      <3>2. Deleted \cap stock = {}
        BY <1>9 DEF ListsHold, Deleted
      <3>3. CASE p.seen = stock
        BY <1>1, <1>6, <3>2, <3>3 DEF ListFollowed
      <3>4. CASE p \in orders /\ p.seenAt < stockAt
        <4>1. q \in orders' /\ q.seenAt > p.seenAt
          BY <1>1, <1>2, <1>3, <1>7, <3>4
        <4>2. QED
          BY <1>5, <4>1 DEF ListFollowed, Brings
      <3>5. QED
        BY <1>2, <1>3, <1>7, <3>1, <3>3, <3>4
    <2>2. QED
      BY <1>1, <1>5, <2>1 DEF ShelfFollows, Brings
  <1>10. ASSUME OneAtATime PROVE OneAtATime'
    BY <1>1, <1>3, <1>10 DEF OneAtATime, Occupies, ApplyDone
  <1>11. QED
    BY <1>1, <1>4, <1>8, <1>9, <1>10 DEF TemplatesInv

LEMMA CreateKeepsTemplates ==
    ASSUME TemplatesInv, NEW o \in orders, Create(o)
    PROVE  TemplatesInv'
  <1>0. PICK q : q = [o EXCEPT !.at = "done"]
    OBVIOUS
  <1>1. PICK t \in Template : t \notin Known /\ stock' = stock \cup {t}
    BY DEF Create
  <1>2. /\ o.op \in {"save", "import"} /\ o.at = "sent" /\ orders' = (orders \ {o}) \cup {q}
        /\ stockAt' = stockAt + 1
        /\ UNCHANGED <<shelf, shelfAt, busy, applyTarget, olderShelf, ordered, opening, applied3, unheard>>
    BY <1>0 DEF Create, Serve, onPage
  <1>3. o \in TemplateOrder /\ stockAt \in Nat
    BY DEF TemplatesInv, TemplatesTyped
  <1>4. q \in TemplateOrder /\ q.op = o.op /\ q.at = "done"
    BY <1>0, <1>3 DEF TemplateOrder
  <1>5. TemplatesTyped'
    BY <1>1, <1>2, <1>3, <1>4 DEF TemplatesInv, TemplatesTyped
  <1>6. Creates(q) /\ q \in orders' /\ ~Brings(q) /\ ~Deletes(q)
    BY <1>2, <1>4 DEF Creates, Brings, Deletes
  <1>7. \A p \in orders : p.template # t
    BY <1>1 DEF Known
  <1>8. \A p \in orders : p.seenAt \in Nat
    BY DEF TemplatesInv, TemplatesTyped, TemplateOrder
  <1>9. ASSUME ListsHold PROVE ListsHold'
    <2>1. \A p \in orders : Brings(p) => p.seenAt <= stockAt' /\ p.seenAt # stockAt'
      BY <1>2, <1>3, <1>8, <1>9 DEF ListsHold
    <2>2. QED
      BY <1>1, <1>2, <1>6, <1>7, <1>9, <2>1 DEF ListsHold, Brings, Deletes
  <1>10. ShelfFollows'
    BY <1>6 DEF ShelfFollows, ListFollowed, Creates
  <1>11. ASSUME OneAtATime PROVE OneAtATime'
    <2>1. Occupies(q) = Occupies(o) /\ ~ApplyDone(o) /\ ~ApplyDone(q) /\ q.op # "apply"
      BY <1>2, <1>4 DEF Occupies, ApplyDone
    <2>2. QED
      BY <1>2, <1>11, <2>1 DEF OneAtATime, Occupies, ApplyDone
  <1>12. QED
    BY <1>2, <1>5, <1>9, <1>10, <1>11 DEF TemplatesInv

LEMMA DeleteKeepsTemplates ==
    ASSUME TemplatesInv, NEW o \in orders, DeleteTemplate(o)
    PROVE  TemplatesInv'
  <1>0. PICK k, q : k = stockAt + 1 /\ q = [o EXCEPT !.at = "done", !.seenAt = k]
    OBVIOUS
  <1>1. /\ o.op = "delete" /\ o.at = "sent" /\ stock' = stock \ {o.template} /\ stockAt' = stockAt + 1
        /\ orders' = (orders \ {o}) \cup {q}
        /\ UNCHANGED <<shelf, shelfAt, busy, applyTarget, olderShelf, ordered, opening, applied3, unheard>>
    BY <1>0 DEF DeleteTemplate, Serve, onPage
  <1>2. o \in TemplateOrder /\ stockAt \in Nat /\ \A p \in orders : p.seenAt \in Nat
    BY DEF TemplatesInv, TemplatesTyped, TemplateOrder
  <1>a. k \in Nat
    BY <1>0, <1>2
  <1>b. /\ q \in TemplateOrder /\ q.op = "delete" /\ q.at = "done" /\ q.template = o.template
        /\ q.seenAt = k
    BY <1>0, <1>1, <1>2, <1>a DEF TemplateOrder
  <1>3. /\ q \in TemplateOrder /\ q.op = "delete" /\ q.at = "done" /\ q.template = o.template
        /\ q.seenAt = stockAt + 1
    BY <1>0, <1>b
  <1>4. TemplatesTyped'
    BY <1>1, <1>2, <1>3 DEF TemplatesInv, TemplatesTyped
  <1>5. /\ Deletes(q) /\ ~Brings(q) /\ ~Creates(q) /\ ~Asks(q) /\ ~Occupies(q)
        /\ ~Deletes(o) /\ ~Brings(o) /\ ~Creates(o) /\ ~Asks(o)
    BY <1>1, <1>3 DEF Brings, Deletes, Creates, Asks, Occupies
  <1>6. Deleted' = Deleted \cup {o.template}
    BY <1>1, <1>3, <1>5 DEF Deleted, Deletes
  <1>7. ASSUME ListsHold PROVE ListsHold'
    <2>1. \A p \in orders : Brings(p) => p.seenAt <= stockAt' /\ p.seenAt # stockAt' /\ q.seenAt > p.seenAt
      BY <1>1, <1>2, <1>3, <1>7 DEF ListsHold
    <2>2. QED
      BY <1>1, <1>3, <1>5, <1>7, <2>1 DEF ListsHold, Brings, Deletes
  <1>8. ASSUME ShelfFollows PROVE ShelfFollows'
    <2>1. \A s : stock = s \ Deleted => stock' = s \ Deleted'
      BY <1>1, <1>6
    <2>2. \A p \in orders : Creates(p) \/ Asks(p) \/ Brings(p) => p \in orders'
      BY <1>1, <1>5
    <2>3. \A p \in orders : ListFollowed(p) => ListFollowed(p)'
      BY <1>1, <2>1, <2>2 DEF ListFollowed, Creates, Asks, Brings
    <2>4. QED
      BY <1>1, <1>5, <1>8, <2>1, <2>2, <2>3 DEF ShelfFollows, Creates, Asks, Brings
  <1>9. ASSUME OneAtATime PROVE OneAtATime'
    BY <1>1, <1>3, <1>5, <1>9 DEF OneAtATime, Occupies, ApplyDone
  <1>10. QED
    BY <1>1, <1>4, <1>7, <1>8, <1>9 DEF TemplatesInv

LEMMA ApplyKeepsTemplates ==
    ASSUME TemplatesInv, NEW o \in orders, AddSessions(o)
    PROVE  TemplatesInv'
  <1>0. PICK q : q = [o EXCEPT !.at = "done"]
    OBVIOUS
  <1>1. /\ o.op = "apply" /\ o.at = "sent" /\ orders' = (orders \ {o}) \cup {q}
        /\ applied3' = IF o.opening = opening THEN applied3 + 1 ELSE applied3
        /\ UNCHANGED <<stock, stockAt, shelf, shelfAt, busy, applyTarget, olderShelf, ordered, opening,
                       unheard>>
    BY <1>0 DEF AddSessions, Serve, onServer, onPage
  <1>2. o \in TemplateOrder
    BY DEF TemplatesInv, TemplatesTyped
  <1>3. q \in TemplateOrder /\ q.op = "apply" /\ q.at = "done"
    BY <1>0, <1>1, <1>2 DEF TemplateOrder
  <1>4. TemplatesTyped'
    BY <1>1, <1>3 DEF TemplatesInv, TemplatesTyped
  <1>5. ListsHold /\ ShelfFollows => ListsHold' /\ ShelfFollows'
    BY <1>1, <1>3, OrdersAlike DEF Brings, Deletes, Creates, Asks
  <1>6. ASSUME OneAtATime PROVE OneAtATime'
    <2>1. ApplyDone(q) /\ q \in orders' /\ Occupies(o) /\ Occupies(q)
      BY <1>1, <1>3 DEF ApplyDone, Occupies
    <2>2. \A p \in orders' : Occupies(p) => p = q
      BY <1>1, <1>6, <2>1 DEF OneAtATime
    <2>3. applied3' = 0 \/ applied3' = 1
      BY <1>1, <1>6 DEF OneAtATime
    <2>4. \A p \in orders' : ~(p.op = "apply" /\ p.at = "sent")
      BY <1>3, <2>2 DEF Occupies
    <2>5. QED
      BY <1>1, <1>6, <2>1, <2>2, <2>3, <2>4 DEF OneAtATime, ApplyDone, Occupies
  <1>7. QED
    BY <1>1, <1>4, <1>5, <1>6 DEF TemplatesInv

LEMMA RefusalKeepsTemplates ==
    ASSUME TemplatesInv, NEW o \in orders, RefuseOrder(o) \/ LoseAnswer(o)
    PROVE  TemplatesInv'
  <1>0. PICK q : q = [o EXCEPT !.at = "refused"]
    OBVIOUS
  <1>1. /\ orders' = (orders \ {o}) \cup {q}
        /\ UNCHANGED <<stock, stockAt, shelf, shelfAt, busy, applyTarget, olderShelf, ordered, opening,
                       applied3>>
        /\ unheard' \in BOOLEAN
        /\ ~unheard' => ~unheard /\ o.at = "sent" /\ o.op # "list"
    BY <1>0 DEF RefuseOrder, LoseAnswer, Serve, onServer, onPage, TemplatesInv, TemplatesTyped
  <1>2. o \in TemplateOrder
    BY DEF TemplatesInv, TemplatesTyped
  <1>3. q \in TemplateOrder /\ q.op = o.op /\ q.at = "refused"
    BY <1>0, <1>1, <1>2 DEF TemplateOrder
  <1>4. TemplatesTyped'
    BY <1>1, <1>3 DEF TemplatesInv, TemplatesTyped
  <1>5. ~unheard' /\ ListsHold /\ ShelfFollows => ListsHold' /\ ShelfFollows'
    BY <1>1, <1>3, OrdersAlike DEF Brings, Deletes, Creates, Asks
  <1>6. ~unheard' /\ OneAtATime => OneAtATime'
    BY <1>1, <1>3 DEF OneAtATime, Occupies, ApplyDone
  <1>7. QED
    BY <1>1, <1>4, <1>5, <1>6 DEF TemplatesInv

LEMMA CreateShownKeepsTemplates ==
    ASSUME TemplatesInv, NEW o \in orders, CreateShown(o)
    PROVE  TemplatesInv'
  <1>0. PICK q : q = Order(o.n, "list", NoTemplate)
    OBVIOUS
  <1>1. /\ o.op \in {"save", "import"} /\ o.at = "done" /\ orders' = (orders \ {o}) \cup {q}
        /\ busy' = BusyAfter(o)
        /\ UNCHANGED <<stock, stockAt, shelf, shelfAt, applyTarget, olderShelf, ordered, opening, applied3,
                       unheard>>
    BY <1>0 DEF CreateShown, ThenList, onServer
  <1>2. o \in TemplateOrder /\ o.n \in Nat /\ opening \in Nat
    BY DEF TemplatesInv, TemplatesTyped, TemplateOrder
  <1>3. q \in TemplateOrder /\ q.op = "list" /\ q.at = "sent"
    BY <1>0, <1>2 DEF Order, TemplateOrder
  <1>4. busy' \in BOOLEAN
    BY <1>1 DEF BusyAfter, TemplatesInv, TemplatesTyped
  <1>5. TemplatesTyped'
    BY <1>1, <1>3, <1>4 DEF TemplatesInv, TemplatesTyped
  <1>6. /\ Asks(q) /\ q \in orders' /\ ~Brings(q) /\ ~Deletes(q) /\ ~Brings(o) /\ ~Deletes(o)
    BY <1>1, <1>3 DEF Asks, Brings, Deletes
  <1>7. ASSUME ListsHold PROVE ListsHold'
    BY <1>1, <1>6, <1>7 DEF ListsHold, Brings, Deletes
  <1>8. ShelfFollows'
    BY <1>6 DEF ShelfFollows, ListFollowed, Asks
  <1>9. ASSUME OneAtATime PROVE OneAtATime'
    <2>1. ~Occupies(q) /\ ~ApplyDone(q) /\ ~ApplyDone(o)
      BY <1>1, <1>3 DEF Occupies, ApplyDone
    <2>2. \A p \in orders' : Occupies(p) => busy'
      BY <1>1, <1>9, <2>1 DEF OneAtATime, BusyAfter, Occupies
    <2>3. QED
      BY <1>1, <1>3, <1>9, <2>1, <2>2 DEF OneAtATime, Occupies, ApplyDone
  <1>10. QED
    BY <1>1, <1>5, <1>7, <1>8, <1>9 DEF TemplatesInv

LEMMA ListShownKeepsTemplates ==
    ASSUME TemplatesInv, NEW o \in orders, ListShown(o)
    PROVE  TemplatesInv'
  <1>1. /\ o.op = "list" /\ o.at = "done" /\ orders' = orders \ {o}
        /\ shelf' = o.seen /\ olderShelf' = (o.seenAt < shelfAt)
        /\ shelfAt' = IF o.seenAt > shelfAt THEN o.seenAt ELSE shelfAt
        /\ UNCHANGED <<stock, stockAt, busy, applyTarget, ordered, opening, applied3, unheard>>
    BY DEF ListShown, onServer
  <1>2. /\ o \in TemplateOrder /\ shelfAt \in Nat /\ o.seenAt \in Nat /\ o.seen \in SUBSET Template
        /\ \A p \in orders : p.seenAt \in Nat
    BY DEF TemplatesInv, TemplatesTyped, TemplateOrder
  <1>3. shelfAt' \in Nat /\ shelfAt' >= shelfAt /\ shelfAt' >= o.seenAt
    BY <1>1, <1>2
  <1>4. olderShelf' \in BOOLEAN
    BY <1>1
  <1>5. TemplatesTyped'
    BY <1>1, <1>2, <1>3, <1>4 DEF TemplatesInv, TemplatesTyped
  <1>6. Brings(o) /\ ~Deletes(o) /\ ~Creates(o) /\ ~Asks(o)
    BY <1>1 DEF Brings, Deletes, Creates, Asks
  <1>7. Deleted' = Deleted
    BY <1>1, <1>6 DEF Deleted, Deletes
  <1>8. ASSUME ListsHold PROVE ListsHold'
    BY <1>1, <1>8 DEF ListsHold, Brings, Deletes
  <1>9. ASSUME ShelfFollows PROVE ShelfFollows'
    <2>1. ASSUME NEW p \in orders', Brings(p) PROVE ListFollowed(p)'
      <3>1. ListFollowed(p) /\ p \in orders
        BY <1>1, <1>9, <2>1 DEF ShelfFollows
      <3>2. CASE \E r \in orders : Creates(r) \/ Asks(r)
        BY <1>1, <1>6, <3>2 DEF ListFollowed, Creates, Asks
      <3>3. CASE p.seenAt < shelfAt
        <4>1. p.seenAt < shelfAt'
          BY <1>2, <1>3, <3>1, <3>3
        <4>2. QED
          BY <4>1 DEF ListFollowed
      <3>4. CASE stock = p.seen \ Deleted
        BY <1>1, <1>7, <3>4 DEF ListFollowed
      <3>5. CASE \E r \in orders : Brings(r) /\ r.seenAt > p.seenAt
        <4>1. PICK r \in orders : Brings(r) /\ r.seenAt > p.seenAt
          BY <3>5
        <4>2. CASE r = o
          <5>1. p.seenAt < shelfAt'
            BY <1>2, <1>3, <3>1, <4>1, <4>2
          <5>2. QED
            BY <5>1 DEF ListFollowed
        <4>3. CASE r # o
          BY <1>1, <4>1, <4>3 DEF ListFollowed, Brings
        <4>4. QED
          BY <4>2, <4>3
      <3>6. QED
        BY <3>1, <3>2, <3>3, <3>4, <3>5 DEF ListFollowed
    <2>2. \/ \E p \in orders' : Creates(p) \/ Asks(p) \/ Brings(p)
          \/ olderShelf'
          \/ stock = shelf' \ Deleted
      <3>1. ListFollowed(o)
        BY <1>6, <1>9 DEF ShelfFollows
      <3>2. \A p \in orders : Brings(p) /\ p.seenAt > o.seenAt => p # o
        BY <1>2
      <3>3. QED
        BY <1>1, <1>6, <3>1, <3>2 DEF ListFollowed
    <2>3. QED
      BY <1>1, <1>7, <2>1, <2>2 DEF ShelfFollows, Creates, Asks, Brings
  <1>10. ASSUME OneAtATime PROVE OneAtATime'
    BY <1>1, <1>10 DEF OneAtATime, Occupies, ApplyDone
  <1>11. QED
    BY <1>1, <1>5, <1>8, <1>9, <1>10 DEF TemplatesInv

LEMMA DeleteShownKeepsTemplates ==
    ASSUME TemplatesInv, NEW o \in orders, DeleteShown(o)
    PROVE  TemplatesInv'
  <1>1. /\ o.op = "delete" /\ o.at = "done" /\ orders' = orders \ {o} /\ shelf' = shelf \ {o.template}
        /\ shelfAt' = IF o.seenAt > shelfAt THEN o.seenAt ELSE shelfAt
        /\ UNCHANGED <<stock, stockAt, busy, applyTarget, olderShelf, ordered, opening, applied3, unheard>>
    BY DEF DeleteShown, onServer
  <1>2. o \in TemplateOrder /\ shelfAt \in Nat /\ o.seenAt \in Nat /\ \A p \in orders : p.seenAt \in Nat
    BY DEF TemplatesInv, TemplatesTyped, TemplateOrder
  <1>3. shelfAt' \in Nat /\ shelfAt' >= shelfAt /\ shelfAt' >= o.seenAt
    BY <1>1, <1>2
  <1>4. TemplatesTyped'
    BY <1>1, <1>3 DEF TemplatesInv, TemplatesTyped
  <1>5. Deletes(o) /\ ~Brings(o) /\ ~Creates(o) /\ ~Asks(o)
    BY <1>1 DEF Brings, Deletes, Creates, Asks
  <1>6. Deleted \subseteq Deleted' \cup {o.template} /\ Deleted' \subseteq Deleted /\ o.template \in Deleted
    BY <1>1, <1>5 DEF Deleted, Deletes
  <1>7. ASSUME ListsHold PROVE ListsHold'
    BY <1>1, <1>7 DEF ListsHold, Brings, Deletes
  <1>8. ASSUME ListsHold, ShelfFollows PROVE ShelfFollows'
    <2>1. \A p \in orders : Creates(p) \/ Asks(p) \/ Brings(p) => p \in orders'
      BY <1>1, <1>5
    <2>2. stock = shelf \ Deleted => stock = shelf' \ Deleted'
      BY <1>1, <1>6
    <2>3. ASSUME NEW p \in orders, Brings(p) PROVE ListFollowed(p)'
      <3>1. ListFollowed(p) /\ (o.seenAt > p.seenAt \/ o.template \notin p.seen) /\ p.seenAt \in Nat
        BY <1>2, <1>5, <1>8, <2>3 DEF ListsHold, ShelfFollows
      <3>2. CASE \E r \in orders : Creates(r) \/ Asks(r)
        BY <2>1, <3>2 DEF ListFollowed, Creates, Asks
      <3>3. CASE p.seenAt < shelfAt \/ o.seenAt > p.seenAt
        <4>1. p.seenAt < shelfAt'
          BY <1>2, <1>3, <3>1, <3>3
        <4>2. QED
          BY <4>1 DEF ListFollowed
      <3>4. CASE stock = p.seen \ Deleted /\ o.template \notin p.seen
        <4>1. stock = p.seen \ Deleted'
          BY <1>6, <3>4
        <4>2. QED
          BY <1>1, <4>1 DEF ListFollowed
      <3>5. CASE \E r \in orders : Brings(r) /\ r.seenAt > p.seenAt
        BY <2>1, <3>5 DEF ListFollowed, Brings
      <3>6. QED
        BY <3>1, <3>2, <3>3, <3>4, <3>5 DEF ListFollowed
    <2>4. QED
      BY <1>1, <1>8, <2>1, <2>2, <2>3 DEF ShelfFollows, Creates, Asks, Brings
  <1>9. ASSUME OneAtATime PROVE OneAtATime'
    BY <1>1, <1>9 DEF OneAtATime, Occupies, ApplyDone
  <1>10. QED
    BY <1>1, <1>4, <1>7, <1>8, <1>9 DEF TemplatesInv

LEMMA AnswerKeepsTemplates ==
    ASSUME TemplatesInv, NEW o \in orders, AppliedShown(o) \/ OrderFailed(o)
    PROVE  TemplatesInv'
  <1>1. /\ orders' = orders \ {o} /\ busy' = BusyAfter(o)
        /\ \/ o.op = "apply" /\ o.at = "done" /\ applyTarget' = NoTemplate
           \/ o.at = "refused" /\ applyTarget' = applyTarget
        /\ UNCHANGED <<stock, stockAt, shelf, shelfAt, olderShelf, ordered, opening, applied3, unheard>>
    BY DEF AppliedShown, OrderFailed, onServer
  <1>2. busy' \in BOOLEAN
    BY <1>1 DEF BusyAfter, TemplatesInv, TemplatesTyped
  <1>3. TemplatesTyped'
    BY <1>1, <1>2 DEF TemplatesInv, TemplatesTyped
  <1>4. ListsHold /\ ShelfFollows => ListsHold' /\ ShelfFollows'
    BY <1>1, OrdersAlike DEF Brings, Deletes, Creates, Asks
  <1>5. ASSUME OneAtATime PROVE OneAtATime'
    <2>1. \A p \in orders' : Occupies(p) => busy'
      BY <1>1, <1>5 DEF OneAtATime, BusyAfter, Occupies
    <2>2. applyTarget' = NoTemplate \/ ~ApplyDone(o)
      BY <1>1 DEF ApplyDone
    <2>3. QED
      BY <1>1, <1>5, <2>1, <2>2 DEF OneAtATime, Occupies, ApplyDone
  <1>6. QED
    BY <1>1, <1>3, <1>4, <1>5 DEF TemplatesInv

LEMMA NextTemplatesInv == TemplatesInv /\ [TemplatesNext]_templateVars => TemplatesInv'
  <1> SUFFICES ASSUME TemplatesInv, [TemplatesNext]_templateVars PROVE TemplatesInv'
    OBVIOUS
  <1>1. CASE UNCHANGED templateVars
    <2>1. ListsHold /\ ShelfFollows => ListsHold' /\ ShelfFollows'
      BY <1>1, OrdersAlike DEF templateVars
    <2>2. QED
      BY <1>1, <2>1 DEF templateVars, TemplatesInv, TemplatesTyped, OneAtATime, Occupies, ApplyDone
  <1>2. CASE TemplatesNext
    BY <1>2, DialogsKeepTemplates, PlacingKeepsTemplates, ListKeepsTemplates, CreateKeepsTemplates,
       DeleteKeepsTemplates, ApplyKeepsTemplates, RefusalKeepsTemplates, CreateShownKeepsTemplates,
       ListShownKeepsTemplates, DeleteShownKeepsTemplates, AnswerKeepsTemplates
    DEF TemplatesNext
  <1>3. QED
    BY <1>1, <1>2

\* The list is the templates there are, and an opened dialog is applied once, for
\* any number of templates and requests.
THEOREM TemplatesAreListed == TemplatesSpec => [](TemplatesSettle /\ AppliedOnce)
  <1>1. TemplatesInv => TemplatesSettle /\ AppliedOnce
    <2> SUFFICES ASSUME TemplatesInv, ~unheard
                 PROVE  (orders = {} /\ ~olderShelf => shelf = stock) /\ applied3 <= 1
      BY DEF TemplatesSettle, AppliedOnce
    <2>1. orders = {} => Deleted = {}
      BY DEF Deleted
    <2>2. QED
      BY <2>1 DEF TemplatesInv, ShelfFollows, OneAtATime
  <1>2. QED
    BY InitTemplatesInv, NextTemplatesInv, <1>1, PTL DEF TemplatesSpec
===============================================================================

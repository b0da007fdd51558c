-------------------------------- MODULE Agenda --------------------------------
(***************************************************************************)
(* What the slots of a session promise to whoever edits or reads them: a   *)
(* list.  Adding, removing or moving one slot leaves the others in the     *)
(* order they were in, and the order is total after every request.         *)
(***************************************************************************)
CONSTANT Slot

VARIABLES
    items,   \* the slots of the session
    before   \* pairs of slots: the first is shown above the second

Ordered(i, j) == <<i, j>> \in before

\* A request leaves the slots of S in the order they were in.
Kept(S) == \A i, j \in S : Ordered(i, j)' <=> Ordered(i, j)

TotalOrder ==
    /\ \A i \in items : ~Ordered(i, i)
    /\ \A i, j \in items : i # j => (Ordered(i, j) <=> ~Ordered(j, i))
    /\ \A i, j, k \in items : Ordered(i, j) /\ Ordered(j, k) => Ordered(i, k)

Insert(i) == i \notin items /\ items' = items \cup {i} /\ Kept(items)
Delete(i) == i \in items /\ items' = items \ {i} /\ Kept(items')
Move(i)   == i \in items /\ items' = items /\ Kept(items \ {i})
Clear     == items' = {}

Init == items = {} /\ before = {}

Next ==
    /\ Clear \/ \E i \in Slot : Insert(i) \/ Delete(i) \/ Move(i)
    /\ TotalOrder'

Spec == Init /\ [][Next]_<<items, before>>
===============================================================================

----------------------------- MODULE SessionSlots -----------------------------
(***************************************************************************)
(* The slots of one session, whose places in it are the integers           *)
(* slot_order.  The handlers renumber by relative updates over ranges of   *)
(* slot_order, from whatever integer the request names: nothing validates  *)
(* it, and no constraint keeps two slots of a session apart.               *)
(*                                                                         *)
(* One action is one handler that commits.  Which submission may enter a   *)
(* slot, and what happens to its status, is in AbstractLifecycle.          *)
(***************************************************************************)
EXTENDS Integers, FiniteSets

CONSTANTS
    Slot,             \* session_slots identifiers
    RequestedOrder,   \* the values of slot_order that requests name
    RequestedSlots,   \* the values of max_slots that requests name
    MaxOrder          \* bound: no slot is shifted beyond this order

ASSUME SlotsAssumption ==
    /\ RequestedOrder \subseteq Int
    /\ RequestedSlots \subseteq Int
    /\ MaxOrder \in Int

VARIABLES
    rows,      \* the slots of the session
    order,     \* session_slots.slot_order
    talks,     \* the slots that hold a submission
    maxSlots   \* sessions.max_slots, 0 for a type that holds no slots

vars == <<rows, order, talks, maxSlots>>

Init ==
    /\ rows = {}
    /\ order = [i \in Slot |-> 0]
    /\ talks = {}
    /\ maxSlots \in RequestedSlots

-----------------------------------------------------------------------------
(* The range updates. *)

Renumbered(S, by) == [i \in Slot |-> IF i \in S THEN order[i] + by ELSE order[i]]

\* Who makes room for a slot added at an order.
PushedStrictly(at) == {i \in rows : order[i] > at}
Pushed(at) == {i \in rows : order[i] >= at}

\* Who closes up after a slot that is removed.
NobodyFollows(i) == {}
Following(i) == {j \in rows : order[j] > order[i]}

\* Who lies between a slot and the order it moves up to, or down to.
PassedUp(i, to) == {j \in rows \ {i} : to <= order[j] /\ order[j] < order[i]}
PassedDownShort(i, to) == {j \in rows \ {i} : order[i] < order[j] /\ order[j] < to}
PassedDown(i, to) == {j \in rows \ {i} : order[i] < order[j] /\ order[j] <= to}

\* The submissions of the session once a slot is gone.
TalksWithout(i) == talks \ {i}

-----------------------------------------------------------------------------
(* assign_submission_to_session. *)
AddSlot(i, at, talk) ==
    /\ i \notin rows
    /\ Cardinality(rows) < maxSlots
    /\ at <= MaxOrder /\ \A j \in Pushed(at) : order[j] < MaxOrder
    /\ rows' = rows \cup {i}
    /\ order' = [Renumbered(Pushed(at), 1) EXCEPT ![i] = at]
    /\ talks' = IF talk THEN talks \cup {i} ELSE talks
    /\ UNCHANGED maxSlots

RemoveSlot(i) ==
    /\ i \in rows
    /\ rows' = rows \ {i}
    /\ order' = [Renumbered(Following(i), -1) EXCEPT ![i] = 0]
    /\ talks' = TalksWithout(i)
    /\ UNCHANGED maxSlots

\* transition_submission to withdrawn deletes the slot and renumbers nothing.
WithdrawSlot(i) ==
    /\ i \in talks
    /\ rows' = rows \ {i}
    /\ order' = [order EXCEPT ![i] = 0]
    /\ talks' = TalksWithout(i)
    /\ UNCHANGED maxSlots

\* update_slot with a slot_order other than the slot's own.
MoveSlot(i, to) ==
    /\ i \in rows
    /\ to # order[i]
    /\ to <= MaxOrder
    /\ order' = IF to < order[i]
                THEN [Renumbered(PassedUp(i, to), 1) EXCEPT ![i] = to]
                ELSE [Renumbered(PassedDown(i, to), -1) EXCEPT ![i] = to]
    /\ UNCHANGED <<rows, talks, maxSlots>>

\* update_session: max_slots is not compared with the slots there are.
UpdateMaxSlots(n) ==
    /\ maxSlots' = n
    /\ UNCHANGED <<rows, order, talks>>

\* update_session to a type without slots, refused while there are any.
BecomeTimeBlock ==
    /\ rows = {}
    /\ maxSlots' = 0
    /\ UNCHANGED <<rows, order, talks>>

\* delete_session: the slots go by the cascade; the identifier serves the next
\* session that is created.
DeleteWithSlots(n) ==
    /\ rows' = {}
    /\ order' = [i \in Slot |-> 0]
    /\ talks' = {}
    /\ maxSlots' = n

Next ==
    \/ \E i \in Slot :
          \/ \E at \in RequestedOrder, talk \in BOOLEAN : AddSlot(i, at, talk)
          \/ RemoveSlot(i)
          \/ WithdrawSlot(i)
          \/ \E to \in RequestedOrder : MoveSlot(i, to)
    \/ \E n \in RequestedSlots : UpdateMaxSlots(n) \/ DeleteWithSlots(n)
    \/ BecomeTimeBlock

Spec == Init /\ [][Next]_vars

-----------------------------------------------------------------------------
(* Properties. *)

\* Rows, orders and the limit have their types, and a slot that holds a
\* submission is a slot of the session.
TypeOK ==
    /\ rows \subseteq Slot
    /\ order \in [Slot -> Int]
    /\ talks \subseteq rows
    /\ maxSlots \in Int

\* No two slots of a session share an order, whatever orders the requests name
\* and whatever gaps withdrawals leave: the relative updates never collide.
DistinctOrders == \A i, j \in rows : i # j => order[i] # order[j]

\* The orders are 1, 2, ... without a gap, as the page that edits them shows.
Numbered ==
    \A i \in rows :
        /\ order[i] >= 1
        /\ order[i] > 1 => \E j \in rows : order[j] = order[i] - 1

\* An order that the page offers: right after a slot, or that of a slot.
AfterASlot(at) == at = 1 \/ \E j \in rows : order[j] = at - 1
OfASlot(to) == \E j \in rows : order[j] = to

\* A gap in the numbering comes from a withdrawal, or from a request that names
\* an order the page does not offer: removing and moving slots never leave one.
GapHasCause ==
    [][Numbered /\ ~Numbered' =>
          \E i \in Slot :
             \/ WithdrawSlot(i)
             \/ \E at \in RequestedOrder \ {a \in RequestedOrder : AfterASlot(a)},
                   talk \in BOOLEAN : AddSlot(i, at, talk)
             \/ \E to \in RequestedOrder \ {a \in RequestedOrder : OfASlot(a)} :
                   MoveSlot(i, to)]_vars

ShownBefore == {p \in rows \X rows : order[p[1]] < order[p[2]]}

List == INSTANCE Agenda WITH items <- rows, before <- ShownBefore

\* The slots of the session are a list: no request disturbs the order of the
\* slots it does not name.
ListKept == List!Spec
===============================================================================

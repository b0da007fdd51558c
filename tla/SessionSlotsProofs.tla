-------------------------- MODULE SessionSlotsProofs --------------------------
(***************************************************************************)
(* Proofs about SessionSlots, for any number of slots, any orders in the   *)
(* requests and any limits.                                                *)
(***************************************************************************)
EXTENDS SessionSlots, TLAPS

LEMMA InitTypeOK == Init => TypeOK
  BY SlotsAssumption DEF Init, TypeOK, SlotsAssumption

LEMMA NextTypeOK == TypeOK /\ [Next]_vars => TypeOK'
  <1> SUFFICES ASSUME TypeOK, [Next]_vars PROVE TypeOK'
    OBVIOUS
  <1> USE DEF TypeOK
  <1>1. ASSUME NEW i \in Slot, NEW at \in RequestedOrder, NEW talk \in BOOLEAN,
               AddSlot(i, at, talk)
        PROVE  TypeOK'
    BY <1>1, SlotsAssumption DEF AddSlot, Renumbered, SlotsAssumption
  <1>2. ASSUME NEW i \in Slot, RemoveSlot(i) PROVE TypeOK'
    BY <1>2 DEF RemoveSlot, Renumbered, TalksWithout
  <1>3. ASSUME NEW i \in Slot, WithdrawSlot(i) PROVE TypeOK'
    BY <1>3 DEF WithdrawSlot, TalksWithout
  <1>4. ASSUME NEW i \in Slot, NEW to \in RequestedOrder, MoveSlot(i, to)
        PROVE  TypeOK'
    BY <1>4, SlotsAssumption DEF MoveSlot, Renumbered, SlotsAssumption
  <1>5. ASSUME NEW n \in RequestedSlots, UpdateMaxSlots(n) \/ DeleteWithSlots(n)
        PROVE  TypeOK'
    BY <1>5, SlotsAssumption DEF UpdateMaxSlots, DeleteWithSlots, SlotsAssumption
  <1>6. CASE BecomeTimeBlock
    BY <1>6 DEF BecomeTimeBlock
  <1>7. CASE UNCHANGED vars
    BY <1>7 DEF vars
  <1>8. QED
    BY <1>1, <1>2, <1>3, <1>4, <1>5, <1>6, <1>7 DEF Next

\* Rows, orders and the limit keep their types.
THEOREM TypeCorrect == Spec => []TypeOK
  BY InitTypeOK, NextTypeOK, PTL DEF Spec

-----------------------------------------------------------------------------
(* What a request does to the orders of two slots of the session. *)

\* The order of a slot after a request that moves another one.
LEMMA AddOrders ==
    ASSUME TypeOK, NEW i \in Slot, NEW at \in Int, NEW talk, AddSlot(i, at, talk)
    PROVE  /\ order'[i] = at
           /\ \A j \in rows : order'[j] = IF order[j] >= at THEN order[j] + 1
                                          ELSE order[j]
  BY DEF TypeOK, AddSlot, Renumbered, Pushed

LEMMA RemoveOrders ==
    ASSUME TypeOK, NEW i \in Slot, RemoveSlot(i)
    PROVE  \A j \in rows \ {i} :
              order'[j] = IF order[j] > order[i] THEN order[j] - 1 ELSE order[j]
  BY DEF TypeOK, RemoveSlot, Renumbered, Following

LEMMA MoveOrders ==
    ASSUME TypeOK, NEW i \in Slot, NEW to \in Int, MoveSlot(i, to)
    PROVE  /\ order'[i] = to
           /\ \A j \in rows \ {i} :
                 order'[j] =
                    IF to <= order[j] /\ order[j] < order[i] THEN order[j] + 1
                    ELSE IF order[i] < order[j] /\ order[j] <= to THEN order[j] - 1
                    ELSE order[j]
  BY DEF TypeOK, MoveSlot, Renumbered, PassedUp, PassedDown

-----------------------------------------------------------------------------
(* Orders stay apart. *)

LEMMA NextDistinct ==
    ASSUME TypeOK, DistinctOrders, [Next]_vars
    PROVE  DistinctOrders'
  <1> SUFFICES ASSUME NEW j \in rows', NEW k \in rows', j # k
               PROVE  order'[j] # order'[k]
    BY DEF DistinctOrders
  <1> USE DEF TypeOK, DistinctOrders
  <1>1. ASSUME NEW i \in Slot, NEW at \in RequestedOrder, NEW talk \in BOOLEAN,
               AddSlot(i, at, talk)
        PROVE  order'[j] # order'[k]
    <2>1. at \in Int
      BY SlotsAssumption DEF SlotsAssumption
    <2>2. j \in rows \cup {i} /\ k \in rows \cup {i}
      BY <1>1 DEF AddSlot
    <2>3. QED
      BY <1>1, <2>1, <2>2, AddOrders
  <1>2. ASSUME NEW i \in Slot, RemoveSlot(i) PROVE order'[j] # order'[k]
    <2>1. j \in rows \ {i} /\ k \in rows \ {i} /\ i \in rows
      BY <1>2 DEF RemoveSlot
    <2>2. QED
      BY <1>2, <2>1, RemoveOrders
  <1>3. ASSUME NEW i \in Slot, WithdrawSlot(i) PROVE order'[j] # order'[k]
    BY <1>3 DEF WithdrawSlot
  <1>4. ASSUME NEW i \in Slot, NEW to \in RequestedOrder, MoveSlot(i, to)
        PROVE  order'[j] # order'[k]
    <2>1. to \in Int
      BY SlotsAssumption DEF SlotsAssumption
    <2>2. j \in rows /\ k \in rows /\ i \in rows
      BY <1>4 DEF MoveSlot
    <2>3. QED
      BY <1>4, <2>1, <2>2, MoveOrders
  <1>5. ASSUME NEW n \in RequestedSlots, UpdateMaxSlots(n) \/ DeleteWithSlots(n)
        PROVE  order'[j] # order'[k]
    BY <1>5 DEF UpdateMaxSlots, DeleteWithSlots
  <1>6. CASE BecomeTimeBlock
    BY <1>6 DEF BecomeTimeBlock
  <1>7. CASE UNCHANGED vars
    BY <1>7 DEF vars
  <1>8. QED
    BY <1>1, <1>2, <1>3, <1>4, <1>5, <1>6, <1>7 DEF Next

\* No two slots of a session ever share an order, whatever the requests name.
THEOREM OrdersStayDistinct == Spec => []DistinctOrders
  <1>1. Init => DistinctOrders
    BY DEF Init, DistinctOrders
  <1>2. QED
    BY <1>1, NextDistinct, TypeCorrect, PTL DEF Spec

-----------------------------------------------------------------------------
(* Gaps. *)

GapCaused ==
    \E i \in Slot :
       \/ WithdrawSlot(i)
       \/ \E at \in RequestedOrder \ {a \in RequestedOrder : AfterASlot(a)},
             talk \in BOOLEAN : AddSlot(i, at, talk)
       \/ \E to \in RequestedOrder \ {a \in RequestedOrder : OfASlot(a)} :
             MoveSlot(i, to)

LEMMA NextNumbered ==
    ASSUME TypeOK, DistinctOrders, Numbered, [Next]_vars, ~GapCaused
    PROVE  Numbered'
  <1> USE DEF TypeOK
  <1>1. ASSUME NEW i \in Slot, NEW at \in RequestedOrder, NEW talk \in BOOLEAN,
               AddSlot(i, at, talk)
        PROVE  Numbered'
    <2>1. at \in Int /\ AfterASlot(at)
      BY <1>1, SlotsAssumption DEF SlotsAssumption, GapCaused
    <2>2. rows' = rows \cup {i} /\ i \notin rows
      BY <1>1 DEF AddSlot
    <2>3. /\ order'[i] = at
          /\ \A j \in rows : order'[j] = IF order[j] >= at THEN order[j] + 1
                                         ELSE order[j]
      BY <1>1, <2>1, AddOrders
    <2>4. at >= 1 /\ (at > 1 => \E j \in rows' : order'[j] = at - 1)
      BY <2>1, <2>2, <2>3 DEF AfterASlot, Numbered
    <2>5. ASSUME NEW j \in rows
          PROVE  order'[j] >= 1 /\ (order'[j] > 1 => \E k \in rows' : order'[k] = order'[j] - 1)
      <3>1. CASE order[j] < at
        BY <2>1, <2>2, <2>3, <3>1 DEF Numbered
      <3>2. CASE order[j] = at
        BY <2>1, <2>2, <2>3, <2>4, <3>2
      <3>3. CASE order[j] > at
        <4>1. PICK k \in rows : order[k] = order[j] - 1
          BY <2>4, <2>1, <3>3 DEF Numbered
        <4>2. order'[k] = order'[j] - 1
          BY <2>1, <2>3, <3>3, <4>1
        <4>3. QED
          BY <2>1, <2>2, <2>3, <2>4, <3>3, <4>2
      <3>4. QED
        BY <2>1, <3>1, <3>2, <3>3
    <2>6. QED
      BY <2>2, <2>3, <2>4, <2>5 DEF Numbered
  <1>2. ASSUME NEW i \in Slot, RemoveSlot(i) PROVE Numbered'
    <2>1. rows' = rows \ {i} /\ i \in rows
      BY <1>2 DEF RemoveSlot
    <2>2. \A j \in rows \ {i} :
              order'[j] = IF order[j] > order[i] THEN order[j] - 1 ELSE order[j]
      BY <1>2, RemoveOrders
    <2>3. ASSUME NEW j \in rows \ {i}
          PROVE  order'[j] >= 1 /\ (order'[j] > 1 => \E k \in rows \ {i} : order'[k] = order'[j] - 1)
      <3>0. order[i] >= 1 /\ order[j] >= 1 /\ order[j] # order[i]
        BY <2>1 DEF Numbered, DistinctOrders
      <3>1. CASE order[j] < order[i]
        BY <2>1, <2>2, <3>0, <3>1 DEF Numbered
      <3>2. CASE order[j] = order[i] + 1
        <4>1. order'[j] = order[i]
          BY <2>2, <3>2, <2>1
        <4>2. ASSUME order[i] > 1 PROVE \E k \in rows \ {i} : order'[k] = order[i] - 1
          BY <2>1, <2>2, <4>2 DEF Numbered
        <4>3. QED
          BY <3>0, <4>1, <4>2
      <3>3. CASE order[j] > order[i] + 1
        <4>1. PICK k \in rows : order[k] = order[j] - 1
          BY <3>0, <3>3, <2>1 DEF Numbered
        <4>2. k # i /\ order'[k] = order[j] - 2 /\ order'[j] = order[j] - 1
          BY <2>1, <2>2, <3>3, <4>1
        <4>3. QED
          BY <2>1, <3>0, <3>3, <4>2
      <3>4. QED
        BY <2>1, <3>0, <3>1, <3>2, <3>3
    <2>4. QED
      BY <2>1, <2>3 DEF Numbered
  <1>3. ASSUME NEW i \in Slot, NEW to \in RequestedOrder, MoveSlot(i, to)
        PROVE  Numbered'
    <2>1. to \in Int /\ OfASlot(to)
      BY <1>3, SlotsAssumption DEF SlotsAssumption, GapCaused
    <2>2. rows' = rows /\ i \in rows /\ to # order[i]
      BY <1>3 DEF MoveSlot
    <2>3. /\ order'[i] = to
          /\ \A j \in rows \ {i} :
                order'[j] =
                   IF to <= order[j] /\ order[j] < order[i] THEN order[j] + 1
                   ELSE IF order[i] < order[j] /\ order[j] <= to THEN order[j] - 1
                   ELSE order[j]
      BY <1>3, <2>1, MoveOrders
    <2>4. to >= 1 /\ order[i] >= 1
      BY <2>1, <2>2 DEF OfASlot, Numbered
    <2>5. PICK t \in rows : order[t] = to /\ t # i
      BY <2>1, <2>2 DEF OfASlot
    <2>6. ASSUME NEW j \in rows
          PROVE  order'[j] >= 1 /\ (order'[j] > 1 => \E k \in rows : order'[k] = order'[j] - 1)
      <3>1. CASE to < order[i]
        <4>1. PICK k \in rows : order[k] = order[i] - 1
          BY <2>1, <2>2, <2>4, <3>1 DEF Numbered
        <4>2. order'[k] = order[i]
          BY <2>1, <2>2, <2>3, <3>1, <4>1
        <4>3. CASE j = i
          <5>1. ASSUME to > 1 PROVE \E m \in rows : order[m] = to - 1 /\ m # i
            BY <2>2, <2>5, <3>1, <5>1 DEF Numbered
          <5>2. QED
            BY <2>1, <2>2, <2>3, <2>4, <3>1, <4>3, <5>1
        <4>4. CASE j # i /\ order[j] > 1
          <5>1. PICK m \in rows : order[m] = order[j] - 1
            BY <4>4 DEF Numbered
          <5>2. order[j] # order[i]
            BY <2>2, <4>4 DEF DistinctOrders
          <5>3. QED
            BY <2>1, <2>2, <2>3, <2>4, <3>1, <4>2, <4>4, <5>1, <5>2
        <4>5. CASE j # i /\ order[j] = 1
          BY <2>1, <2>2, <2>3, <2>4, <3>1, <4>5
        <4>6. QED
          BY <4>3, <4>4, <4>5 DEF Numbered
      <3>2. CASE order[i] < to
        <4>1. ASSUME order[i] > 1 PROVE \E k \in rows : order'[k] = order[i] - 1
          <5>1. PICK k \in rows : order[k] = order[i] - 1
            BY <2>2, <4>1 DEF Numbered
          <5>2. QED
            BY <2>1, <2>2, <2>3, <3>2, <5>1
        <4>2. CASE j = i
          BY <2>1, <2>2, <2>3, <2>4, <2>5, <3>2, <4>2
        <4>3. CASE j # i /\ order[j] > 1
          <5>1. PICK m \in rows : order[m] = order[j] - 1
            BY <4>3 DEF Numbered
          <5>2. order[j] # order[i]
            BY <2>2, <4>3 DEF DistinctOrders
          <5>3. QED
            BY <2>1, <2>2, <2>3, <2>4, <3>2, <4>1, <4>3, <5>1, <5>2
        <4>4. CASE j # i /\ order[j] = 1
          <5>1. order[j] < order[i]
            BY <2>2, <2>4, <4>4 DEF DistinctOrders
          <5>2. QED
            BY <2>1, <2>2, <2>3, <3>2, <4>4, <5>1
        <4>5. QED
          BY <4>2, <4>3, <4>4 DEF Numbered
      <3>3. QED
        BY <2>1, <2>2, <3>1, <3>2
    <2>7. QED
      BY <2>2, <2>6 DEF Numbered
  <1>4. ASSUME NEW i \in Slot, WithdrawSlot(i) PROVE Numbered'
    BY <1>4 DEF GapCaused
  <1>5. ASSUME NEW n \in RequestedSlots, UpdateMaxSlots(n) \/ DeleteWithSlots(n)
        PROVE  Numbered'
    BY <1>5 DEF UpdateMaxSlots, DeleteWithSlots, Numbered
  <1>6. CASE BecomeTimeBlock
    BY <1>6 DEF BecomeTimeBlock, Numbered
  <1>7. CASE UNCHANGED vars
    BY <1>7 DEF vars, Numbered
  <1>8. QED
    BY <1>1, <1>2, <1>3, <1>4, <1>5, <1>6, <1>7 DEF Next

\* A gap in the numbering comes from a withdrawal or from an order that the
\* page does not offer; removing and moving slots never leave one.
THEOREM GapsAreExplained == Spec => GapHasCause
  <1>1. TypeOK /\ DistinctOrders /\ [Next]_vars =>
          [Numbered /\ ~Numbered' => GapCaused]_vars
    BY NextNumbered
  <1>2. QED
    BY <1>1, TypeCorrect, OrdersStayDistinct, PTL DEF Spec, GapHasCause, GapCaused

-----------------------------------------------------------------------------
(* The slots are a list. *)

\* A request that leaves the order of the slots of S as it was.
LEMMA OrdersKept ==
    ASSUME NEW S, S \subseteq rows, S \subseteq rows',
           \A i, j \in S : order'[i] < order'[j] <=> order[i] < order[j]
    PROVE  List!Kept(S)
  BY DEF List!Kept, List!Ordered, ShownBefore

LEMMA NextList ==
    ASSUME TypeOK, DistinctOrders, [Next]_vars
    PROVE  [List!Next]_<<rows, ShownBefore>>
  <1> USE DEF TypeOK, DistinctOrders
  <1>0. List!TotalOrder'
    <2>1. TypeOK' /\ DistinctOrders'
      BY NextTypeOK, NextDistinct
    <2>2. QED
      BY <2>1 DEF TypeOK, DistinctOrders, List!TotalOrder, List!Ordered, ShownBefore
  <1>1. ASSUME NEW i \in Slot, NEW at \in RequestedOrder, NEW talk \in BOOLEAN,
               AddSlot(i, at, talk)
        PROVE  List!Next
    <2>1. at \in Int
      BY SlotsAssumption DEF SlotsAssumption
    <2>2. i \notin rows /\ rows' = rows \cup {i}
      BY <1>1 DEF AddSlot
    <2>3. \A j, k \in rows : order'[j] < order'[k] <=> order[j] < order[k]
      BY <1>1, <2>1, AddOrders
    <2>4. List!Insert(i)
      BY <2>2, <2>3, OrdersKept DEF List!Insert
    <2>5. QED
      BY <1>0, <2>4 DEF List!Next
  <1>2. ASSUME NEW i \in Slot, RemoveSlot(i) PROVE List!Next
    <2>1. i \in rows /\ rows' = rows \ {i}
      BY <1>2 DEF RemoveSlot
    <2>2. \A j, k \in rows' : order'[j] < order'[k] <=> order[j] < order[k]
      BY <1>2, <2>1, RemoveOrders
    <2>3. List!Delete(i)
      BY <2>1, <2>2, OrdersKept DEF List!Delete
    <2>4. QED
      BY <1>0, <2>3 DEF List!Next
  <1>3. ASSUME NEW i \in Slot, WithdrawSlot(i) PROVE List!Next
    <2>1. i \in rows /\ rows' = rows \ {i}
      BY <1>3 DEF WithdrawSlot
    <2>2. \A j, k \in rows' : order'[j] < order'[k] <=> order[j] < order[k]
      BY <1>3, <2>1 DEF WithdrawSlot
    <2>3. List!Delete(i)
      BY <2>1, <2>2, OrdersKept DEF List!Delete
    <2>4. QED
      BY <1>0, <2>3 DEF List!Next
  <1>4. ASSUME NEW i \in Slot, NEW to \in RequestedOrder, MoveSlot(i, to)
        PROVE  List!Next
    <2>1. to \in Int
      BY SlotsAssumption DEF SlotsAssumption
    <2>2. i \in rows /\ rows' = rows /\ to # order[i]
      BY <1>4 DEF MoveSlot
    <2>3. \A j, k \in rows \ {i} : order'[j] < order'[k] <=> order[j] < order[k]
      BY <1>4, <2>1, <2>2, MoveOrders
    <2>4. List!Move(i)
      BY <2>2, <2>3, OrdersKept DEF List!Move
    <2>5. QED
      BY <1>0, <2>4 DEF List!Next
  <1>5. ASSUME UNCHANGED <<rows, order>> PROVE UNCHANGED <<rows, ShownBefore>>
    BY <1>5 DEF ShownBefore
  <1>6. ASSUME NEW n \in RequestedSlots, DeleteWithSlots(n) PROVE List!Next
    BY <1>0, <1>6 DEF DeleteWithSlots, List!Next, List!Clear
  <1>7. CASE Next
    BY <1>1, <1>2, <1>3, <1>4, <1>5, <1>6, <1>7 DEF Next, UpdateMaxSlots, BecomeTimeBlock
  <1>8. CASE UNCHANGED vars
    BY <1>5, <1>8 DEF vars
  <1>9. QED
    BY <1>7, <1>8

\* The slots of a session implement the list of Agenda.
THEOREM ListIsKept == Spec => ListKept
  <1>1. Init => List!Init
    BY DEF Init, List!Init, ShownBefore
  <1>2. TypeOK /\ DistinctOrders /\ [Next]_vars => [List!Next]_<<rows, ShownBefore>>
    BY NextList
  <1>3. QED
    BY <1>1, <1>2, TypeCorrect, OrdersStayDistinct, PTL DEF Spec, ListKept, List!Spec
===============================================================================

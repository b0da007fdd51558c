-------------------------- MODULE SubmissionContract --------------------------
(***************************************************************************)
(* What the application promises about the status of one submission: it    *)
(* moves along TRANSITIONS; it falls back from assigned_to_session when    *)
(* its slot is released, since nobody was told yet; and any other move is  *)
(* traceable in the audit log, in the transaction that makes it.           *)
(***************************************************************************)
EXTENDS AbstractStateMachine

VARIABLES
    st,      \* the status, "absent" without a row
    placed,  \* a slot of the program holds the submission
    trail    \* the audit rows about it that the last request inserted

Create == st = "absent" /\ st' = "draft" /\ ~placed'

\* The row is deleted, alone or by a reset of all data.
Erase == st' = "absent" /\ ~placed'

Advance == <<st, st'>> \in TRANSITIONS

Unschedule ==
    /\ st = "assigned_to_session" /\ placed
    /\ st' = "decided" /\ ~placed'

\* A forced move names both ends in its audit row.
Force == \E row \in trail' : row.from = st /\ row.to = st'

Keep == st' = st

Init == st = "absent" /\ ~placed

Next == Create \/ Erase \/ Advance \/ Unschedule \/ Force \/ Keep

Spec == Init /\ [][Next]_<<st, placed, trail>>
===============================================================================

--------------------------- MODULE DeliveryContract ---------------------------
(***************************************************************************)
(* What the e-mail queue promises about one job: at least one delivery     *)
(* before it is marked sent, and none after it was marked sent or failed.  *)
(***************************************************************************)
EXTENDS Naturals

VARIABLES
    state,   \* "absent", "pending", "sent" or "failed"
    copies   \* messages the provider has accepted for the job

Queue == state = "absent" /\ state' = "pending" /\ copies' = 0

Deliver == state = "pending" /\ state' = "pending" /\ copies' = copies + 1

MarkSent == state = "pending" /\ copies > 0 /\ state' = "sent" /\ copies' = copies

GiveUp == state = "pending" /\ state' = "failed" /\ copies' = copies

\* The tables are emptied.
Purge == state' = "absent" /\ copies' = 0

Init == state = "absent" /\ copies = 0

Next == Queue \/ Deliver \/ MarkSent \/ GiveUp \/ Purge

Spec == Init /\ [][Next]_<<state, copies>>
===============================================================================

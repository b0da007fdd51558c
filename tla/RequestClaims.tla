----------------------------- MODULE RequestClaims -----------------------------
(***************************************************************************)
(* What the documentation and the comments say of requests around a slot   *)
(* and requests that overlap do not keep.  Each is checked by a run of its *)
(* own, which ends with the interleaving that contradicts it.              *)
(***************************************************************************)
EXTENDS MCRequests

\* session_service.py:490-491, removing a slot audit-logs the revert of a
\* submission that had been notified.
RevertIsAudited ==
    [][\A r \in Request : \A s \in Submission :
          CommitRemoveSlot(r) /\ status[s] \in AdvancedStatuses /\ status'[s] = "decided"
              => \E row \in audit' : row.submission = s]_vars

\* session_service.py:613, assigning to a full session is refused.
FullIsRefused == Count(rows) <= MaxSlots
===============================================================================

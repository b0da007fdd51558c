--------------------------- MODULE LifecycleClaims ---------------------------
(***************************************************************************)
(* What the documentation, the comments and the tests say of the life of   *)
(* an abstract and the handlers do not do.  Each is checked by a run of    *)
(* its own, which ends with the behaviour that contradicts it.             *)
(***************************************************************************)
EXTENDS MCLifecycle

\* README.md:26, reviewers "cannot review their own submissions": nobody
\* submits a review of a submission they present.
NobodyReviewsTheirOwn ==
    [][\A s \in Submission : \A p \in Person :
          review[s][p] = "pending" /\ review'[s][p] = "submitted" => author[s] # p]_vars

\* README.md:40, "bulk notify all decided submitters in one action", and the
\* table of e-mails, which sends the rejection on bulk notify: a complete run
\* of bulk_notify_decisions writes to the presenters that were turned down.
RejectedAreNotified ==
    [][ToNotify # {} /\ (\E role \in UserRole : BulkNotify(ToNotify, role)) =>
          \A s \in Submission :
             status[s] = "decided" /\ decision[s] \notin Acceptance =>
                \E job \in mail' : job.submission = s]_vars
===============================================================================

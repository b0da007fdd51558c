------------------------- MODULE AbstractStateMachine -------------------------
(***************************************************************************)
(* The status machine of a submission: the table SubmissionStatus.         *)
(* TRANSITIONS and the pure function validate() that every status change   *)
(* that is not an override goes through.  Comparisons of the clock with a  *)
(* deadline are an input: "late" is the set of deadlines already passed.   *)
(***************************************************************************)

\* SubmissionStatus: the values of the column submissions.status.
SubmissionStatus ==
    {"draft", "submitted", "under_review", "decided", "assigned_to_session",
     "notified", "confirmed", "files_submitted", "withdrawn"}

\* UserRole: the values of users.role.
UserRole == {"submitter", "reviewer", "program_chair", "admin"}

\* Who may run the committee's side of the workflow.
ChairRoles == {"program_chair", "admin"}

\* The deadlines validate() compares the clock with.  The third deadline of
\* conference_settings, confirmation_deadline, is compared with nothing.
Deadline == {"submission_deadline", "file_submission_deadline"}

\* SubmissionStatus.TRANSITIONS, as a set of edges.
TRANSITIONS ==
    { <<"draft", "submitted">>,
      <<"submitted", "under_review">>,
      <<"under_review", "decided">>,
      <<"decided", "assigned_to_session">>,
      <<"assigned_to_session", "notified">>,
      <<"notified", "confirmed">>,
      <<"notified", "withdrawn">>,
      <<"confirmed", "files_submitted">> }

\* The roles validate() accepts on an edge.
EdgeRoles(from, to) ==
    IF <<from, to>> \in { <<"draft", "submitted">>,
                          <<"notified", "confirmed">>,
                          <<"notified", "withdrawn">>,
                          <<"confirmed", "files_submitted">> }
    THEN {"submitter"}
    ELSE IF <<from, to>> = <<"submitted", "under_review">>
    THEN {"admin"}
    ELSE ChairRoles

\* The deadlines validate() enforces on an edge.
EdgeDeadlines(from, to) ==
    IF to = "submitted" THEN {"submission_deadline"}
    ELSE IF to = "files_submitted" THEN {"file_submission_deadline"}
    ELSE {}

\* validate(): the role is looked at before the deadline, and an edge that is
\* not in the table is refused whatever the role.
Validate(from, to, role, late) ==
    IF <<from, to>> \notin TRANSITIONS THEN "invalid"
    ELSE IF role \notin EdgeRoles(from, to) THEN "forbidden"
    ELSE IF EdgeDeadlines(from, to) \cap late # {} THEN "invalid"
    ELSE "accepted"

\* The e-mails an accepted transition asks its caller to queue.
TransitionEmails(from, to) ==
    IF <<from, to>> = <<"draft", "submitted">> THEN {"submission_confirmation"}
    ELSE {}

NothingReleased(from, to) == FALSE

\* Whether an accepted transition asks its caller to delete the slot.
ReleasesSlot(from, to) == <<from, to>> = <<"notified", "withdrawn">>
===============================================================================

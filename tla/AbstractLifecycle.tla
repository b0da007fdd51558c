-------------------------- MODULE AbstractLifecycle --------------------------
(***************************************************************************)
(* The life of conference abstracts as the backend's request handlers     *)
(* drive it: submission, documents, review, decision, scheduling,          *)
(* notification, the presenter's answer, and every administrative          *)
(* override, deletion and reset.                                           *)
(*                                                                         *)
(* One action is one handler that commits.  A handler that raises commits  *)
(* nothing, so a refusal is an action that is not enabled.  Handlers run   *)
(* one at a time here.                                                     *)
(*                                                                         *)
(* The number of slots of a session that hold no submission, max_slots     *)
(* and the order of the slots are not part of this state: in these         *)
(* handlers they can only make a request fail, so leaving them out only    *)
(* adds behaviours.                                                        *)
(***************************************************************************)
EXTENDS AbstractStateMachine, Naturals

CONSTANTS
    Submission,     \* submission identifiers
    Person,         \* accounts that may present
    Reviewer,       \* the accounts with the reviewer privilege or a reviewing role
    Session,        \* session identifiers
    SessionType,    \* configured session types
    NoSlotType,     \* the session types that are pure time blocks
    Outcome,        \* configured decision outcomes
    Acceptance,     \* the outcomes with is_acceptance set
    MaxDocuments,   \* bound: abstract documents attached to a submission
    OverrideTarget, \* the statuses an administrator enters in a status override
    OverrideOutcome \* the outcomes entered in a decision override

None == "none"

(***************************************************************************)
(* A session type that holds slots and doubles as a decision outcome (the  *)
(* built-in "oral" and "poster") is an acceptance.  The seeded             *)
(* configuration satisfies this; nothing in the code enforces it.          *)
(***************************************************************************)
ASSUME ConfigurationAssumption ==
    /\ Reviewer \subseteq Person
    /\ NoSlotType \subseteq SessionType
    /\ Acceptance \subseteq Outcome
    /\ (SessionType \ NoSlotType) \cap Outcome \subseteq Acceptance
    /\ None \notin Person \cup Session \cup SessionType \cup Outcome
    /\ OverrideTarget \subseteq SubmissionStatus
    /\ OverrideOutcome \subseteq Outcome
    /\ MaxDocuments \in Nat

VARIABLES
    status,       \* submissions.status, or "absent" for an unused identifier
    author,       \* submissions.presenting_author_id
    documents,    \* number of abstract_document attachments
    review,       \* per submission and person: no row, a pending row, a submitted row
    decision,     \* decisions.outcome, or None without a row
    notified,     \* decisions.notification_sent_at is set
    slot,         \* the session whose slot holds the submission, or None
    sessionType,  \* sessions.session_type, or None for an unused identifier
    overrides,    \* the override actions among the audit rows of a submission
    log,          \* audit_logs rows inserted by the last request
    mail          \* email_jobs rows inserted by the last request

tables == <<status, author, documents, review, decision, notified, slot,
            sessionType, overrides>>
vars == <<tables, log, mail>>

-----------------------------------------------------------------------------
(* Rows. *)

OverrideAction == {"status_override", "decision_override"}

AuditAction ==
    OverrideAction \cup
    {"submission_reassigned", "file_replacement_requested",
     "session_deleted_status_change", "slot_removed_status_change"}

Template ==
    {"submission_confirmation", "decision_accepted", "decision_rejected",
     "file_submission_reminder"}

AuditRow(s, action, from, to) ==
    [submission |-> s, action |-> action, from |-> from, to |-> to]

\* A job's template model either names the session of the slot or does not.
EmailJob(s, template, withSession) ==
    [submission |-> s, template |-> template, withSession |-> withSession]

\* What a request adds to the two append-only tables.
Inserts(rows, jobs) == log' = rows /\ mail' = jobs

Exists(s) == status[s] # "absent"
Slotted(s) == slot[s] # None
HasSlots(x) == \E s \in Submission : slot[s] = x

\* _ADVANCED_STATUSES: past assigned_to_session and still in the program.
AdvancedStatuses == {"notified", "confirmed", "files_submitted"}
Scheduled == {"assigned_to_session"} \cup AdvancedStatuses

UncheckedDeleteTargets == {"decided", "withdrawn", "deleted"}
AdvancedDeleteTargets == {"decided", "withdrawn"}

-----------------------------------------------------------------------------
Init ==
    /\ status = [s \in Submission |-> "absent"]
    /\ author = [s \in Submission |-> None]
    /\ documents = [s \in Submission |-> 0]
    /\ review = [s \in Submission |-> [p \in Person |-> "none"]]
    /\ decision = [s \in Submission |-> None]
    /\ notified = [s \in Submission |-> FALSE]
    /\ slot = [s \in Submission |-> None]
    /\ sessionType = [x \in Session |-> None]
    /\ overrides = [s \in Submission |-> {}]
    /\ log = {}
    /\ mail = {}

-----------------------------------------------------------------------------
(* The submitter's desk: creating, editing the documents of, submitting.   *)

CreateSubmission(s, p, role) ==
    /\ role \in {"submitter", "admin"}
    /\ ~Exists(s)
    /\ status' = [status EXCEPT ![s] = "draft"]
    /\ author' = [author EXCEPT ![s] = p]
    /\ Inserts({}, {})
    /\ UNCHANGED <<documents, review, decision, notified, slot, sessionType,
                   overrides>>

(***************************************************************************)
(* Deleting the object lets the ORM cascade to attachments and reviews,    *)
(* whose relationships say so.  The relationship to the decision does not: *)
(* the ORM sets its submission_id, a NOT NULL column, to NULL, the flush   *)
(* fails and the request is rolled back.  So a submission with a decision  *)
(* cannot be deleted.                                                      *)
(***************************************************************************)
DeleteSubmission(s, by) ==
    /\ Exists(s)
    /\ by = "owner" => status[s] = "draft"
    /\ decision[s] = None
    /\ status' = [status EXCEPT ![s] = "absent"]
    /\ author' = [author EXCEPT ![s] = None]
    /\ documents' = [documents EXCEPT ![s] = 0]
    /\ review' = [review EXCEPT ![s] = [p \in Person |-> "none"]]
    /\ slot' = [slot EXCEPT ![s] = None]
    /\ overrides' = [overrides EXCEPT ![s] = {}]
    /\ Inserts({}, {})
    /\ UNCHANGED <<decision, notified, sessionType>>

\* confirm_upload of an abstract_document: the owner only while the abstract is
\* in the submitter's hands, an administrator at any status.
ConfirmUpload(s, by) ==
    /\ Exists(s)
    /\ documents[s] < MaxDocuments
    /\ by = "owner" => status[s] \in {"draft", "submitted"}
    /\ documents' = [documents EXCEPT ![s] = @ + 1]
    /\ Inserts({}, {})
    /\ UNCHANGED <<status, author, review, decision, notified, slot,
                   sessionType, overrides>>

\* delete_attachment of an abstract_document.
DeleteAttachment(s, by) ==
    /\ documents[s] > 0
    /\ by = "owner" => \/ status[s] = "draft"
                       \/ status[s] = "submitted" /\ documents[s] > 1
    /\ documents' = [documents EXCEPT ![s] = @ - 1]
    /\ Inserts({}, {})
    /\ UNCHANGED <<status, author, review, decision, notified, slot,
                   sessionType, overrides>>

(***************************************************************************)
(* transition_submission without an override: the document check, then     *)
(* validate(), then the e-mails, the release of the slot and the new       *)
(* status, in one commit.  The slot is deleted without renumbering.        *)
(***************************************************************************)
TransitionSubmission(s, to, role, late) ==
    /\ Exists(s)
    /\ to = "submitted" => documents[s] > 0
    /\ Validate(status[s], to, role, late) = "accepted"
    /\ Inserts({}, {EmailJob(s, t, FALSE) : t \in TransitionEmails(status[s], to)})
    /\ slot' = IF ReleasesSlot(status[s], to)
               THEN [slot EXCEPT ![s] = None] ELSE slot
    /\ status' = [status EXCEPT ![s] = to]
    /\ UNCHANGED <<author, documents, review, decision, notified, sessionType,
                   overrides>>

\* The four endpoints that call it directly.
Submit(s, role, late)      == TransitionSubmission(s, "submitted", role, late)
Confirm(s, role, late)     == TransitionSubmission(s, "confirmed", role, late)
Withdraw(s, role, late)    == TransitionSubmission(s, "withdrawn", role, late)
SubmitFiles(s, role, late) == TransitionSubmission(s, "files_submitted", role, late)

-----------------------------------------------------------------------------
(* Review. *)

PrivilegedOnly(s, p) == p \in Reviewer
MayReview(s, p) == p \in Reviewer /\ p # author[s]

\* A first reviewer opens the review of a submitted abstract.
ReviewNotOpened(s) == status[s]
ReviewOpened(s) == "under_review"

AssignReviewer(s, p, role) ==
    /\ role \in ChairRoles
    /\ status[s] \in {"submitted", "under_review"}
    /\ MayReview(s, p)
    /\ review[s][p] = "none"
    /\ status' = [status EXCEPT ![s] = ReviewOpened(s)]
    /\ review' = [review EXCEPT ![s][p] = "pending"]
    /\ Inserts({}, {})
    /\ UNCHANGED <<author, documents, decision, notified, slot, sessionType,
                   overrides>>

\* The row goes with any feedback in it, at any status of the submission.
UnassignReviewer(s, p, role) ==
    /\ role \in ChairRoles
    /\ review[s][p] # "none"
    /\ review' = [review EXCEPT ![s][p] = "none"]
    /\ Inserts({}, {})
    /\ UNCHANGED <<status, author, documents, decision, notified, slot,
                   sessionType, overrides>>

\* By the assigned reviewer or an administrator; the status is not looked at.
SubmitReview(s, p) ==
    /\ review[s][p] = "pending"
    /\ review' = [review EXCEPT ![s][p] = "submitted"]
    /\ Inserts({}, {})
    /\ UNCHANGED <<status, author, documents, decision, notified, slot,
                   sessionType, overrides>>

-----------------------------------------------------------------------------
(* Decision. *)

\* An existing row is updated, keeping its notification_sent_at; otherwise one
\* is inserted.
UpdatedDecision(s, outcome) ==
    [decision EXCEPT ![s] = IF @ = None THEN None ELSE outcome]
UpsertedDecision(s, outcome) == [decision EXCEPT ![s] = outcome]

RecordDecision(s, outcome, role) ==
    /\ role \in ChairRoles
    /\ Exists(s)
    /\ status[s] = "under_review"
    /\ Validate(status[s], "decided", role, {}) = "accepted"
    /\ decision' = UpsertedDecision(s, outcome)
    /\ status' = [status EXCEPT ![s] = "decided"]
    /\ Inserts({}, {})
    /\ UNCHANGED <<author, documents, review, notified, slot, sessionType,
                   overrides>>

OverrideDecision(s, outcome, role) ==
    /\ role \in ChairRoles
    /\ Exists(s)
    /\ outcome \in OverrideOutcome
    /\ decision' = UpsertedDecision(s, outcome)
    /\ overrides' = [overrides EXCEPT ![s] = @ \cup {"decision_override"}]
    /\ Inserts({AuditRow(s, "decision_override", decision[s], outcome)}, {})
    /\ UNCHANGED <<status, author, documents, review, notified, slot,
                   sessionType>>

-----------------------------------------------------------------------------
(* The program: sessions and the slots that hold submissions. *)

CreateSession(x, type, role) ==
    /\ role \in ChairRoles
    /\ sessionType[x] = None
    /\ sessionType' = [sessionType EXCEPT ![x] = type]
    /\ Inserts({}, {})
    /\ UNCHANGED <<status, author, documents, review, decision, notified, slot,
                   overrides>>

BecomesAnything(x, type) == TRUE
MayBecome(x, type) == type \in NoSlotType => ~HasSlots(x)

\* update_session as far as the type goes: a session that still has slots may
\* become any type that holds slots.
RetypeSession(x, type, role) ==
    /\ role \in ChairRoles
    /\ sessionType[x] # None
    /\ MayBecome(x, type)
    /\ sessionType' = [sessionType EXCEPT ![x] = type]
    /\ Inserts({}, {})
    /\ UNCHANGED <<status, author, documents, review, decision, notified, slot,
                   overrides>>

DecidedAtAll(s, x) == decision[s] # None
UndecidedOrMatching(s, x) == decision[s] \in {None, sessionType[x]}

\* The outcome of the decision must be the type of the session.
DecisionFits(s, x) == decision[s] = sessionType[x]

\* assign_submission_to_session with a submission.
AssignToSession(s, x, role) ==
    /\ role \in ChairRoles
    /\ sessionType[x] # None
    /\ sessionType[x] \notin NoSlotType
    /\ status[s] = "decided"
    /\ DecisionFits(s, x)
    /\ ~Slotted(s)
    /\ Validate(status[s], "assigned_to_session", role, {}) = "accepted"
    /\ slot' = [slot EXCEPT ![s] = x]
    /\ status' = [status EXCEPT ![s] = "assigned_to_session"]
    /\ Inserts({}, {})
    /\ UNCHANGED <<author, documents, review, decision, notified, sessionType,
                   overrides>>

\* The status a submission has after its slot was removed, and the audit row.
AdvancedToDecided(s) == IF status[s] \in AdvancedStatuses THEN "decided" ELSE status[s]
ScheduledToDecided(s) == IF status[s] \in Scheduled THEN "decided" ELSE status[s]

NoRevertRow(s) == {}
RevertRow(s) ==
    {AuditRow(s, "slot_removed_status_change", from, "decided")
       : from \in {status[s]} \cap AdvancedStatuses}

RemoveSlot(s, role) ==
    /\ role \in ChairRoles
    /\ Slotted(s)
    /\ slot' = [slot EXCEPT ![s] = None]
    /\ status' = [status EXCEPT ![s] = ScheduledToDecided(s)]
    /\ Inserts(RevertRow(s), {})
    /\ UNCHANGED <<author, documents, review, decision, notified, sessionType,
                   overrides>>

\* delete_session of one session, delete_group of the columns of a block, with
\* _revert_submissions_for_session; the slots go with the sessions.
DeleteSessions(xs, advanced, role) ==
    LET held == {s \in Submission : slot[s] \in xs}
        forced == {s \in held : status[s] \in AdvancedStatuses}
    IN  /\ role \in ChairRoles
        /\ xs # {}
        /\ \A x \in xs : sessionType[x] # None
        /\ advanced \in AdvancedDeleteTargets
        /\ status' = [s \in Submission |->
                        IF s \in forced THEN advanced
                        ELSE IF s \in held /\ status[s] = "assigned_to_session"
                        THEN "decided" ELSE status[s]]
        /\ slot' = [s \in Submission |-> IF s \in held THEN None ELSE slot[s]]
        /\ sessionType' = [x \in Session |-> IF x \in xs THEN None ELSE sessionType[x]]
        /\ Inserts({AuditRow(s, "session_deleted_status_change", status[s], advanced)
                      : s \in forced}, {})
        /\ UNCHANGED <<author, documents, review, decision, notified, overrides>>

-----------------------------------------------------------------------------
(* Notification and what follows it. *)

\* The outcome bulk_notify_decisions announces; None means it skips the row.
AnnouncedOutcome(s) ==
    IF decision[s] # None THEN decision[s]
    ELSE IF Slotted(s) /\ sessionType[slot[s]] \in {"oral", "poster"}
    THEN sessionType[slot[s]]
    ELSE None

DecisionEmail(s) ==
    IF AnnouncedOutcome(s) \in Acceptance
    THEN EmailJob(s, "decision_accepted", Slotted(s))
    ELSE EmailJob(s, "decision_rejected", FALSE)

ToNotify ==
    {s \in Submission : status[s] = "assigned_to_session" /\ AnnouncedOutcome(s) # None}

StampedAtTheEnd(done) ==
    IF done = ToNotify THEN [s \in Submission |-> notified[s] \/ (s \in done /\ decision[s] # None)]
    ELSE notified
Stamped(done) ==
    [s \in Submission |-> notified[s] \/ (s \in done /\ decision[s] # None)]

(***************************************************************************)
(* bulk_notify_decisions commits once per submission, in the order of an   *)
(* unordered query: "done" is all of them, or the part that was committed  *)
(* before the request died.                                                *)
(***************************************************************************)
BulkNotify(done, role) ==
    /\ role \in ChairRoles
    /\ done # {}
    /\ done \subseteq ToNotify
    /\ \A s \in done : Validate(status[s], "notified", role, {}) = "accepted"
    /\ status' = [s \in Submission |-> IF s \in done THEN "notified" ELSE status[s]]
    /\ notified' = Stamped(done)
    /\ Inserts({}, {DecisionEmail(s) : s \in done})
    /\ UNCHANGED <<author, documents, review, decision, slot, sessionType,
                   overrides>>

RequestFileReplacement(s, role) ==
    /\ role \in ChairRoles
    /\ status[s] = "files_submitted"
    /\ status' = [status EXCEPT ![s] = "confirmed"]
    /\ Inserts({AuditRow(s, "file_replacement_requested", "files_submitted", "confirmed")},
               {EmailJob(s, "file_submission_reminder", Slotted(s))})
    /\ UNCHANGED <<author, documents, review, decision, notified, slot,
                   sessionType, overrides>>

-----------------------------------------------------------------------------
(* Administration. *)

\* transition_submission with admin_override: any status, nothing else touched.
OverrideStatus(s, to, role) ==
    /\ role = "admin"
    /\ Exists(s)
    /\ to \in OverrideTarget
    /\ status' = [status EXCEPT ![s] = to]
    /\ overrides' = [overrides EXCEPT ![s] = @ \cup {"status_override"}]
    /\ Inserts({AuditRow(s, "status_override", status[s], to)}, {})
    /\ UNCHANGED <<author, documents, review, decision, notified, slot,
                   sessionType>>

\* The reviewers already assigned are not looked at.
ReassignSubmission(s, p, role) ==
    /\ role = "admin"
    /\ Exists(s)
    /\ p # author[s]
    /\ author' = [author EXCEPT ![s] = p]
    /\ Inserts({AuditRow(s, "submission_reassigned", author[s], p)}, {})
    /\ UNCHANGED <<status, documents, review, decision, notified, slot,
                   sessionType, overrides>>

\* Refused while the account presents something or has submitted a review;
\* its pending assignments go with it.
DeleteUser(p, role) ==
    /\ role = "admin"
    /\ \A s \in Submission : author[s] # p /\ review[s][p] # "submitted"
    /\ review' = [s \in Submission |-> [review[s] EXCEPT ![p] = "none"]]
    /\ Inserts({}, {})
    /\ UNCHANGED <<status, author, documents, decision, notified, slot,
                   sessionType, overrides>>

\* reset_all_data: the tables are emptied, audit rows and jobs included.
ResetAllData(role) ==
    /\ role = "admin"
    /\ status' = [s \in Submission |-> "absent"]
    /\ author' = [s \in Submission |-> None]
    /\ documents' = [s \in Submission |-> 0]
    /\ review' = [s \in Submission |-> [p \in Person |-> "none"]]
    /\ decision' = [s \in Submission |-> None]
    /\ notified' = [s \in Submission |-> FALSE]
    /\ slot' = [s \in Submission |-> None]
    /\ sessionType' = [x \in Session |-> None]
    /\ overrides' = [s \in Submission |-> {}]
    /\ Inserts({}, {})

-----------------------------------------------------------------------------
By == {"owner", "admin"}

SubmitterStep(s) ==
    \/ \E p \in Person, role \in UserRole : CreateSubmission(s, p, role)
    \/ \E by \in By : DeleteSubmission(s, by)
    \/ \E by \in By : ConfirmUpload(s, by)
    \/ \E by \in By : DeleteAttachment(s, by)
    \/ \E role \in UserRole, late \in SUBSET Deadline :
          \/ Submit(s, role, late)
          \/ Confirm(s, role, late)
          \/ Withdraw(s, role, late)
          \/ SubmitFiles(s, role, late)

ReviewStep(s) ==
    \E p \in Person :
       \/ \E role \in UserRole : AssignReviewer(s, p, role)
       \/ \E role \in UserRole : UnassignReviewer(s, p, role)
       \/ SubmitReview(s, p)

CommitteeStep(s) ==
    \E role \in UserRole :
       \/ \E outcome \in Outcome : RecordDecision(s, outcome, role)
       \/ \E outcome \in OverrideOutcome : OverrideDecision(s, outcome, role)
       \/ \E x \in Session : AssignToSession(s, x, role)
       \/ RemoveSlot(s, role)
       \/ RequestFileReplacement(s, role)

AdminStep(s) ==
    \E role \in UserRole :
       \/ \E to \in OverrideTarget : OverrideStatus(s, to, role)
       \/ \E p \in Person : ReassignSubmission(s, p, role)

ProgramStep ==
    \E role \in UserRole :
       \/ \E x \in Session, type \in SessionType : CreateSession(x, type, role)
       \/ \E x \in Session, type \in SessionType : RetypeSession(x, type, role)
       \/ \E xs \in SUBSET Session, advanced \in AdvancedDeleteTargets :
             DeleteSessions(xs, advanced, role)
       \/ \E done \in SUBSET Submission : BulkNotify(done, role)

MaintenanceStep ==
    \E role \in UserRole :
       \/ \E p \in Person : DeleteUser(p, role)
       \/ ResetAllData(role)

Next ==
    \/ \E s \in Submission :
          SubmitterStep(s) \/ ReviewStep(s) \/ CommitteeStep(s) \/ AdminStep(s)
    \/ ProgramStep
    \/ MaintenanceStep

Spec == Init /\ [][Next]_vars

-----------------------------------------------------------------------------
(* Properties. *)

AnyValue == SubmissionStatus \cup Person \cup Outcome \cup {None}

\* Every column holds a value of its domain; in particular no handler writes a
\* status the enum submission_status does not have.
TypeOK ==
    /\ status \in [Submission -> SubmissionStatus \cup {"absent"}]
    /\ author \in [Submission -> Person \cup {None}]
    /\ documents \in [Submission -> 0..MaxDocuments]
    /\ review \in [Submission -> [Person -> {"none", "pending", "submitted"}]]
    /\ decision \in [Submission -> Outcome \cup {None}]
    /\ notified \in [Submission -> BOOLEAN]
    /\ slot \in [Submission -> Session \cup {None}]
    /\ sessionType \in [Session -> SessionType \cup {None}]
    /\ overrides \in [Submission -> SUBSET OverrideAction]
    /\ log \subseteq [submission : Submission, action : AuditAction,
                      from : AnyValue, to : AnyValue]
    /\ mail \subseteq [submission : Submission, template : Template,
                       withSession : BOOLEAN]

Overridden(s) == "status_override" \in overrides[s]
Redecided(s) == "decision_override" \in overrides[s]

\* Statuses reached only by way of a decision.
AfterDecision == {"decided", "withdrawn"} \cup Scheduled

\* As long as no administrator forced its status, a submission occupies a slot
\* exactly while its status says so: whatever releases the slot (withdrawing,
\* removing the slot, deleting the session) leaves the program in the same
\* commit, and whatever reverts the status frees the slot.
ScheduledIffSlotted ==
    \A s \in Submission :
        ~Overridden(s) => (Slotted(s) <=> status[s] \in Scheduled)

\* A submission in a slot has a decision, overrides or not, so the branch of
\* bulk_notify_decisions that falls back to the type of the session is dead.
SlotHasDecision == \A s \in Submission : Slotted(s) => decision[s] # None

\* No submission is past "under_review" without a committee decision unless its
\* status was overridden.
DecisionBeforeProgram ==
    \A s \in Submission :
        ~Overridden(s) /\ status[s] \in AfterDecision => decision[s] # None

\* The committee decides before anything depends on it: a submission that has a
\* slot, or a status only a decision leads to, has its decision row.
DecisionFirst == SlotHasDecision /\ DecisionBeforeProgram

\* A presenter who may answer, or has answered, was notified: the decision row
\* of a notified, confirmed, files_submitted or withdrawn submission carries
\* notification_sent_at, unless the status was overridden.
AnsweredAfterNotification ==
    \A s \in Submission :
        ~Overridden(s) /\ status[s] \in AdvancedStatuses \cup {"withdrawn"}
            => notified[s]

\* A slot belongs to a session that exists and whose type holds slots.
SlotSessionHoldsSlots ==
    \A s \in Submission :
        Slotted(s) => sessionType[slot[s]] \in SessionType \ NoSlotType

\* Reviews exist only for abstracts the committee has opened for review.
ReviewedAfterSubmission ==
    \A s \in Submission : \A p \in Person :
        review[s][p] # "none" /\ ~Overridden(s)
            => status[s] \notin {"absent", "draft", "submitted"}

\* An e-mail that announces an acceptance names the session, unless the status
\* of the submission was overridden.
AcceptanceNamesSession ==
    \A job \in mail :
        job.template = "decision_accepted" /\ ~job.withSession
            => Overridden(job.submission)

\* decision_rejected is queued only for a submission on which the status or the
\* decision was overridden: no ordinary path leads a rejected submission to
\* bulk_notify_decisions.
RejectionNeedsOverride ==
    \A job \in mail :
        job.template = "decision_rejected" => overrides[job.submission] # {}

(***************************************************************************)
(* What the invariants above need to be inductive: an identifier without a *)
(* row has nothing attached to it, and what was placed without an override *)
(* was accepted.                                                           *)
(***************************************************************************)
AbsentIsBlank ==
    \A s \in Submission :
        ~Exists(s) => /\ decision[s] = None
                      /\ overrides[s] = {}
                      /\ \A p \in Person : review[s][p] = "none"

PlacedIsAccepted ==
    \A s \in Submission :
        Slotted(s) /\ overrides[s] = {} => decision[s] \in Acceptance

TablesInv ==
    /\ AbsentIsBlank
    /\ ScheduledIffSlotted
    /\ SlotHasDecision
    /\ DecisionBeforeProgram
    /\ AnsweredAfterNotification
    /\ SlotSessionHoldsSlots
    /\ ReviewedAfterSubmission
    /\ PlacedIsAccepted

\* What an e-mail announces has its reason in the tables: the session named in
\* an acceptance, an override behind every rejection.
MailJustified == AcceptanceNamesSession /\ RejectionNeedsOverride

Mismatched(s) == Slotted(s) /\ decision[s] # sessionType[slot[s]]

\* A submission sits in a session of another type than its decision only after
\* the decision was overridden, recorded again, or the session was retyped:
\* assigning never produces the mismatch.
MismatchHasCause ==
    [][\A s \in Submission :
          ~Mismatched(s) /\ Mismatched(s)' =>
             \/ \E row \in log' : row.submission = s /\ row.action = "decision_override"
             \/ status[s] = "under_review"
             \/ Slotted(s) /\ sessionType'[slot[s]] # sessionType[slot[s]]]_vars

SelfReviewed(s) == \E p \in Person : author[s] = p /\ review[s][p] # "none"

\* A presenter comes to hold a review of their own submission only when the
\* submission is reassigned to one of its reviewers.
SelfReviewOnlyByReassignment ==
    [][\A s \in Submission :
          ~SelfReviewed(s) /\ SelfReviewed(s)' =>
             \E row \in log' : row.submission = s /\ row.action = "submission_reassigned"]_vars

-----------------------------------------------------------------------------
\* What the status column of one submission promises.
Contract(s) ==
    INSTANCE SubmissionContract WITH
        st <- status[s],
        placed <- Slotted(s),
        trail <- {row \in log : row.submission = s}

\* Every submission's status moves along TRANSITIONS, or back to "decided" with
\* the release of its slot before anybody was told, or with an audit row.
ContractKept ==
    /\ \A s \in Submission : Contract(s)!Init
    /\ [][\A s \in Submission : Contract(s)!Next]_vars
===============================================================================

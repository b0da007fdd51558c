----------------------- MODULE AbstractLifecycleProofs ------------------------
(***************************************************************************)
(* Proofs about AbstractLifecycle, for every set of submissions, people,   *)
(* sessions, types and outcomes that satisfies ConfigurationAssumption:    *)
(* what is always so, what one handler may and may not do, and that every  *)
(* submission keeps its contract.                                          *)
(***************************************************************************)
EXTENDS AbstractLifecycle, TLAPS

-----------------------------------------------------------------------------
(* Type correctness. *)

AuditRows == [submission : Submission, action : AuditAction,
              from : AnyValue, to : AnyValue]
JobRows == [submission : Submission, template : Template, withSession : BOOLEAN]

\* Every job the handlers queue is a well-formed row.
LEMMA EmailJobType ==
    ASSUME NEW s \in Submission, NEW t \in Template, NEW b \in BOOLEAN
    PROVE  EmailJob(s, t, b) \in [submission : Submission, template : Template,
                                 withSession : BOOLEAN]
  BY Zenon DEF EmailJob

LEMMA TransitionJobs ==
    ASSUME NEW s \in Submission, NEW from, NEW to
    PROVE  {EmailJob(s, t, FALSE) : t \in TransitionEmails(from, to)} \subseteq JobRows
  <1>1. TransitionEmails(from, to) \subseteq Template
    BY DEF TransitionEmails, Template
  <1>2. SUFFICES ASSUME NEW t \in TransitionEmails(from, to)
                 PROVE  EmailJob(s, t, FALSE) \in JobRows
    OBVIOUS
  <1>3. QED
    BY <1>1, EmailJobType DEF JobRows

\* The audit row of a removed slot is well-formed.
LEMMA RevertRowType ==
    ASSUME NEW s \in Submission
    PROVE  RevertRow(s) \subseteq AuditRows
  <1>1. SUFFICES ASSUME NEW from \in AdvancedStatuses
                 PROVE  AuditRow(s, "slot_removed_status_change", from, "decided")
                            \in AuditRows
    BY DEF RevertRow
  <1>2. QED
    BY DEF AuditRow, AuditRows, AuditAction, AnyValue, SubmissionStatus,
           AdvancedStatuses

LEMMA InitTypeOK == Init => TypeOK
  BY ConfigurationAssumption DEF Init, TypeOK

\* The column domains are closed under what every handler writes.
LEMMA NextTypeOK == TypeOK /\ [Next]_vars => TypeOK'
  <1> SUFFICES ASSUME TypeOK, [Next]_vars PROVE TypeOK'
    OBVIOUS
  <1> USE ConfigurationAssumption DEF TypeOK, Inserts, SubmissionStatus, Exists
  <1>1. ASSUME NEW s \in Submission, SubmitterStep(s) PROVE TypeOK'
    <2>1. ASSUME NEW p \in Person, NEW role \in UserRole, CreateSubmission(s, p, role)
          PROVE  TypeOK'
      BY <2>1 DEF CreateSubmission
    <2>2. ASSUME NEW by \in By, DeleteSubmission(s, by) PROVE TypeOK'
      BY <2>2 DEF DeleteSubmission
    <2>3. ASSUME NEW by \in By, ConfirmUpload(s, by) PROVE TypeOK'
      BY <2>3 DEF ConfirmUpload
    <2>4. ASSUME NEW by \in By, DeleteAttachment(s, by) PROVE TypeOK'
      BY <2>4 DEF DeleteAttachment
    <2>5. ASSUME NEW role \in UserRole, NEW late \in SUBSET Deadline,
                 NEW to \in {"submitted", "confirmed", "withdrawn", "files_submitted"},
                 TransitionSubmission(s, to, role, late)
          PROVE  TypeOK'
      <3>3. mail' \subseteq JobRows
        <4>1. mail' = {EmailJob(s, t, FALSE) : t \in TransitionEmails(status[s], to)}
          BY <2>5 DEF TransitionSubmission
        <4>2. QED
          BY <4>1, TransitionJobs
      <3>4. QED
        BY <2>5, <3>3 DEF TransitionSubmission, JobRows
    <2>6. QED
      BY <1>1, <2>1, <2>2, <2>3, <2>4, <2>5
      DEF SubmitterStep, Submit, Confirm, Withdraw, SubmitFiles
  <1>2. ASSUME NEW s \in Submission, ReviewStep(s) PROVE TypeOK'
    <2>1. ASSUME NEW p \in Person, NEW role \in UserRole, AssignReviewer(s, p, role)
          PROVE  TypeOK'
      BY <2>1 DEF AssignReviewer, ReviewOpened
    <2>2. ASSUME NEW p \in Person, NEW role \in UserRole, UnassignReviewer(s, p, role)
          PROVE  TypeOK'
      BY <2>2 DEF UnassignReviewer
    <2>3. ASSUME NEW p \in Person, SubmitReview(s, p) PROVE TypeOK'
      BY <2>3 DEF SubmitReview
    <2>4. QED
      BY <1>2, <2>1, <2>2, <2>3 DEF ReviewStep
  <1>3. ASSUME NEW s \in Submission, CommitteeStep(s) PROVE TypeOK'
    <2>1. ASSUME NEW role \in UserRole, NEW outcome \in Outcome,
                 RecordDecision(s, outcome, role)
          PROVE  TypeOK'
      BY <2>1 DEF RecordDecision, UpsertedDecision
    <2>2. ASSUME NEW role \in UserRole, NEW outcome \in OverrideOutcome,
                 OverrideDecision(s, outcome, role)
          PROVE  TypeOK'
      BY <2>2 DEF OverrideDecision, UpsertedDecision, AuditRow, AuditAction,
                  OverrideAction, AnyValue
    <2>3. ASSUME NEW role \in UserRole, NEW x \in Session, AssignToSession(s, x, role)
          PROVE  TypeOK'
      BY <2>3 DEF AssignToSession
    <2>4. ASSUME NEW role \in UserRole, RemoveSlot(s, role) PROVE TypeOK'
      <3>1. log' \subseteq AuditRows
        BY <2>4, RevertRowType DEF RemoveSlot
      <3>2. QED
        BY <2>4, <3>1 DEF RemoveSlot, ScheduledToDecided, AuditRows
    <2>5. ASSUME NEW role \in UserRole, RequestFileReplacement(s, role) PROVE TypeOK'
      <3>1. EmailJob(s, "file_submission_reminder", Slotted(s)) \in JobRows
        BY EmailJobType DEF JobRows, Slotted, Template
      <3>2. mail' \subseteq JobRows
        BY <2>5, <3>1 DEF RequestFileReplacement
      <3>3. QED
        BY <2>5, <3>2
        DEF RequestFileReplacement, AuditRow, AuditAction, AnyValue, JobRows
    <2>6. QED
      BY <1>3, <2>1, <2>2, <2>3, <2>4, <2>5 DEF CommitteeStep
  <1>4. ASSUME NEW s \in Submission, AdminStep(s) PROVE TypeOK'
    <2>1. ASSUME NEW role \in UserRole, NEW to \in OverrideTarget,
                 OverrideStatus(s, to, role)
          PROVE  TypeOK'
      BY <2>1 DEF OverrideStatus, AuditRow, AuditAction, OverrideAction, AnyValue
    <2>2. ASSUME NEW role \in UserRole, NEW p \in Person,
                 ReassignSubmission(s, p, role)
          PROVE  TypeOK'
      BY <2>2 DEF ReassignSubmission, AuditRow, AuditAction, AnyValue
    <2>3. QED
      BY <1>4, <2>1, <2>2 DEF AdminStep
  <1>5. ASSUME ProgramStep PROVE TypeOK'
    <2>1. ASSUME NEW role \in UserRole, NEW x \in Session, NEW type \in SessionType,
                 CreateSession(x, type, role)
          PROVE  TypeOK'
      BY <2>1 DEF CreateSession
    <2>2. ASSUME NEW role \in UserRole, NEW x \in Session, NEW type \in SessionType,
                 RetypeSession(x, type, role)
          PROVE  TypeOK'
      BY <2>2 DEF RetypeSession
    <2>3. ASSUME NEW role \in UserRole, NEW xs \in SUBSET Session,
                 NEW advanced \in AdvancedDeleteTargets,
                 DeleteSessions(xs, advanced, role)
          PROVE  TypeOK'
      BY <2>3 DEF DeleteSessions, AdvancedDeleteTargets, AdvancedStatuses,
                  AuditRow, AuditAction, AnyValue
    <2>4. ASSUME NEW role \in UserRole, NEW done \in SUBSET Submission,
                 BulkNotify(done, role)
          PROVE  TypeOK'
      <3>1. \A s \in Submission : DecisionEmail(s) \in JobRows
        BY EmailJobType DEF JobRows, DecisionEmail, Slotted, Template
      <3>2. mail' \subseteq JobRows
        BY <2>4, <3>1 DEF BulkNotify
      <3>3. notified' \in [Submission -> BOOLEAN]
        BY <2>4 DEF BulkNotify, Stamped
      <3>4. QED
        BY <2>4, <3>2, <3>3 DEF BulkNotify, JobRows
    <2>5. QED
      BY <1>5, <2>1, <2>2, <2>3, <2>4 DEF ProgramStep
  <1>6. ASSUME MaintenanceStep PROVE TypeOK'
    <2>1. ASSUME NEW role \in UserRole, NEW p \in Person, DeleteUser(p, role)
          PROVE  TypeOK'
      BY <2>1 DEF DeleteUser
    <2>2. ASSUME NEW role \in UserRole, ResetAllData(role) PROVE TypeOK'
      BY <2>2 DEF ResetAllData
    <2>3. QED
      BY <1>6, <2>1, <2>2 DEF MaintenanceStep
  <1>7. CASE UNCHANGED vars
    BY <1>7 DEF vars, tables
  <1>8. QED
    BY <1>1, <1>2, <1>3, <1>4, <1>5, <1>6, <1>7 DEF Next

\* No handler ever writes a value outside the domain of its column.
THEOREM TypeCorrect == Spec => []TypeOK
  BY InitTypeOK, NextTypeOK, PTL DEF Spec

-----------------------------------------------------------------------------
(* The tables. *)

\* TablesInv, one submission at a time.
Sound(s) ==
    /\ ~Exists(s) => /\ decision[s] = None
                     /\ overrides[s] = {}
                     /\ \A p \in Person : review[s][p] = "none"
    /\ ~Overridden(s) => (Slotted(s) <=> status[s] \in Scheduled)
    /\ Slotted(s) => decision[s] # None
    /\ ~Overridden(s) /\ status[s] \in AfterDecision => decision[s] # None
    /\ ~Overridden(s) /\ status[s] \in AdvancedStatuses \cup {"withdrawn"} => notified[s]
    /\ Slotted(s) => sessionType[slot[s]] \in SessionType \ NoSlotType
    /\ \A p \in Person :
          review[s][p] # "none" /\ ~Overridden(s)
              => status[s] \notin {"absent", "draft", "submitted"}
    /\ Slotted(s) /\ overrides[s] = {} => decision[s] \in Acceptance

LEMMA NextTablesInv == TypeOK /\ TablesInv /\ [Next]_vars => TablesInv'
  <1> SUFFICES ASSUME TypeOK, \A s \in Submission : Sound(s), [Next]_vars,
                      NEW t \in Submission
               PROVE  Sound(t)'
    BY DEF TablesInv, Sound, AbsentIsBlank, ScheduledIffSlotted, SlotHasDecision,
           DecisionBeforeProgram, AnsweredAfterNotification, SlotSessionHoldsSlots,
           ReviewedAfterSubmission, PlacedIsAccepted
  <1> USE ConfigurationAssumption
      DEF TypeOK, Inserts, Exists, Sound, Overridden, Slotted, Scheduled,
          AfterDecision, AdvancedStatuses, OverrideAction
  <1>1. ASSUME NEW s \in Submission, SubmitterStep(s) PROVE Sound(t)'
    <2>1. ASSUME NEW p \in Person, NEW role \in UserRole,
                 CreateSubmission(s, p, role)
          PROVE  Sound(t)'
      BY <2>1 DEF CreateSubmission
    <2>2. ASSUME NEW by \in By,
                 DeleteSubmission(s, by)
          PROVE  Sound(t)'
      BY <2>2 DEF DeleteSubmission
    <2>3. ASSUME NEW by \in By,
                 ConfirmUpload(s, by)
          PROVE  Sound(t)'
      BY <2>3 DEF ConfirmUpload
    <2>4. ASSUME NEW by \in By,
                 DeleteAttachment(s, by)
          PROVE  Sound(t)'
      BY <2>4 DEF DeleteAttachment
    <2>5. ASSUME NEW role \in UserRole, NEW late \in SUBSET Deadline,
                 NEW to \in {"submitted", "confirmed", "withdrawn", "files_submitted"},
                 TransitionSubmission(s, to, role, late)
          PROVE  Sound(t)'
      BY <2>5 DEF TransitionSubmission, Validate, TRANSITIONS, ReleasesSlot
    <2>6. QED
      BY <1>1, <2>1, <2>2, <2>3, <2>4, <2>5 DEF SubmitterStep, Submit, Confirm, Withdraw,
         SubmitFiles
  <1>2. ASSUME NEW s \in Submission, ReviewStep(s) PROVE Sound(t)'
    <2>1. ASSUME NEW p \in Person, NEW role \in UserRole,
                 AssignReviewer(s, p, role)
          PROVE  Sound(t)'
      BY <2>1 DEF AssignReviewer, ReviewOpened
    <2>2. ASSUME NEW p \in Person, NEW role \in UserRole,
                 UnassignReviewer(s, p, role)
          PROVE  Sound(t)'
      BY <2>2 DEF UnassignReviewer
    <2>3. ASSUME NEW p \in Person,
                 SubmitReview(s, p)
          PROVE  Sound(t)'
      BY <2>3 DEF SubmitReview
    <2>4. QED
      BY <1>2, <2>1, <2>2, <2>3 DEF ReviewStep
  <1>3. ASSUME NEW s \in Submission, CommitteeStep(s) PROVE Sound(t)'
    <2>1. ASSUME NEW role \in UserRole, NEW outcome \in Outcome,
                 RecordDecision(s, outcome, role)
          PROVE  Sound(t)'
      BY <2>1 DEF RecordDecision, UpsertedDecision
    <2>2. ASSUME NEW role \in UserRole, NEW outcome \in OverrideOutcome,
                 OverrideDecision(s, outcome, role)
          PROVE  Sound(t)'
      <3>1. overrides'[t] = IF t = s THEN overrides[s] \cup {"decision_override"}
                            ELSE overrides[t]
        BY <2>2 DEF OverrideDecision
      <3>2. overrides'[s] # {}
        BY <2>2 DEF OverrideDecision
      <3>3. "status_override" \in overrides'[t] <=> "status_override" \in overrides[t]
        BY <3>1
      <3>4. t # s => overrides'[t] = overrides[t]
        BY <3>1
      <3>5. CASE t = s
        BY <2>2, <3>2, <3>3, <3>5 DEF OverrideDecision, UpsertedDecision
      <3>6. CASE t # s
        BY <2>2, <3>4, <3>6 DEF OverrideDecision, UpsertedDecision
      <3>7. QED
        BY <3>5, <3>6
    <2>3. ASSUME NEW role \in UserRole, NEW x \in Session,
                 AssignToSession(s, x, role)
          PROVE  Sound(t)'
      BY <2>3 DEF AssignToSession, DecisionFits
    <2>4. ASSUME NEW role \in UserRole,
                 RemoveSlot(s, role)
          PROVE  Sound(t)'
      BY <2>4 DEF RemoveSlot, ScheduledToDecided
    <2>5. ASSUME NEW role \in UserRole,
                 RequestFileReplacement(s, role)
          PROVE  Sound(t)'
      BY <2>5 DEF RequestFileReplacement
    <2>6. QED
      BY <1>3, <2>1, <2>2, <2>3, <2>4, <2>5 DEF CommitteeStep
  <1>4. ASSUME NEW s \in Submission, AdminStep(s) PROVE Sound(t)'
    <2>1. ASSUME NEW role \in UserRole, NEW to \in OverrideTarget,
                 OverrideStatus(s, to, role)
          PROVE  Sound(t)'
      <3>1. CASE t = s
        <4>1. "status_override" \in overrides'[t]
          BY <2>1, <3>1 DEF OverrideStatus
        <4>2. overrides'[t] # {}
          BY <4>1
        <4>3. status'[t] # "absent"
          BY <2>1, <3>1 DEF OverrideStatus, SubmissionStatus
        <4>4. QED
          BY <2>1, <3>1, <4>1, <4>2, <4>3 DEF OverrideStatus
      <3>2. CASE t # s
        <4>1. overrides'[t] = overrides[t] /\ status'[t] = status[t]
          BY <2>1, <3>2 DEF OverrideStatus
        <4>2. QED
          BY <2>1, <4>1 DEF OverrideStatus
      <3>3. QED
        BY <3>1, <3>2
    <2>2. ASSUME NEW role \in UserRole, NEW p \in Person,
                 ReassignSubmission(s, p, role)
          PROVE  Sound(t)'
      BY <2>2 DEF ReassignSubmission
    <2>3. QED
      BY <1>4, <2>1, <2>2 DEF AdminStep
  <1>5. ASSUME ProgramStep PROVE Sound(t)'
    <2>1. ASSUME NEW role \in UserRole, NEW x \in Session, NEW type \in SessionType,
                 CreateSession(x, type, role)
          PROVE  Sound(t)'
      BY <2>1 DEF CreateSession
    <2>2. ASSUME NEW role \in UserRole, NEW x \in Session, NEW type \in SessionType,
                 RetypeSession(x, type, role)
          PROVE  Sound(t)'
      BY <2>2 DEF RetypeSession, MayBecome, HasSlots
    <2>3. ASSUME NEW role \in UserRole, NEW xs \in SUBSET Session,
                 NEW advanced \in AdvancedDeleteTargets,
                 DeleteSessions(xs, advanced, role)
          PROVE  Sound(t)'
      BY <2>3 DEF DeleteSessions, AdvancedDeleteTargets
    <2>4. ASSUME NEW role \in UserRole, NEW done \in SUBSET Submission,
                 BulkNotify(done, role)
          PROVE  Sound(t)'
      BY <2>4 DEF BulkNotify, Stamped, ToNotify
    <2>5. QED
      BY <1>5, <2>1, <2>2, <2>3, <2>4 DEF ProgramStep
  <1>6. ASSUME MaintenanceStep PROVE Sound(t)'
    <2>1. ASSUME NEW role \in UserRole, NEW p \in Person,
                 DeleteUser(p, role)
          PROVE  Sound(t)'
      BY <2>1 DEF DeleteUser
    <2>2. ASSUME NEW role \in UserRole,
                 ResetAllData(role)
          PROVE  Sound(t)'
      BY <2>2 DEF ResetAllData
    <2>3. QED
      BY <1>6, <2>1, <2>2 DEF MaintenanceStep
  <1>7. CASE UNCHANGED vars
    BY <1>7 DEF vars, tables
  <1>8. QED
    BY <1>1, <1>2, <1>3, <1>4, <1>5, <1>6, <1>7 DEF Next

LEMMA InitTablesInv == Init => TablesInv
  BY DEF Init, TablesInv, AbsentIsBlank, ScheduledIffSlotted, SlotHasDecision,
         DecisionBeforeProgram, AnsweredAfterNotification, SlotSessionHoldsSlots,
         ReviewedAfterSubmission, PlacedIsAccepted, Exists, Slotted, Scheduled,
         AfterDecision, AdvancedStatuses

\* The tables stay consistent: TablesInv is inductive relative to TypeOK.
THEOREM TablesConsistent == Spec => [](TypeOK /\ TablesInv)
  <1>1. Init => TypeOK /\ TablesInv
    BY InitTypeOK, InitTablesInv
  <1>2. TypeOK /\ TablesInv /\ [Next]_vars => (TypeOK /\ TablesInv)'
    BY NextTypeOK, NextTablesInv
  <1>3. QED
    BY <1>1, <1>2, PTL DEF Spec

\* A submission whose status nobody forced occupies a slot exactly while its
\* status says it is in the program.
THEOREM ScheduledIsSlotted == Spec => []ScheduledIffSlotted
  BY TablesConsistent, PTL DEF TablesInv

\* No submission has a slot, or a status only a decision leads to, without one.
THEOREM DecisionComesFirst == Spec => []DecisionFirst
  BY TablesConsistent, PTL DEF TablesInv, DecisionFirst

\* Every slot belongs to a session that exists and holds slots.
THEOREM SlotsAreHeld == Spec => []SlotSessionHoldsSlots
  BY TablesConsistent, PTL DEF TablesInv

\* A review exists only after the committee opened the abstract for review.
THEOREM ReviewsFollowSubmission == Spec => []ReviewedAfterSubmission
  BY TablesConsistent, PTL DEF TablesInv

\* Nobody answers before the notification was recorded.
THEOREM AnswersFollowNotification == Spec => []AnsweredAfterNotification
  BY TablesConsistent, PTL DEF TablesInv

-----------------------------------------------------------------------------
(* The e-mails. *)

\* The e-mail of an untouched submission that is assigned to a session accepts
\* it and names the session.
LEMMA UntouchedIsAccepted ==
    ASSUME TypeOK, TablesInv, NEW s \in Submission,
           status[s] = "assigned_to_session", ~Overridden(s)
    PROVE  /\ DecisionEmail(s).template = "decision_accepted" =>
                DecisionEmail(s).withSession
           /\ DecisionEmail(s).template = "decision_rejected" => overrides[s] # {}
  <1>1. Slotted(s)
    BY DEF TablesInv, ScheduledIffSlotted, Scheduled
  <1>2. decision[s] # None
    BY <1>1 DEF TablesInv, SlotHasDecision
  <1>3. overrides[s] = {} => decision[s] \in Acceptance
    BY <1>1 DEF TablesInv, PlacedIsAccepted
  <1>4. CASE AnnouncedOutcome(s) \in Acceptance
    BY <1>1, <1>4 DEF DecisionEmail, EmailJob
  <1>5. CASE AnnouncedOutcome(s) \notin Acceptance
    BY <1>2, <1>3, <1>5 DEF DecisionEmail, EmailJob, AnnouncedOutcome
  <1>6. QED
    BY <1>4, <1>5

LEMMA NextMailJustified == TypeOK /\ TablesInv /\ MailJustified /\ [Next]_vars => MailJustified'
  <1> SUFFICES ASSUME TypeOK, TablesInv, MailJustified, [Next]_vars
               PROVE  MailJustified'
    OBVIOUS
  <1> USE DEF MailJustified, AcceptanceNamesSession, RejectionNeedsOverride
  <1>1. ASSUME mail' = {} PROVE MailJustified'
    BY <1>1
  <1>2. ASSUME NEW s \in Submission, NEW to, NEW role, NEW late,
               TransitionSubmission(s, to, role, late)
        PROVE  MailJustified'
    <2>1. \A job \in mail' : job.template = "submission_confirmation"
      BY <1>2 DEF TransitionSubmission, Inserts, EmailJob, TransitionEmails
    <2>2. QED
      BY <2>1
  <1>3. ASSUME NEW s \in Submission, NEW role, RequestFileReplacement(s, role)
        PROVE  MailJustified'
    <2>1. \A job \in mail' : job.template = "file_submission_reminder"
      BY <1>3 DEF RequestFileReplacement, Inserts, EmailJob
    <2>2. QED
      BY <2>1
  <1>4. ASSUME NEW role \in UserRole, NEW done \in SUBSET Submission,
               BulkNotify(done, role)
        PROVE  MailJustified'
    <2> SUFFICES ASSUME NEW s \in done
                 PROVE  LET job == DecisionEmail(s) IN
                        /\ job.submission = s
                        /\ job.template = "decision_accepted" /\ ~job.withSession
                              => Overridden(s)
                        /\ job.template = "decision_rejected" => overrides[s] # {}
      BY <1>4 DEF BulkNotify, Inserts, Overridden
    <2>1. status[s] = "assigned_to_session" /\ s \in Submission
      BY <1>4 DEF BulkNotify, ToNotify
    <2>2. DecisionEmail(s).submission = s
      BY DEF DecisionEmail, EmailJob
    <2>3. CASE Overridden(s)
      BY <2>2, <2>3 DEF Overridden
    <2>4. CASE ~Overridden(s)
      BY <2>1, <2>2, <2>4, UntouchedIsAccepted
    <2>5. QED
      BY <2>3, <2>4
  <1>5. CASE UNCHANGED vars
    BY <1>5 DEF vars, tables, Overridden
  <1>6. CASE Next
    BY <1>1, <1>2, <1>3, <1>4, <1>6
    DEF Next, SubmitterStep, ReviewStep, CommitteeStep, AdminStep, ProgramStep,
        MaintenanceStep, Inserts, CreateSubmission, DeleteSubmission, ConfirmUpload,
        DeleteAttachment, Submit, Confirm, Withdraw, SubmitFiles, AssignReviewer,
        UnassignReviewer, SubmitReview, RecordDecision, OverrideDecision,
        CreateSession, RetypeSession, AssignToSession, RemoveSlot, DeleteSessions,
        OverrideStatus, ReassignSubmission, DeleteUser, ResetAllData
  <1>7. QED
    BY <1>5, <1>6

\* An acceptance without the session's details goes only to a submission whose
\* status was forced, a rejection only to one on which the status or the
\* decision was overridden.
THEOREM MailConsistent == Spec => []MailJustified
  <1>1. Init => MailJustified
    BY DEF Init, MailJustified, AcceptanceNamesSession, RejectionNeedsOverride
  <1>2. QED
    BY <1>1, NextMailJustified, TablesConsistent, PTL DEF Spec

-----------------------------------------------------------------------------
(* How a slot, a type and a decision come to disagree. *)

MismatchCaused(s) ==
    \/ \E row \in log' : row.submission = s /\ row.action = "decision_override"
    \/ status[s] = "under_review"
    \/ Slotted(s) /\ sessionType'[slot[s]] # sessionType[slot[s]]

LEMMA NextMismatch ==
    ASSUME TypeOK, [Next]_vars, NEW t \in Submission, ~Mismatched(t), Mismatched(t)'
    PROVE  MismatchCaused(t)
  <1> USE DEF TypeOK, Inserts, Mismatched, Slotted, MismatchCaused
  <1>1. CASE UNCHANGED <<slot, decision, sessionType>>
    BY <1>1
  <1>2. ASSUME NEW s \in Submission, NEW by, DeleteSubmission(s, by)
        PROVE  MismatchCaused(t)
    BY <1>2 DEF DeleteSubmission
  <1>3. ASSUME NEW s \in Submission, NEW to, NEW role, NEW late,
               TransitionSubmission(s, to, role, late)
        PROVE  MismatchCaused(t)
    BY <1>3 DEF TransitionSubmission
  <1>4. ASSUME NEW s \in Submission, NEW outcome \in Outcome, NEW role,
               RecordDecision(s, outcome, role)
        PROVE  MismatchCaused(t)
    BY <1>4 DEF RecordDecision, UpsertedDecision
  <1>5. ASSUME NEW s \in Submission, NEW outcome \in Outcome, NEW role,
               OverrideDecision(s, outcome, role)
        PROVE  MismatchCaused(t)
    <2>1. CASE t = s
      <3>1. AuditRow(s, "decision_override", decision[s], outcome) \in log'
        BY <1>5 DEF OverrideDecision
      <3>2. QED
        BY <2>1, <3>1 DEF AuditRow
    <2>2. CASE t # s
      BY <1>5, <2>2 DEF OverrideDecision, UpsertedDecision
    <2>3. QED
      BY <2>1, <2>2
  <1>6. ASSUME NEW s \in Submission, NEW x \in Session, NEW role,
               AssignToSession(s, x, role)
        PROVE  MismatchCaused(t)
    BY <1>6 DEF AssignToSession, DecisionFits
  <1>7. ASSUME NEW s \in Submission, NEW role, RemoveSlot(s, role)
        PROVE  MismatchCaused(t)
    BY <1>7 DEF RemoveSlot
  <1>8. ASSUME UNCHANGED <<slot, decision>> PROVE MismatchCaused(t)
    BY <1>8
  <1>9. ASSUME NEW xs \in SUBSET Session, NEW advanced, NEW role,
               DeleteSessions(xs, advanced, role)
        PROVE  MismatchCaused(t)
    BY <1>9 DEF DeleteSessions
  <1>10. ASSUME NEW role, ResetAllData(role) PROVE MismatchCaused(t)
    BY <1>10 DEF ResetAllData
  <1>11. CASE Next
    BY <1>1, <1>2, <1>3, <1>4, <1>5, <1>6, <1>7, <1>8, <1>9, <1>10, <1>11,
       ConfigurationAssumption
    DEF Next, SubmitterStep, ReviewStep, CommitteeStep, AdminStep, ProgramStep,
        MaintenanceStep, CreateSubmission, ConfirmUpload, DeleteAttachment,
        Submit, Confirm, Withdraw, SubmitFiles, AssignReviewer, UnassignReviewer,
        SubmitReview, CreateSession, RetypeSession, BulkNotify, OverrideStatus,
        RequestFileReplacement, ReassignSubmission, DeleteUser, ConfigurationAssumption
  <1>12. CASE UNCHANGED vars
    BY <1>12 DEF vars, tables
  <1>13. QED
    BY <1>11, <1>12

\* Assigning a submission never puts it in a session of another type than its
\* decision; only an override, a second decision or a change of the type does.
THEOREM MismatchIsCaused == Spec => MismatchHasCause
  <1>1. TypeOK /\ [Next]_vars =>
          [\A s \in Submission : ~Mismatched(s) /\ Mismatched(s)' =>
             \/ \E row \in log' : row.submission = s /\ row.action = "decision_override"
             \/ status[s] = "under_review"
             \/ Slotted(s) /\ sessionType'[slot[s]] # sessionType[slot[s]]]_vars
    BY NextMismatch DEF MismatchCaused
  <1>2. QED
    BY <1>1, TypeCorrect, PTL DEF Spec, MismatchHasCause

-----------------------------------------------------------------------------
(* How a presenter comes to hold a review of their own submission. *)

ReassignedInto(s) ==
    \E row \in log' : row.submission = s /\ row.action = "submission_reassigned"

LEMMA NextSelfReview ==
    ASSUME TypeOK, AbsentIsBlank, [Next]_vars,
           NEW t \in Submission, ~SelfReviewed(t), SelfReviewed(t)'
    PROVE  ReassignedInto(t)
  <1> USE DEF TypeOK, Inserts, SelfReviewed
  <1>1. ASSUME UNCHANGED <<author, review>> PROVE ReassignedInto(t)
    BY <1>1
  <1>2. ASSUME NEW s \in Submission, NEW p \in Person, NEW role,
               CreateSubmission(s, p, role)
        PROVE  ReassignedInto(t)
    BY <1>2 DEF CreateSubmission, AbsentIsBlank, Exists
  <1>3. ASSUME NEW s \in Submission, NEW by, DeleteSubmission(s, by)
        PROVE  ReassignedInto(t)
    BY <1>3 DEF DeleteSubmission
  <1>4. ASSUME NEW s \in Submission, NEW to, NEW role, NEW late,
               TransitionSubmission(s, to, role, late)
        PROVE  ReassignedInto(t)
    BY <1>1, <1>4 DEF TransitionSubmission
  <1>5. ASSUME NEW s \in Submission, NEW p \in Person, NEW role,
               AssignReviewer(s, p, role)
        PROVE  ReassignedInto(t)
    <2>1. p # author[s]
      BY <1>5 DEF AssignReviewer, MayReview
    <2>2. QED
      BY <1>5, <2>1 DEF AssignReviewer
  <1>6. ASSUME NEW s \in Submission, NEW p \in Person, NEW role,
               UnassignReviewer(s, p, role)
        PROVE  ReassignedInto(t)
    BY <1>6 DEF UnassignReviewer
  <1>7. ASSUME NEW s \in Submission, NEW p \in Person, SubmitReview(s, p)
        PROVE  ReassignedInto(t)
    BY <1>7 DEF SubmitReview
  <1>8. ASSUME NEW s \in Submission, NEW p \in Person, NEW role,
               ReassignSubmission(s, p, role)
        PROVE  ReassignedInto(t)
    <2>1. CASE t = s
      <3>1. AuditRow(s, "submission_reassigned", author[s], p) \in log'
        BY <1>8 DEF ReassignSubmission
      <3>2. QED
        BY <2>1, <3>1 DEF AuditRow, ReassignedInto
    <2>2. CASE t # s
      BY <1>8, <2>2 DEF ReassignSubmission
    <2>3. QED
      BY <2>1, <2>2
  <1>9. ASSUME NEW p \in Person, NEW role, DeleteUser(p, role)
        PROVE  ReassignedInto(t)
    BY <1>9 DEF DeleteUser
  <1>10. ASSUME NEW role, ResetAllData(role) PROVE ReassignedInto(t)
    BY <1>10 DEF ResetAllData
  <1>11. CASE Next
    <2>1. CASE \E s \in Submission : SubmitterStep(s)
      BY <1>1, <1>2, <1>3, <1>4, <2>1
      DEF SubmitterStep, ConfirmUpload, DeleteAttachment, Submit, Confirm, Withdraw,
          SubmitFiles
    <2>2. CASE \E s \in Submission : ReviewStep(s)
      BY <1>5, <1>6, <1>7, <2>2 DEF ReviewStep
    <2>3. CASE \E s \in Submission : CommitteeStep(s) \/ AdminStep(s)
      BY <1>1, <1>8, <2>3
      DEF CommitteeStep, AdminStep, RecordDecision, OverrideDecision,
          AssignToSession, RemoveSlot, RequestFileReplacement, OverrideStatus
    <2>4. CASE ProgramStep
      BY <1>1, <2>4
      DEF ProgramStep, CreateSession, RetypeSession, DeleteSessions, BulkNotify
    <2>5. CASE MaintenanceStep
      BY <1>9, <1>10, <2>5 DEF MaintenanceStep
    <2>6. QED
      BY <1>11, <2>1, <2>2, <2>3, <2>4, <2>5 DEF Next
  <1>12. CASE UNCHANGED vars
    BY <1>12 DEF vars, tables
  <1>13. QED
    BY <1>11, <1>12

\* A presenter comes to review their own submission in one way only: it is
\* reassigned to somebody who already reviews it.
THEOREM SelfReviewIsReassigned == Spec => SelfReviewOnlyByReassignment
  <1>1. TypeOK /\ TablesInv /\ [Next]_vars =>
          [\A s \in Submission : ~SelfReviewed(s) /\ SelfReviewed(s)' =>
             \E row \in log' : row.submission = s /\ row.action = "submission_reassigned"]_vars
    BY NextSelfReview DEF ReassignedInto, TablesInv
  <1>2. QED
    BY <1>1, TypeCorrect, TablesConsistent, PTL DEF Spec, SelfReviewOnlyByReassignment

-----------------------------------------------------------------------------
(* Refinement: every step of a submission is one its contract allows. *)

About(t) == {row \in log' : row.submission = t}

LEMMA NextContract ==
    ASSUME TypeOK, TablesInv, [Next]_vars, NEW t \in Submission
    PROVE  Contract(t)!Next
  <1> USE DEF TypeOK, Inserts, Exists, SubmissionStatus, Slotted
  <1> DEFINE Allowed ==
        \/ status[t] = "absent" /\ status'[t] = "draft" /\ slot'[t] = None
        \/ status'[t] = "absent" /\ slot'[t] = None
        \/ <<status[t], status'[t]>> \in TRANSITIONS
        \/ /\ status[t] = "assigned_to_session" /\ slot[t] # None
           /\ status'[t] = "decided" /\ slot'[t] = None
        \/ \E row \in log' : /\ row.submission = t
                             /\ row.from = status[t] /\ row.to = status'[t]
        \/ status'[t] = status[t]
  <1>1. SUFFICES Allowed
    BY DEF Contract!Next, Contract!Create, Contract!Erase, Contract!Advance,
           Contract!Unschedule, Contract!Force, Contract!Keep, TRANSITIONS,
           Contract!TRANSITIONS
  <1>2. status[t] = "absent" => slot[t] = None
    BY DEF TablesInv, AbsentIsBlank, ScheduledIffSlotted, Overridden, Scheduled,
           AdvancedStatuses
  <1>3. ASSUME NEW s \in Submission, NEW p \in Person, NEW role,
               CreateSubmission(s, p, role)
        PROVE  Allowed
    BY <1>2, <1>3 DEF CreateSubmission
  <1>4. ASSUME NEW s \in Submission, NEW by, DeleteSubmission(s, by)
        PROVE  Allowed
    BY <1>4 DEF DeleteSubmission
  <1>5. ASSUME NEW s \in Submission, NEW to, NEW role, NEW late,
               TransitionSubmission(s, to, role, late)
        PROVE  Allowed
    BY <1>5 DEF TransitionSubmission, Validate
  <1>6. ASSUME NEW s \in Submission, NEW p \in Person, NEW role,
               AssignReviewer(s, p, role)
        PROVE  Allowed
    BY <1>6 DEF AssignReviewer, ReviewOpened, TRANSITIONS
  <1>7. ASSUME NEW s \in Submission, NEW role,
               \/ \E outcome \in Outcome : RecordDecision(s, outcome, role)
               \/ \E x \in Session : AssignToSession(s, x, role)
        PROVE  Allowed
    BY <1>7 DEF RecordDecision, AssignToSession, TRANSITIONS
  <1>8. ASSUME NEW s \in Submission, NEW role, RemoveSlot(s, role)
        PROVE  Allowed
    <2>1. CASE t = s /\ status[s] \in AdvancedStatuses
      <3>1. AuditRow(s, "slot_removed_status_change", status[s], "decided") \in log'
        BY <1>8, <2>1 DEF RemoveSlot, RevertRow
      <3>2. status'[t] = "decided"
        BY <1>8, <2>1 DEF RemoveSlot, ScheduledToDecided, Scheduled
      <3>3. QED
        BY <2>1, <3>1, <3>2 DEF AuditRow
    <2>2. CASE t = s /\ status[s] \notin AdvancedStatuses
      BY <1>8, <2>2 DEF RemoveSlot, ScheduledToDecided, Scheduled
    <2>3. CASE t # s
      BY <1>8, <2>3 DEF RemoveSlot
    <2>4. QED
      BY <2>1, <2>2, <2>3
  <1>9. ASSUME NEW s \in Submission, NEW role, RequestFileReplacement(s, role)
        PROVE  Allowed
    <2>1. AuditRow(s, "file_replacement_requested", "files_submitted", "confirmed") \in log'
      BY <1>9 DEF RequestFileReplacement
    <2>2. QED
      BY <1>9, <2>1 DEF RequestFileReplacement, AuditRow
  <1>10. ASSUME NEW s \in Submission, NEW role, NEW to \in OverrideTarget,
                OverrideStatus(s, to, role)
         PROVE  Allowed
    <2>1. AuditRow(s, "status_override", status[s], to) \in log'
      BY <1>10 DEF OverrideStatus
    <2>2. QED
      BY <1>10, <2>1 DEF OverrideStatus, AuditRow
  <1>11. ASSUME NEW xs \in SUBSET Session, NEW role,
                NEW advanced \in AdvancedDeleteTargets,
                DeleteSessions(xs, advanced, role)
         PROVE  Allowed
    <2>1. CASE slot[t] \in xs /\ status[t] \in AdvancedStatuses
      <3>1. AuditRow(t, "session_deleted_status_change", status[t], advanced) \in log'
        BY <1>11, <2>1 DEF DeleteSessions
      <3>2. status'[t] = advanced
        BY <1>11, <2>1 DEF DeleteSessions
      <3>3. QED
        BY <3>1, <3>2 DEF AuditRow
    <2>2. CASE ~(slot[t] \in xs /\ status[t] \in AdvancedStatuses)
      BY <1>11, <2>2, ConfigurationAssumption DEF DeleteSessions, ConfigurationAssumption
    <2>3. QED
      BY <2>1, <2>2
  <1>12. ASSUME NEW done \in SUBSET Submission, NEW role, BulkNotify(done, role)
         PROVE  Allowed
    BY <1>12 DEF BulkNotify, ToNotify, TRANSITIONS
  <1>13. ASSUME NEW role, ResetAllData(role) PROVE Allowed
    BY <1>13 DEF ResetAllData
  <1>14. ASSUME UNCHANGED status PROVE Allowed
    BY <1>14
  <1>15. CASE Next
    BY <1>3, <1>4, <1>5, <1>6, <1>7, <1>8, <1>9, <1>10, <1>11, <1>12, <1>13,
       <1>14, <1>15, ConfigurationAssumption
    DEF Next, SubmitterStep, ReviewStep, CommitteeStep, AdminStep, ProgramStep,
        MaintenanceStep, ConfirmUpload, DeleteAttachment, Submit, Confirm, Withdraw,
        SubmitFiles, UnassignReviewer, SubmitReview, OverrideDecision, CreateSession,
        RetypeSession, ReassignSubmission, DeleteUser, ConfigurationAssumption
  <1>16. CASE UNCHANGED vars
    BY <1>14, <1>16 DEF vars, tables
  <1>17. QED
    BY <1>15, <1>16

\* Every handler moves the status of every submission the way its contract
\* says: along TRANSITIONS, back to "decided" before anybody was told, or with
\* an audit row that names both ends.
THEOREM LifecycleKeepsContract == Spec => ContractKept
  <1>1. Init => \A s \in Submission : Contract(s)!Init
    BY DEF Init, Contract!Init, Slotted
  <1>2. TypeOK /\ TablesInv /\ [Next]_vars => [\A s \in Submission : Contract(s)!Next]_vars
    BY NextContract
  <1>3. QED
    BY <1>1, <1>2, TypeCorrect, TablesConsistent, PTL DEF Spec, ContractKept
===============================================================================

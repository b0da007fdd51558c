\* One submission, every override, one session that may be retyped, also to another type with slots.
CONSTANTS
    s1 = s1
    s2 = s2
    p1 = p1
    p2 = p2
    x1 = x1
    x2 = x2
    Submission = {s1}
    Person = {p1, p2}
    Reviewer = {p2}
    Session = {x1}
    SessionType <- AllTypes
    NoSlotType <- TheNoSlotTypes
    Outcome <- TheOutcomes
    Acceptance <- TheAcceptances
    MaxDocuments = 2
    OverrideTarget <- AllStatuses
    OverrideOutcome <- TheOutcomes
SPECIFICATION Spec
INVARIANTS
    TypeOK
    ScheduledIffSlotted
    DecisionFirst
    SlotSessionHoldsSlots
    ReviewedAfterSubmission
    MailJustified
PROPERTIES
    MismatchHasCause
    SelfReviewOnlyByReassignment
    ContractKept

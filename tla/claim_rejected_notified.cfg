\* A bulk notification with a rejected submission next to a placed one.
CONSTANTS
    s1 = s1
    s2 = s2
    p1 = p1
    p2 = p2
    x1 = x1
    x2 = x2
    Submission = {s1, s2}
    Person = {p1, p2}
    Reviewer = {p2}
    Session = {x1}
    SessionType <- TheTypes
    NoSlotType <- TheNoSlotTypes
    Outcome <- TheOutcomes
    Acceptance <- TheAcceptances
    MaxDocuments = 1
    OverrideTarget = {}
    OverrideOutcome <- TheOutcomes
SPECIFICATION Spec
PROPERTIES
    RejectedAreNotified

\* The committee's pages, one at a time.
CONSTANTS
    s1 = s1
    r1 = r1
    Talk = {t1}
    OtherTalk = {o1}
    Pause = {qa}
    MaxSteps = 3
    Single = {single}
    Block = {block}
    Booked = {x1}
    MaxActs = 3
    Editor = {a1, a2}
    Letter = {"a", "b"}
    MaxLabel = 2
    MaxTyping = 3
    MaxSaves = 2
    Chief = {a1, a2}
    Member = {}
    MaxChanges = 3
    Entry = {s1}
    Reader = {r1, r2}
    OwnCell <- Presenting
    MaxToggles = 3
    Verdict = {"oral", "rejected"}
    SlotVerdict = {"oral"}
    Account4 = {a1, a2}
    MaxDeskOps = 3
    Recipient = {p1, p2}
    MaxMails = 3
    Template = {e1, e2}
    MaxOrders = 2
    Alias = {l1, l2}
    Wording = {w1, w2}
    Original = w0
    MaxPuts = 3
    Browser = {a1, a2}
    Offset = {0, 2}
    Wall = {9, 10}
    MaxSends = 2
SPECIFICATION CommitteeSpec
CHECK_DEADLOCK FALSE
INVARIANTS
    PagesSettle
    NothingLostUnnamed
    AdministrationKept
    DoneAsConfirmed

\* Two requests at a time, two submissions, a session with one slot.
CONSTANTS
    r1 = r1
    r2 = r2
    r3 = r3
    s1 = s1
    s2 = s2
    n1 = n1
    n2 = n2
    n3 = n3
    n4 = n4
    Request = {r1, r2}
    Submission = {s1, s2}
    Row = {n1, n2, n3, n4}
    MaxSlots = 1
SYMMETRY RequestSymmetry
SPECIFICATION Spec
INVARIANTS
    TypeOK
    UniquePlacement
    ConsistentUnlessStale
PROPERTIES
    LegalUnlessStale

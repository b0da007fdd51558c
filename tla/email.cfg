\* Three jobs, two workers with batches of one, two attempts, one rollback.
CONSTANTS
    j1 = j1
    j2 = j2
    j3 = j3
    w1 = w1
    w2 = w2
    Job = {j1, j2, j3}
    Worker = {w1, w2}
    MAX_RETRIES = 2
    BatchSize = 1
    MaxAborts = 1
SPECIFICATION FairSpec
INVARIANTS
    TypeOK
    DuplicatesExplained
    PendingIsRetried
PROPERTIES
    DeliveryKept
    Settled

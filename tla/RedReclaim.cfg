\* Entries are reclaimed from dead workers only, and no key expires in an Update.
CONSTANTS
    Jobs = {j1, j2}
    Workers = {w1, w2}
    ErrNotFound = ErrNotFound
    NoJob = NoJob
    MaxFaults = 1
    Overruns = FALSE
    ExpiresInUpdate = FALSE
SPECIFICATION FairSpec
CHECK_DEADLOCK FALSE
INVARIANTS
    TypeOK
    ExclusiveDelivery
    AcceptedNeverStranded
    RecordsExpire
PROPERTIES
    ImplementsLifecycle
    AcceptedSettles
    QueueDrains

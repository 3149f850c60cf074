\* Two jobs, two workers, leases that outlast the work, two faults anywhere.
CONSTANTS
    Jobs = {j1, j2}
    Workers = {w1, w2}
    ErrNotFound = ErrNotFound
    NoJob = NoJob
    MaxFaults = 2
    Overruns = FALSE
SPECIFICATION FairSpec
CHECK_DEADLOCK FALSE
INVARIANTS
    TypeOK
    ExclusiveDelivery
    AcceptedNeverStranded
    AcceptedRecordConsistent
    IInv
PROPERTIES
    AckOnlyWhenSettled
    AcceptedOutcomeFinal
    NoCallAfterOutcome
    ImplementsLifecycle
    AcceptedSettles
    QueueDrains

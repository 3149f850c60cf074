\* Fewer jobs than workers and channel places; either store, one restart.
CONSTANTS
    Jobs = {j1, j2}
    Workers = {w1, w2}
    ErrNotFound = ErrNotFound
    NoJob = NoJob
    Capacity = 1
    MaxFaults = 2
    MaxRestarts = 1
SPECIFICATION FairSpec
CHECK_DEADLOCK FALSE
INVARIANTS
    TypeOK
    QueuedOnce
    AcceptedNeverStranded
PROPERTIES
    ImplementsLifecycle
    AcceptedSettles

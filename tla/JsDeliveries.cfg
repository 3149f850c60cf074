\* One failure less than there are deliveries; a stream of either kind.
CONSTANTS
    Jobs = {j1, j2}
    Workers = {w1, w2}
    ErrNotFound = ErrNotFound
    NoJob = NoJob
    MaxFaults = 2
    MaxDeliver = 3
SPECIFICATION FairSpec
CHECK_DEADLOCK FALSE
INVARIANTS
    TypeOK
    AcceptedStillDelivered
    DeliveriesPaidFor
PROPERTIES
    AcceptedSettles

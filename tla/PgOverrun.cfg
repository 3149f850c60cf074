\* Leases that run out under a worker that is still busy, no failed call.
CONSTANTS
    Jobs = {j1, j2}
    Workers = {w1, w2}
    ErrNotFound = ErrNotFound
    NoJob = NoJob
    MaxFaults = 0
    Overruns = TRUE
SPECIFICATION Spec
SYMMETRY Symmetry
CHECK_DEADLOCK FALSE
INVARIANTS
    AcceptedNeverForgotten

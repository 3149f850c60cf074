\* A request whose job is stored and whose enqueue fails is marked failed.
CONSTANTS
    Jobs = {j1}
    Workers = {w1, w2}
    ErrNotFound = ErrNotFound
    NoJob = NoJob
    MaxFaults = 2
    Overruns = FALSE
SPECIFICATION Spec
SYMMETRY Symmetry
CHECK_DEADLOCK FALSE
INVARIANTS
    RefusedNotLeftQueued

\* Entries are reclaimed from workers that are still busy; no failed call.
CONSTANTS
    Jobs = {j1, j2}
    Workers = {w1, w2}
    ErrNotFound = ErrNotFound
    NoJob = NoJob
    MaxFaults = 0
    Overruns = TRUE
    ExpiresInUpdate = TRUE
SPECIFICATION FairSpec
CHECK_DEADLOCK FALSE
INVARIANTS
    AcceptedNeverForgotten
PROPERTIES
    AcceptedSettles

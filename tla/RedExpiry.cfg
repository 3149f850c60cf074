\* One job whose key may expire inside an Update.
CONSTANTS
    Jobs = {j1}
    Workers = {w1, w2}
    ErrNotFound = ErrNotFound
    NoJob = NoJob
    MaxFaults = 0
    Overruns = FALSE
    ExpiresInUpdate = TRUE
SPECIFICATION Spec
SYMMETRY Symmetry
CHECK_DEADLOCK FALSE
INVARIANTS
    RecordsExpire

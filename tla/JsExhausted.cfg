\* As many failures as deliveries.
CONSTANTS
    Jobs = {j1}
    Workers = {w1, w2}
    ErrNotFound = ErrNotFound
    NoJob = NoJob
    MaxFaults = 2
    MaxDeliver = 2
SPECIFICATION Spec
SYMMETRY Symmetry
CHECK_DEADLOCK FALSE
PROPERTIES
    NackMakesAvailable

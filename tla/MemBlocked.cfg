\* A full channel and its only reader blocked in Nack.
CONSTANTS
    Jobs = {j1, j2}
    Workers = {w1}
    ErrNotFound = ErrNotFound
    NoJob = NoJob
    Capacity = 1
    MaxFaults = 1
    MaxRestarts = 0
SPECIFICATION FairSpec
CHECK_DEADLOCK FALSE
PROPERTIES
    NackMakesAvailable

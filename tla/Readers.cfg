\* Two jobs of one caller; two retentions; pages of one; seconds of three units,
\* so that a TTL can lose more than a unit of the scores.
CONSTANTS
    Jobs = {j1, j2}
    Retentions = {2, 6}
    MaxTime = 4
    Tick = 2
    Second = 3
    Horizon = 10
    NoBound = NoBound
    Limit = 1
    FirstBounds = {NoBound, 3, 11}
    NoJob = NoJob
    MaxChoices = 2
SPECIFICATION FairSpec
CHECK_DEADLOCK FALSE
INVARIANTS
    TypeOK
    IndexCoversLive
    PagedOnce
    PendingJobWatched
    ChoiceHolds
PROPERTIES
    ShownSettles

SPECIFICATION FairSpec
CONSTANTS
    Times <- MCTimes
    LastInstant = 1
    c1 = c1
    c2 = c2
    Contents = {c1, c2}
    Versions = {v1}
    SupportEnds = {4}
    FloorYears = 2
    Limit = 2
    Refused <- MCRefused
    MaxRows = 3
    MaxCrashes = 1
INVARIANT ExportedIsInBucket
INVARIANT LockCoversStatedDate
PROPERTY LocksNeverShorten
PROPERTY EveryArtefactGetsOut
CHECK_DEADLOCK FALSE

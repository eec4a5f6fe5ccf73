SPECIFICATION Spec
CONSTANTS
    LastInstant = 3
    Times <- MCTimes
    Period = 2
    Ladder <- MCLadder
    Grants <- MCGrants
    Sold <- MCSold
    MaxSubscriptions = 2
    MaxEvents = 3
    MaxFailures = 1
    MaxLost = 1
INVARIANTS
    EffectsOnce
    AccessEndsWithThePeriods
    AccountFollowsStripe
PROPERTIES
    CancellationKeepsPaidTime
CHECK_DEADLOCK FALSE

SPECIFICATION FairSpec
CONSTANTS
    LastInstant = 3
    Times <- MCTimes
    Period = 2
    Ladder <- MCLadder
    Grants <- MCGrants
    Sold <- MCOnePlan
    MaxSubscriptions = 1
    MaxEvents = 2
    MaxFailures = 1
    MaxLost = 0
PROPERTIES
    PurchaseIsGranted
CHECK_DEADLOCK FALSE

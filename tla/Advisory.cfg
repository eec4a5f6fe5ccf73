SPECIFICATION FairSpec
CONSTANTS
    Times <- MCTimes
    LastInstant = 1
    Candidates = {c1}
    NeedsDetails = {c1}
    ToolScans = FALSE
    MaxRecords = 1
    MaxCrashes = 1
INVARIANTS AnchoredWhenTold ToldOncePerQuestion
PROPERTIES DismissalsSurviveScans ExploitedOpenIsTold
CHECK_DEADLOCK FALSE

SPECIFICATION Spec
CONSTANTS
    Times <- MCTimes
    LastInstant = 2
    EarlyWarningWindow = 1
    NotificationWindow = 2
    FinalWindow = 1
    MonthAfter <- MCMonthAfter
    DueSoonWindow <- MCDueSoon
    Ladder <- MCLadder
    VulnIds = {v1}
    ReportedIds = {i1}
CONSTRAINT OneSubject
INVARIANT TypeOK
INVARIANT ClocksRun
INVARIANT AwarenessClocksExact
INVARIANT AnchorsHappened
PROPERTY FiledReportsStand
PROPERTY OverdueIsAnswered
CHECK_DEADLOCK FALSE

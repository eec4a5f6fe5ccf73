SPECIFICATION FairSpec
CONSTANTS
    Times <- MCTimes
    LastInstant = 1
    EarlyWarningWindow = 1
    NotificationWindow = 2
    FinalWindow = 1
    MonthAfter <- MCMonthAfter
    DueSoonWindow <- MCDueSoon
    Ladder <- MCLadder
    Users = {u1, u2}
    Obligations = {o1}
    StageOf <- MCStageOf
    SupportPeriods = {p1}
    EosLadder = {0, 1}
    Lookahead = 1
    MaxDisturbances = 1
PROPERTIES SettledRungsRest AlertsEscalate OverdueLeavesARow
CHECK_DEADLOCK FALSE

SPECIFICATION Spec
CONSTANTS
    Times <- MCTimes
    LastInstant = 6
    LastRequest = 2
    Emails = {e1}
    LinkTtl = 2
    CodeTtl = 1
    MaxLive = 2
    MaxAttempts = 2
    MaxChallenges = 3
    Redirects = {r1, r2}
    AllowedHosts = {r1}
    Verifiers = {v1}
    OAuthTtl = 1
    MaxCodes = 2
    Clients = {k1, k2, k3}
    ClientTtl = 1
    MaxClients = 2
    IdleTtl = 3
    HardTtl = 6
    RefreshAfter = 1
    MaxTokens = 2
    MaxSessions = 1
    Holders = {e1}
    McpSessions = {m1, m2, m3}
    SessionCap = 2
    IdleLimit = 1
SYMMETRY Alike
CONSTRAINT OneTopic
INVARIANT OneGrantPerChallenge
INVARIANT AnswersOpenTheirDoor
INVARIANT GuessesAreBounded
INVARIANT HandedOverOnce
INVARIANT RowsServeTheirCookies
INVARIANT ConnectedAreCapped
PROPERTY RegistrationsStand
CHECK_DEADLOCK FALSE

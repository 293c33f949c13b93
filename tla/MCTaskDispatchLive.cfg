SPECIFICATION FairSpec
CONSTANTS
    t1 = t1
    t2 = t2
    t3 = t3
    p1 = p1
    p2 = p2
    s1 = s1
    c1 = c1
    c2 = c2
    Tasks = {t1, t2}
    Profiles = {p1, p2}
    PriorityOf <- MCPriorityOf
    ProfileOf <- MCProfileOf
    SessionOf <- MCSessionOf
    NoSession = NoSession
    Limit = 1
    MaxAttempts = 2
    Cancellers = {}
    SetupFitsTimeout = TRUE
    MaxErrors = 0
    MaxRestarts = 0
PROPERTIES
    EventuallySettled
    HungTurnAborted
CHECK_DEADLOCK FALSE

SPECIFICATION FairSpec
CONSTANTS
    r1 = r1
    r2 = r2
    u1 = u1
    u2 = u2
    None = None
    Revs <- TwoRevs
    StatusRevs <- TwoRevs
    Port <- OwnPorts
    Users <- OneUser
    First <- OneFirst
    MaxChanges = 2
    MaxLate = 1
    CloseMayFail = FALSE
    UserFetchMayFail = FALSE
    Legacy = FALSE
    CloseWaits = TRUE
INVARIANT CurrentIsInstalled
INVARIANT StatusTruthful
INVARIANT NoLostWake
PROPERTY NoReadyAfterClose
PROPERTY ConfigServed
PROPERTY StatusConverges
CHECK_DEADLOCK FALSE

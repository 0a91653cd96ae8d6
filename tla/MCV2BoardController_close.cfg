SPECIFICATION Spec
CONSTANTS
    r1 = r1
    r2 = r2
    u1 = u1
    u2 = u2
    None = None
    Revs <- TwoRevs
    StatusRevs <- NoRev
    Port <- OwnPorts
    Users <- TwoUsers
    First <- AnyFirst
    MaxChanges = 1
    MaxLate = 1
    CloseMayFail = TRUE
    UserFetchMayFail = TRUE
    Legacy = TRUE
    CloseWaits = FALSE
SYMMETRY Sym
INVARIANT CloseReleases
CHECK_DEADLOCK FALSE

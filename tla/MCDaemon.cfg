SPECIFICATION FairSpec
CONSTANTS
    c1 = c1
    c2 = c2
    Callers <- TwoCallers
    None = None
    MaxInstances = 2
INVARIANT RunningHasInstance
INVARIANT StartedIsRunning
INVARIANT NoOrphan
INVARIANT InboundsReleased
PROPERTY CloseEnds
CHECK_DEADLOCK FALSE

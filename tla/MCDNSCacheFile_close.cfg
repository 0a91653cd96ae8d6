SPECIFICATION FairSpec
CONSTANTS
    k1 = k1 k2 = k2 p1 = p1 p2 = p2 w1 = w1 w2 = w2
    Keys = {k1, k2}
    Callers = {p1}
    Writers = {w1}
    Stores = {"dns", "rdrc"}
    MaxAnswers = 2
PROPERTY CloseReturns
CHECK_DEADLOCK FALSE

SPECIFICATION FairSpec
CONSTANTS
    k1 = k1  k2 = k2  c1 = c1  c2 = c2  c3 = c3
    n1 = n1  n2 = n2  n3 = n3  n4 = n4  ip1 = ip1  ip2 = ip2  ip3 = ip3
    Keys = {k1}
    Uids = {1, 2}
    Conns = {c1}
    Counters = {n1, n2, n3}
    NoCounter = NoCounter
    IPs = {}
    InvalidIP = InvalidIP
    NodeID = 23
    UserLists <- MCUserLists
    AliveCounts <- MCNoAlive
    DeviceLimits <- MCNoLimit
    TrafficMin = 0
    OnlineMin = 0
    MaxOnline = 2
    MaxBytes = 1
    MaxRequeued = 0
CHECK_DEADLOCK FALSE
PROPERTIES
    PendingReleased
    TrafficDelivered

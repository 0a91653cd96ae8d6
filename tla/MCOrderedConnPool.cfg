SPECIFICATION FairSpec
CONSTANTS
    c1 = c1
    c2 = c2
    k1 = k1
    k2 = k2
    k3 = k3
    None = None
    Clients <- TwoClients
    Conns <- ThreeConns
    SeesDeath = TRUE
    MaxGen = 2
    MaxInflight = 1
INVARIANT TypeOK
INVARIANT ExclusiveHold
INVARIANT NoLeak
INVARIANT SlotsMatchDials
PROPERTY HandsOutCurrent
PROPERTY AcquireReturns

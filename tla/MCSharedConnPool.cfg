SPECIFICATION FairSpec
CONSTANTS
    c1 = c1
    c2 = c2
    k1 = k1
    None = None
    Clients <- TwoClients
    Conns <- OneConn
    SeesDeath = FALSE
    MaxGen = 2
INVARIANT CreatedOnce
INVARIANT NoDialBeside
INVARIANT NoLeak
INVARIANT ClosedIsSignalled
PROPERTY CancelledReturns

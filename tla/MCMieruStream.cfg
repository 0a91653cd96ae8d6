SPECIFICATION FairSpec
CONSTANTS
    Cap = 3
    QueueCap = 8
    Windows <- Extremes
    TxLimit = 2
    MaxWrites = 3
    MaxFlight = 2
    MaxFaults = 1
    Empty = Empty
INVARIANT TypeOK
INVARIANT NeverStuck
PROPERTY ChannelSpec
PROPERTY Delivered
CHECK_DEADLOCK FALSE

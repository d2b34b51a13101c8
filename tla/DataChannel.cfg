SPECIFICATION FairSpec
CONSTANTS
    Role = "kOpener"
    MaxSendQueue = 2
    MaxRecvQueue = 1
    MaxPackets = 3
    MaxArrivals = 2
    MaxDepth = 2
INVARIANTS
    TypeOK
    NothingLost
    NoDuplicate
    ReceivedInOrder
    NothingStuck
PROPERTIES
    SentEventually
CHECK_DEADLOCK FALSE

SPECIFICATION Spec
CONSTANTS
    Role = "kOpener"
    MaxSendQueue = 3
    MaxRecvQueue = 1
    MaxPackets = 3
    MaxArrivals = 0
    MaxDepth = 2
INVARIANTS
    Ordered
CHECK_DEADLOCK FALSE

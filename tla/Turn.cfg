SPECIFICATION Spec
CONSTANTS
    None = None
    p1 = p1
    p2 = p2
    Peer = {p1, p2}
    IpOf <- MCIpOf
    MaxFlight = 2
    MaxTx = 4
    MaxSends = 2
    Lifetime = 2
    Margin = 1
    PermissionTimeout = 2
    ChannelTimeout = 3
    NonceTimeout = 2
    MaxChannel = 2
    MaxEntries = 2
    MaxOpen = 1
    MaxActive = 1
SYMMETRY MCSymmetry
INVARIANTS TypeOK AllocationKept BoundRelayed RightSource RefusedHasNone PortNotStuck

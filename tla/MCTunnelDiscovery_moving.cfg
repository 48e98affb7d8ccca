SPECIFICATION Spec
CONSTANTS
    Order <- MCOrder
    XDomains <- MCXDomains
    Kind <- MCKind
    Upstream <- MCUpstream
    Tunnels <- MCTunnels
    MaxRing = 2
    MaxHop = 9
    MaxDepth = 3
    MaxChanges = 5
INVARIANT TypeOK
INVARIANT WalkEnds
INVARIANT StableFound
CHECK_DEADLOCK FALSE

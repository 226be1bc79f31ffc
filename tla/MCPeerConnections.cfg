SPECIFICATION FairSpec
CONSTANTS
    Peers = {b, q}
    Bootnodes = {b}
    None = None
    MaxConnections = 2
    MaxInbound = 2
    MaxClosed = 2
INVARIANTS
    ViewCatchesUp
    NeverForgotten
PROPERTY
    BootnodesReconnect
CHECK_DEADLOCK FALSE

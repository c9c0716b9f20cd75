CONSTANTS
    u1 = u1
    u2 = u2
    Users <- MCUsers1
    MaxSockets = 2
    MaxPackets = 3
    Loopback = FALSE
    GuardedUser = TRUE
    EarlyPeerClose = TRUE
SPECIFICATION Spec
PROPERTY PeerCloseDisconnects
CHECK_DEADLOCK FALSE

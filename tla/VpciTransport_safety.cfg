\* One user that checks GET_STATUS before CONNECT; the peer may send at any
\* time and reset or close once the connection is up (EarlyPeerClose =
\* FALSE: the earlier window is VpciTransport_connect_window.cfg);
\* sock_create, kernel_connect and kthread_run may fail.  Checks the safety
\* properties, the TX wake-up, and that the transport implements the session
\* state machine of VpciSession.  The RX self-stop (see PeerCloseDisconnects)
\* really stops the system, so deadlock is not checked.
CONSTANTS
    u1 = u1
    u2 = u2
    Users <- MCUsers1
    MaxSockets = 2
    MaxPackets = 3
    Loopback = FALSE
    GuardedUser = TRUE
    EarlyPeerClose = FALSE
SPECIFICATION Spec
INVARIANTS TypeOK AtMostOneSocket ThreadsUseLiveSocket
PROPERTIES TxDrains SessionSpec
CHECK_DEADLOCK FALSE

----------------------------- MODULE VpciSession -----------------------------
(***************************************************************************)
(* The session state machine the specification promises (section 4.2):    *)
(* Disconnected -> Connecting -> Handshaking -> Established, any state     *)
(* back to Disconnected, and the loopback shortcut that marks the session  *)
(* up without a socket.  Besides the state it keeps the two resources the  *)
(* transitions talk about: whether a socket is open and whether both loops *)
(* (receive and transmit) are running.                                     *)
(***************************************************************************)
VARIABLES
    state,      \* the session state
    sockOpen,   \* a stream socket to the peer is open
    loops       \* the receive and the transmit loop are both running

svars == <<state, sockOpen, loops>>

States == {"Disconnected", "Connecting", "Handshaking", "Established"}
Up     == {"Handshaking", "Established"}

TypeOK ==
    /\ state \in States
    /\ sockOpen \in BOOLEAN
    /\ loops \in BOOLEAN

Init ==
    /\ state = "Disconnected"
    /\ sockOpen = FALSE
    /\ loops = FALSE

\* An external connect request.
Request ==
    /\ state = "Disconnected"
    /\ ~sockOpen /\ ~loops
    /\ state' = "Connecting"
    /\ UNCHANGED <<sockOpen, loops>>

\* Loopback role: connected without any socket.
LoopbackUp ==
    /\ state = "Disconnected"
    /\ state' = "Handshaking"
    /\ UNCHANGED <<sockOpen, loops>>

\* Connecting: the socket is opened, then the loops are started.
OpenSocket ==
    /\ state = "Connecting"
    /\ ~sockOpen
    /\ sockOpen' = TRUE
    /\ UNCHANGED <<state, loops>>

StartLoops ==
    /\ state = "Connecting"
    /\ sockOpen /\ ~loops
    /\ loops' = TRUE
    /\ UNCHANGED <<state, sockOpen>>

\* Socket connected, loops started, keepalive armed: waiting for the
\* handshake.
Connected ==
    /\ state = "Connecting"
    /\ sockOpen /\ loops
    /\ state' = "Handshaking"
    /\ UNCHANGED <<sockOpen, loops>>

\* A failed connect attempt leaves nothing open behind it.
ConnectFailed ==
    /\ state = "Connecting"
    /\ state' = "Disconnected"
    /\ sockOpen' = FALSE
    /\ loops' = FALSE

Handshake ==
    /\ state = "Handshaking"
    /\ state' = "Established"
    /\ UNCHANGED <<sockOpen, loops>>

\* Teardown, in its order: the loops are stopped, the socket is released,
\* then the session is down.
StopLoops ==
    /\ state \in Up
    /\ loops
    /\ loops' = FALSE
    /\ UNCHANGED <<state, sockOpen>>

ReleaseSocket ==
    /\ state \in Up
    /\ ~loops /\ sockOpen
    /\ sockOpen' = FALSE
    /\ UNCHANGED <<state, loops>>

Down ==
    /\ state \in Up
    /\ ~loops /\ ~sockOpen
    /\ state' = "Disconnected"
    /\ UNCHANGED <<sockOpen, loops>>

Next ==
    \/ Request \/ LoopbackUp \/ OpenSocket \/ StartLoops \/ Connected
    \/ ConnectFailed \/ Handshake \/ StopLoops \/ ReleaseSocket \/ Down

Spec == Init /\ [][Next]_svars
====

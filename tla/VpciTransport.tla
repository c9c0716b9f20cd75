--------------------------- MODULE VpciTransport ---------------------------
(***************************************************************************)
(* The connection lifecycle of one virtual PCIe device (virtual_pcie_net.c *)
(* and the ioctl surface of virtual_pcie_core.c): the CONNECT/DISCONNECT   *)
(* ioctls run vpci_net_connect / vpci_net_disconnect in the caller's       *)
(* context; the RX kthread polls the socket and dispatches what it reads;  *)
(* the TX kthread drains dev->tx_list; the keepalive timer enqueues a      *)
(* packet and re-arms itself.  kthread_stop(t) is two steps: request the   *)
(* stop and wake t, then wait until t has exited.                          *)
(*                                                                         *)
(* Data is abstracted: a packet is its id, its kind, where it was          *)
(* allocated and the socket that was dev->sock when it was built;          *)
(* statistics counters are left out (no property reads them).              *)
(***************************************************************************)
EXTENDS Naturals, Sequences, FiniteSets

CONSTANTS
    Users,        \* user threads issuing ioctls on the character device
    MaxSockets,   \* bound on sock_create calls; sockets are 1..MaxSockets
    MaxPackets,   \* bound on packets built (keepalives and NACKs)
    Loopback,     \* module parameter vpci_loopback
    GuardedUser,  \* TRUE: a user issues CONNECT only after GET_STATUS said 0
    EarlyPeerClose \* the peer may reset/close before connect has set connected

ASSUME MaxSockets \in Nat \ {0} /\ MaxPackets \in Nat
ASSUME Loopback \in BOOLEAN /\ GuardedUser \in BOOLEAN /\ EarlyPeerClose \in BOOLEAN

Sockets   == 1..MaxSockets
NoSock    == 0                         \* dev->sock == NULL
ThreadIds == Sockets \X {"rx", "tx"}   \* the kthreads started by the connect that made socket s
NoThread  == <<0, "none">>             \* dev->rx_thread / dev->tx_thread == NULL
Actors    == Users \cup ThreadIds
Roles     == {"NONE", "RC", "EP", "LOOPBACK"}

Packet == [id : 1..MaxPackets, kind : {"keepalive", "nack"},
           alloc : {"heap", "stack"}, sock : Sockets \cup {NoSock}]
NoPkt  == [id |-> 0]

IsRx(t) == t \in ThreadIds /\ t[2] = "rx"
IsTx(t) == t \in ThreadIds /\ t[2] = "tx"

VARIABLES
    connected,    \* atomic dev->connected
    sock,         \* dev->sock
    live,         \* sockets created and not yet released
    nSock,        \* sockets created so far
    rx_thread,    \* dev->rx_thread
    tx_thread,    \* dev->tx_thread
    timer,        \* keepalive_timer is pending
    role,         \* dev->role
    tx_list,      \* dev->tx_list, FIFO
    nPkts,        \* packets built so far (ids)
    pc,           \* control point of every user and kthread
    should_stop,  \* KTHREAD_SHOULD_STOP bit of each kthread
    target,       \* thread a caller of kthread_stop is waiting for
    cs,           \* socket made by the connect a user is running
    txpkt,        \* packet a TX thread has taken off the list
    wire,         \* history: <<packet, socket>> for every kernel_sendmsg
    work_pending  \* reconnect_work has been scheduled

vars == <<connected, sock, live, nSock, rx_thread, tx_thread, timer, role,
          tx_list, nPkts, pc, should_stop, target, cs, txpkt, wire, work_pending>>

DiscPcs == {"d_tx", "d_tx_wait", "d_rx", "d_rx_wait", "d_sock", "d_conn"}
TxPcs   == {"tx_head", "asleep", "tx_wait", "tx_pop", "tx_send", "tx_xmit"}
ConnPcs == {"c_create", "c_connect", "c_rx", "c_rx_set", "c_tx", "c_rx_wait", "c_done"}

Running(t) == pc[t] \notin {"none", "exited"}

TypeOK ==
    /\ connected \in BOOLEAN
    /\ sock \in Sockets \cup {NoSock}
    /\ live \subseteq Sockets
    /\ nSock \in 0..MaxSockets
    /\ rx_thread \in ThreadIds \cup {NoThread}
    /\ tx_thread \in ThreadIds \cup {NoThread}
    /\ timer \in BOOLEAN
    /\ role \in Roles
    /\ tx_list \in Seq(Packet)
    /\ nPkts \in 0..MaxPackets
    /\ pc \in [Actors -> {"idle", "none", "exited", "rx_loop"} \cup DiscPcs \cup TxPcs \cup ConnPcs]
    /\ should_stop \in [ThreadIds -> BOOLEAN]
    /\ target \in [Actors -> ThreadIds \cup {NoThread}]
    /\ cs \in [Users -> Sockets \cup {NoSock}]
    /\ txpkt \in [ThreadIds -> Packet \cup {NoPkt}]
    /\ wire \subseteq Packet \X (Sockets \cup {NoSock})
    /\ work_pending \in BOOLEAN

Init ==
    /\ connected = FALSE
    /\ sock = NoSock
    /\ live = {}
    /\ nSock = 0
    /\ rx_thread = NoThread
    /\ tx_thread = NoThread
    /\ timer = FALSE
    /\ role = "NONE"
    /\ tx_list = <<>>
    /\ nPkts = 0
    /\ pc = [a \in Actors |-> IF a \in Users THEN "idle" ELSE "none"]
    /\ should_stop = [t \in ThreadIds |-> FALSE]
    /\ target = [a \in Actors |-> NoThread]
    /\ cs = [u \in Users |-> NoSock]
    /\ txpkt = [t \in ThreadIds |-> NoPkt]
    /\ wire = {}
    /\ work_pending = FALSE

(***************************************************************************)
(* Helpers shared by several actions.                                      *)
(***************************************************************************)
\* wake_up_interruptible(&dev->tx_wait): every sleeping TX thread re-checks
\* its wait condition.
Wake(p) == [a \in DOMAIN p |-> IF IsTx(a) /\ p[a] = "asleep" THEN "tx_wait" ELSE p[a]]

NewPacket(kind, alloc) ==
    [id |-> nPkts + 1, kind |-> kind, alloc |-> alloc, sock |-> sock]

\* Mutant: the wake_up_interruptible after list_add_tail is missing.
PacketSend_noWake(pkt, p) ==
    /\ nPkts' = nPkts + 1
    /\ IF connected THEN tx_list' = Append(tx_list, pkt) ELSE UNCHANGED tx_list
    /\ pc' = p

\* vpci_packet_send: drop when not connected, else append to tx_list and
\* wake TX.  `p` is pc with the sender's own step already applied.
PacketSend(pkt, p) ==
    /\ nPkts' = nPkts + 1
    /\ IF connected
         THEN /\ tx_list' = Append(tx_list, pkt)
              /\ pc' = Wake(p)
         ELSE /\ UNCHANGED tx_list
              /\ pc' = p

\* First half of kthread_stop(t): set the stop bit and wake t.
RequestStop(self, t, next) ==
    /\ should_stop' = [should_stop EXCEPT ![t] = TRUE]
    /\ target' = [target EXCEPT ![self] = t]
    /\ pc' = [pc EXCEPT ![self] = next,
                        ![t] = IF @ = "asleep" THEN "tx_wait" ELSE @]

\* sock_release(dev->sock); dev->sock = NULL;
ReleaseSock ==
    /\ live' = live \ {sock}
    /\ sock' = NoSock

Exited(t) == pc[t] = "exited"

(***************************************************************************)
(* vpci_ioctl (virtual_pcie_core.c).  GET_STATUS only reads `connected`;   *)
(* with GuardedUser it is folded into the guard of CONNECT.                *)
(***************************************************************************)
IoctlConnect(u) ==
    /\ pc[u] = "idle"
    /\ GuardedUser => ~connected
    /\ IF Loopback
         THEN /\ role' = "LOOPBACK"
              /\ connected' = TRUE
              /\ UNCHANGED pc
         ELSE /\ role' = "RC"
              /\ pc' = [pc EXCEPT ![u] = "c_create"]
              /\ UNCHANGED connected
    /\ UNCHANGED <<sock, live, nSock, rx_thread, tx_thread, timer, tx_list, nPkts,
                   should_stop, target, cs, txpkt, wire, work_pending>>

\* DISCONNECT: vpci_net_disconnect starts with timer_delete_sync.
IoctlDisconnect(u) ==
    /\ pc[u] = "idle"
    /\ timer' = FALSE
    /\ pc' = [pc EXCEPT ![u] = "d_tx"]
    /\ UNCHANGED <<connected, sock, live, nSock, rx_thread, tx_thread, role, tx_list,
                   nPkts, should_stop, target, cs, txpkt, wire, work_pending>>

\* Mutant: the argument is stored without the arg == VPCI_ROLE_EP check.
IoctlSetRole_noCheck(u) ==
    /\ pc[u] = "idle"
    /\ \E arg \in {"EP", "BOGUS"} : role' = arg
    /\ UNCHANGED <<connected, sock, live, nSock, rx_thread, tx_thread, timer, tx_list,
                   nPkts, pc, should_stop, target, cs, txpkt, wire, work_pending>>

\* SET_ROLE: only the Endpoint role is accepted; any other argument is ignored.
IoctlSetRole(u) ==
    /\ pc[u] = "idle"
    /\ \E arg \in {"EP", "BOGUS"} : role' = IF arg = "EP" THEN "EP" ELSE role
    /\ UNCHANGED <<connected, sock, live, nSock, rx_thread, tx_thread, timer, tx_list,
                   nPkts, pc, should_stop, target, cs, txpkt, wire, work_pending>>

(***************************************************************************)
(* vpci_net_connect, run by the CONNECT ioctl in the user's context.       *)
(***************************************************************************)
\* sock_create(..., &dev->sock): dev->sock is the new socket at once.
ConnCreate(u) ==
    /\ pc[u] = "c_create"
    /\ \/ /\ nSock < MaxSockets
          /\ sock' = nSock + 1
          /\ live' = live \cup {nSock + 1}
          /\ nSock' = nSock + 1
          /\ cs' = [cs EXCEPT ![u] = nSock + 1]
          /\ pc' = [pc EXCEPT ![u] = "c_connect"]
       \/ /\ pc' = [pc EXCEPT ![u] = "idle"]          \* sock_create failed
          /\ UNCHANGED <<sock, live, nSock, cs>>
    /\ UNCHANGED <<connected, rx_thread, tx_thread, timer, role, tx_list, nPkts,
                   should_stop, target, txpkt, wire, work_pending>>

\* Mutant: the failure path forgets sock_release and only clears dev->sock.
ConnConnect_noRelease(u) ==
    /\ pc[u] = "c_connect"
    /\ \/ /\ pc' = [pc EXCEPT ![u] = "c_rx"]
          /\ UNCHANGED sock
       \/ /\ sock' = NoSock
          /\ pc' = [pc EXCEPT ![u] = "idle"]
    /\ UNCHANGED <<live, connected, nSock, rx_thread, tx_thread, timer, role, tx_list, nPkts,
                   should_stop, target, cs, txpkt, wire, work_pending>>

\* kernel_connect(dev->sock); on failure sock_release(dev->sock).
ConnConnect(u) ==
    /\ pc[u] = "c_connect"
    /\ \/ /\ pc' = [pc EXCEPT ![u] = "c_rx"]
          /\ UNCHANGED <<sock, live>>
       \/ /\ ReleaseSock
          /\ pc' = [pc EXCEPT ![u] = "idle"]
    /\ UNCHANGED <<connected, nSock, rx_thread, tx_thread, timer, role, tx_list, nPkts,
                   should_stop, target, cs, txpkt, wire, work_pending>>

\* kthread_run(vpci_rx_thread, ...): the new thread is woken and may run
\* before its result is stored in dev->rx_thread; on failure goto err_sock.
ConnRx(u) ==
    /\ pc[u] = "c_rx"
    /\ \/ /\ pc' = [pc EXCEPT ![u] = "c_rx_set", ![<<cs[u], "rx">>] = "rx_loop"]
          /\ UNCHANGED <<sock, live>>
       \/ /\ ReleaseSock
          /\ pc' = [pc EXCEPT ![u] = "idle"]
    /\ UNCHANGED <<connected, nSock, rx_thread, tx_thread, timer, role, tx_list, nPkts,
                   should_stop, target, cs, txpkt, wire, work_pending>>

\* dev->rx_thread = the task kthread_run returned, running or not.
ConnRxSet(u) ==
    /\ pc[u] = "c_rx_set"
    /\ rx_thread' = <<cs[u], "rx">>
    /\ pc' = [pc EXCEPT ![u] = "c_tx"]
    /\ UNCHANGED <<connected, sock, live, nSock, tx_thread, timer, role, tx_list,
                   nPkts, should_stop, target, cs, txpkt, wire, work_pending>>

\* dev->tx_thread = kthread_run(vpci_tx_thread, ...); on failure goto err_rx,
\* whose kthread_stop(dev->rx_thread) is completed by ConnRxWait.
ConnTx(u) ==
    /\ pc[u] = "c_tx"
    /\ \/ LET t == <<cs[u], "tx">> IN
          /\ pc' = [pc EXCEPT ![u] = "c_done", ![t] = "tx_head"]
          /\ tx_thread' = t
          /\ UNCHANGED <<should_stop, target>>
       \/ /\ rx_thread # NoThread
          /\ RequestStop(u, rx_thread, "c_rx_wait")
          /\ UNCHANGED tx_thread
    /\ UNCHANGED <<connected, sock, live, nSock, rx_thread, timer, role, tx_list,
                   nPkts, cs, txpkt, wire, work_pending>>

ConnRxWait(u) ==
    /\ pc[u] = "c_rx_wait"
    /\ Exited(target[u])
    /\ rx_thread' = NoThread
    /\ ReleaseSock
    /\ pc' = [pc EXCEPT ![u] = "idle"]
    /\ UNCHANGED <<connected, nSock, tx_thread, timer, role, tx_list, nPkts,
                   should_stop, target, cs, txpkt, wire, work_pending>>

\* atomic_set(&dev->connected, 1); mod_timer(&dev->keepalive_timer, ...).
ConnDone(u) ==
    /\ pc[u] = "c_done"
    /\ connected' = TRUE
    /\ timer' = TRUE
    /\ pc' = [pc EXCEPT ![u] = "idle"]
    /\ UNCHANGED <<sock, live, nSock, rx_thread, tx_thread, role, tx_list, nPkts,
                   should_stop, target, cs, txpkt, wire, work_pending>>

(***************************************************************************)
(* vpci_net_disconnect, run by a user (DISCONNECT ioctl) or by an RX       *)
(* thread that saw the connection go away.  The timer was deleted by the   *)
(* step that entered it.                                                   *)
(***************************************************************************)
DiscUnchanged == UNCHANGED <<connected, nSock, timer, role, tx_list, nPkts, cs,
                             txpkt, wire, work_pending>>

DiscTx(a) ==
    /\ pc[a] = "d_tx"
    /\ IF tx_thread # NoThread
         THEN RequestStop(a, tx_thread, "d_tx_wait")
         ELSE /\ pc' = [pc EXCEPT ![a] = "d_rx"]
              /\ UNCHANGED <<should_stop, target>>
    /\ UNCHANGED <<sock, live, rx_thread, tx_thread>>
    /\ DiscUnchanged

DiscTxWait(a) ==
    /\ pc[a] = "d_tx_wait"
    /\ Exited(target[a])
    /\ tx_thread' = NoThread
    /\ pc' = [pc EXCEPT ![a] = "d_rx"]
    /\ UNCHANGED <<sock, live, rx_thread, should_stop, target>>
    /\ DiscUnchanged

\* Mutant: the RX thread is not stopped before the socket is released.
DiscRx_noStop(a) ==
    /\ pc[a] = "d_rx"
    /\ pc' = [pc EXCEPT ![a] = "d_sock"]
    /\ UNCHANGED <<should_stop, target, sock, live, rx_thread, tx_thread>>
    /\ DiscUnchanged

\* kthread_stop(dev->rx_thread): when the caller is that RX thread it waits
\* for its own exit in DiscRxWait, which never comes.
DiscRx(a) ==
    /\ pc[a] = "d_rx"
    /\ IF rx_thread # NoThread
         THEN RequestStop(a, rx_thread, "d_rx_wait")
         ELSE /\ pc' = [pc EXCEPT ![a] = "d_sock"]
              /\ UNCHANGED <<should_stop, target>>
    /\ UNCHANGED <<sock, live, rx_thread, tx_thread>>
    /\ DiscUnchanged

DiscRxWait(a) ==
    /\ pc[a] = "d_rx_wait"
    /\ Exited(target[a])
    /\ rx_thread' = NoThread
    /\ pc' = [pc EXCEPT ![a] = "d_sock"]
    /\ UNCHANGED <<sock, live, tx_thread, should_stop, target>>
    /\ DiscUnchanged

\* Mutant: dev->sock is left set and unreleased.
DiscSock_noRelease(a) ==
    /\ pc[a] = "d_sock"
    /\ pc' = [pc EXCEPT ![a] = "d_conn"]
    /\ UNCHANGED <<sock, live, rx_thread, tx_thread, should_stop, target>>
    /\ DiscUnchanged

DiscSock(a) ==
    /\ pc[a] = "d_sock"
    /\ IF sock # NoSock THEN ReleaseSock ELSE UNCHANGED <<sock, live>>
    /\ pc' = [pc EXCEPT ![a] = "d_conn"]
    /\ UNCHANGED <<rx_thread, tx_thread, should_stop, target>>
    /\ DiscUnchanged

\* atomic_set(&dev->connected, 0), then back in the caller: the ioctl sets
\* role NONE; the RX thread calls schedule_work(&dev->reconnect_work) and
\* leaves its loop.
DiscConn(a) ==
    /\ pc[a] = "d_conn"
    /\ connected' = FALSE
    /\ IF a \in Users
         THEN /\ role' = "NONE"
              /\ pc' = [pc EXCEPT ![a] = "idle"]
              /\ UNCHANGED work_pending
         ELSE /\ work_pending' = TRUE
              /\ pc' = [pc EXCEPT ![a] = "exited"]
              /\ UNCHANGED role
    /\ UNCHANGED <<sock, live, nSock, rx_thread, tx_thread, timer, tx_list, nPkts,
                   should_stop, target, cs, txpkt, wire>>

(***************************************************************************)
(* vpci_rx_thread.  One loop iteration is one step.  The header of the     *)
(* packet it builds is the kzalloc'ed one with only `length` set, so       *)
(* vpci_packet_process always sees magic 0 and answers NACK(-EBADMSG).     *)
(* -EAGAIN and errors other than reset/not-connected change no modelled   *)
(* state.                                                                  *)
(***************************************************************************)
RxStop(t) ==
    /\ pc[t] = "rx_loop"
    /\ should_stop[t]
    /\ pc' = [pc EXCEPT ![t] = "exited"]
    /\ UNCHANGED <<connected, sock, live, nSock, rx_thread, tx_thread, timer, role,
                   tx_list, nPkts, should_stop, target, cs, txpkt, wire, work_pending>>

RxData(t) ==
    /\ pc[t] = "rx_loop"
    /\ ~should_stop[t]
    /\ nPkts < MaxPackets
    /\ PacketSend(NewPacket("nack", "heap"), pc)
    /\ UNCHANGED <<connected, sock, live, nSock, rx_thread, tx_thread, timer, role,
                   should_stop, target, cs, txpkt, wire, work_pending>>

\* ret == -ECONNRESET, -ENOTCONN or 0: vpci_net_disconnect(dev), which
\* first deletes the keepalive timer.
RxLost(t) ==
    /\ pc[t] = "rx_loop"
    /\ ~should_stop[t]
    /\ EarlyPeerClose \/ connected
    /\ timer' = FALSE
    /\ pc' = [pc EXCEPT ![t] = "d_tx"]
    /\ UNCHANGED <<connected, sock, live, nSock, rx_thread, tx_thread, role, tx_list,
                   nPkts, should_stop, target, cs, txpkt, wire, work_pending>>

(***************************************************************************)
(* vpci_tx_thread.                                                         *)
(***************************************************************************)
TxUnchanged == UNCHANGED <<connected, sock, live, nSock, rx_thread, tx_thread,
                           timer, role, nPkts, should_stop, target, cs, work_pending>>

\* while (!kthread_should_stop()) wait_event_interruptible(tx_wait, cond):
\* the condition is checked before the thread sleeps.
TxHead(t) ==
    /\ pc[t] = "tx_head"
    /\ pc' = [pc EXCEPT ![t] = IF should_stop[t] THEN "exited"
                               ELSE IF tx_list # <<>> THEN "tx_pop"
                               ELSE "asleep"]
    /\ UNCHANGED <<tx_list, txpkt, wire>>
    /\ TxUnchanged

\* Woken: re-check !list_empty(&dev->tx_list) || kthread_should_stop().
TxWait(t) ==
    /\ pc[t] = "tx_wait"
    /\ pc' = [pc EXCEPT ![t] = IF tx_list # <<>> \/ should_stop[t] THEN "tx_pop"
                               ELSE "asleep"]
    /\ UNCHANGED <<tx_list, txpkt, wire>>
    /\ TxUnchanged

\* if (kthread_should_stop()) break; then take the head under tx_lock.
TxPop(t) ==
    /\ pc[t] = "tx_pop"
    /\ IF should_stop[t]
         THEN /\ pc' = [pc EXCEPT ![t] = "exited"]
              /\ UNCHANGED <<tx_list, txpkt>>
         ELSE IF tx_list = <<>>
         THEN /\ pc' = [pc EXCEPT ![t] = "tx_head"]
              /\ UNCHANGED <<tx_list, txpkt>>
         ELSE /\ txpkt' = [txpkt EXCEPT ![t] = Head(tx_list)]
              /\ tx_list' = Tail(tx_list)
              /\ pc' = [pc EXCEPT ![t] = "tx_send"]
    /\ UNCHANGED wire
    /\ TxUnchanged

\* if (atomic_read(&dev->connected) && dev->sock) ... else dropped; kfree.
TxSend(t) ==
    /\ pc[t] = "tx_send"
    /\ IF connected /\ sock # NoSock
         THEN /\ pc' = [pc EXCEPT ![t] = "tx_xmit"]
              /\ UNCHANGED txpkt
         ELSE /\ pc' = [pc EXCEPT ![t] = "tx_head"]
              /\ txpkt' = [txpkt EXCEPT ![t] = NoPkt]
    /\ UNCHANGED <<tx_list, wire>>
    /\ TxUnchanged

\* kernel_sendmsg(dev->sock, ...) re-reads dev->sock; success and failure
\* differ only in statistics.  The packet is freed either way.
TxXmit(t) ==
    /\ pc[t] = "tx_xmit"
    /\ wire' = wire \cup {<<txpkt[t], sock>>}
    /\ txpkt' = [txpkt EXCEPT ![t] = NoPkt]
    /\ pc' = [pc EXCEPT ![t] = "tx_head"]
    /\ UNCHANGED tx_list
    /\ TxUnchanged

(***************************************************************************)
(* vpci_keepalive_timer: the packet is a local of the callback (stack).    *)
(***************************************************************************)
Keepalive ==
    /\ timer
    /\ nPkts < MaxPackets
    /\ IF connected
         THEN /\ PacketSend(NewPacket("keepalive", "stack"), pc)
              /\ UNCHANGED timer
         ELSE /\ timer' = FALSE
              /\ UNCHANGED <<tx_list, nPkts, pc>>
    /\ UNCHANGED <<connected, sock, live, nSock, rx_thread, tx_thread, role,
                   should_stop, target, cs, txpkt, wire, work_pending>>

(***************************************************************************)
(* Specification.                                                          *)
(***************************************************************************)
UserStep(u) ==
    \/ IoctlConnect(u) \/ IoctlDisconnect(u) \/ IoctlSetRole(u)

\* Steps inside a system call or a kthread, run by the kernel once begun.
ConnStep(u) ==
    \/ ConnCreate(u) \/ ConnConnect(u) \/ ConnRx(u) \/ ConnRxSet(u) \/ ConnTx(u)
    \/ ConnRxWait(u) \/ ConnDone(u)

DiscStep(a) ==
    \/ DiscTx(a) \/ DiscTxWait(a) \/ DiscRx(a) \/ DiscRxWait(a)
    \/ DiscSock(a) \/ DiscConn(a)

TxStep(t) ==
    \/ TxHead(t) \/ TxWait(t) \/ TxPop(t) \/ TxSend(t) \/ TxXmit(t)

Next ==
    \/ \E u \in Users : UserStep(u) \/ ConnStep(u)
    \/ \E a \in Actors : DiscStep(a)
    \/ \E t \in ThreadIds : IsRx(t) /\ (RxStop(t) \/ RxData(t) \/ RxLost(t))
    \/ \E t \in ThreadIds : IsTx(t) /\ TxStep(t)
    \/ Keepalive

\* Kernel code that has started runs on: the steps of a system call or of a
\* kthread are weakly fair.  Issuing an ioctl, receiving from the peer and
\* the timer expiring are not forced.
Fairness ==
    /\ \A u \in Users : WF_vars(ConnStep(u))
    /\ \A a \in Actors : WF_vars(DiscStep(a))
    /\ \A t \in ThreadIds : WF_vars(IsTx(t) /\ TxStep(t))
    /\ \A t \in ThreadIds : WF_vars(IsRx(t) /\ RxStop(t))

Spec == Init /\ [][Next]_vars /\ Fairness

(***************************************************************************)
(* Properties.                                                             *)
(***************************************************************************)
\* Spec (section 3): at most one live socket per session.  vpci_net_connect
\* assigns dev->sock without looking at what it held, so this is about who
\* may call it and when.
AtMostOneSocket == Cardinality(live) <= 1

\* While any RX or TX kthread is still running, dev->sock (which both loops
\* re-read on every use) is a socket that has not been released: teardown
\* in vpci_net_disconnect and the err_rx path of vpci_net_connect stop the
\* threads before sock_release.
ThreadsUseLiveSocket ==
    (\E t \in ThreadIds : Running(t)) => sock \in live

Queued(i)  == \E k \in 1..Len(tx_list) : tx_list[k].id = i
TxStopping == tx_thread = NoThread \/ should_stop[tx_thread]

\* Every packet vpci_packet_send put on tx_list is eventually taken by the
\* TX thread unless that thread is being stopped: the wake_up in
\* vpci_packet_send and the condition re-check in wait_event_interruptible
\* leave no lost wake-up.
TxDrains == \A i \in 1..MaxPackets : Queued(i) ~> (~Queued(i) \/ TxStopping)

\* Every packet on tx_list is heap memory that the TX thread may kfree.
\* vpci_keepalive_timer queues the address of its local `pkt`.
QueuedPacketsOnHeap == \A k \in 1..Len(tx_list) : tx_list[k].alloc = "heap"

\* A packet goes out only on the connection it was built for: teardown
\* stops TX without flushing tx_list, and the next connection's TX thread
\* sends what is left.
NoStaleDelivery == \A w \in wire : w[1].sock = w[2]

(***************************************************************************)
(* Refinement: the transport implements the session state machine of      *)
(* VpciSession.  The session is up while `connected` is set, connecting    *)
(* while a user is inside vpci_net_connect, and disconnected otherwise;    *)
(* its socket is dev->sock and its loops are running while both thread     *)
(* pointers are set.                                                       *)
(***************************************************************************)
SessionState ==
    IF connected THEN "Handshaking"
    ELSE IF \E u \in Users : pc[u] \in ConnPcs THEN "Connecting"
    ELSE "Disconnected"

Session == INSTANCE VpciSession
             WITH state    <- SessionState,
                  sockOpen <- (sock # NoSock),
                  loops    <- (rx_thread # NoThread /\ tx_thread # NoThread)

\* Every step of connect, disconnect, the kthreads and the timer is a step
\* of the session machine or leaves it unchanged: a socket exists only
\* while connecting or up, the loops are stopped before the socket is
\* released, and the session goes down only when both are gone.
SessionSpec == Session!Spec

\* Spec (section 4.3): when the RX loop sees the connection reset or closed
\* it disconnects the session.  vpci_rx_thread calls vpci_net_disconnect,
\* whose kthread_stop(dev->rx_thread) is a stop of the calling thread.
PeerCloseDisconnects ==
    \A t \in ThreadIds : (IsRx(t) /\ pc[t] = "d_tx") ~> ~connected
====

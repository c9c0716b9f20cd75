---------------------------- MODULE VpciReconnect ----------------------------
(***************************************************************************)
(* vpci_reconnect_work (virtual_pcie_net.c), scheduled after an unplanned  *)
(* disconnect, racing a user that checks GET_STATUS and issues CONNECT or  *)
(* DISCONNECT.  vpci_net_connect is one step here with its outcome (its    *)
(* inside is VpciTransport); what matters is the loop around it: the test  *)
(* of dev->connected, the msleep and the doubling delay.                   *)
(*                                                                         *)
(* CONFIG_HZ is a property of the build, so the initial state picks it     *)
(* from HZs.  Delays are in jiffies as the code keeps them; msleep takes   *)
(* milliseconds.                                                           *)
(***************************************************************************)
EXTENDS Naturals, Sequences

CONSTANTS
    HZs,          \* CONFIG_HZ values the kernel may be built with
    MaxAttempts   \* bound on failed reconnect attempts

ASSUME HZs \subseteq Nat \ {0} /\ MaxAttempts \in Nat \ {0}

MinOf(a, b) == IF a <= b THEN a ELSE b

ReconnectDelay(hz) == 2 * hz    \* VPCI_RECONNECT_DELAY
DelayCeiling(hz)   == 30 * hz   \* HZ * 30

VARIABLES
    hz,         \* CONFIG_HZ of this build
    connected,  \* dev->connected
    nLive,      \* sockets created by a successful connect and not released
    upc,        \* user: "idle" or "checked" (GET_STATUS returned 0)
    wpc,        \* worker: "check", "connect", "sleep" or "done"
    delay,      \* the worker's local `delay`, in jiffies
    slept,      \* arguments of every msleep the worker made, in order
    epc,        \* vpci_device_exit: "run", "cancel" (in cancel_work_sync), "exited"
    atExit      \* sockets live when vpci_device_exit returned

vars == <<hz, connected, nLive, upc, wpc, delay, slept, epc, atExit>>

TypeOK ==
    /\ hz \in HZs
    /\ connected \in BOOLEAN
    /\ nLive \in 0..2
    /\ upc \in {"idle", "checked"}
    /\ wpc \in {"check", "connect", "sleep", "done"}
    /\ delay \in Nat
    /\ slept \in Seq(Nat)
    /\ epc \in {"run", "cancel", "exited"}
    /\ atExit \in 0..2

\* The work item has just been scheduled by an RX thread that disconnected.
Init ==
    /\ hz \in HZs
    /\ connected = FALSE
    /\ nLive = 0
    /\ upc = "idle"
    /\ wpc = "check"
    /\ delay = ReconnectDelay(hz)
    /\ slept = <<>>
    /\ epc = "run"
    /\ atExit = 0

(***************************************************************************)
(* The worker.                                                             *)
(***************************************************************************)
\* while (!atomic_read(&dev->connected)).
WorkerCheck ==
    /\ wpc = "check"
    /\ wpc' = IF connected THEN "done" ELSE "connect"
    /\ UNCHANGED <<hz, connected, nLive, upc, delay, slept, epc, atExit>>

\* ret = vpci_net_connect(dev); success returns from the work function.
WorkerConnect ==
    /\ wpc = "connect"
    /\ \/ /\ nLive' = nLive + 1
          /\ connected' = TRUE
          /\ wpc' = "done"
       \/ /\ wpc' = "sleep"
          /\ UNCHANGED <<connected, nLive>>
    /\ UNCHANGED <<hz, upc, delay, slept, epc, atExit>>

\* msleep(delay); delay = min(delay * 2, HZ * 30).
WorkerSleep ==
    /\ wpc = "sleep"
    /\ Len(slept) < MaxAttempts
    /\ slept' = Append(slept, delay)
    /\ delay' = MinOf(delay * 2, DelayCeiling(hz))
    /\ wpc' = "check"
    /\ UNCHANGED <<hz, connected, nLive, upc, epc, atExit>>

(***************************************************************************)
(* A user of the character device.                                         *)
(***************************************************************************)
\* VPCI_IOCTL_GET_STATUS returned 0.
UserCheck ==
    /\ upc = "idle"
    /\ ~connected
    /\ upc' = "checked"
    /\ UNCHANGED <<hz, connected, nLive, wpc, delay, slept, epc, atExit>>

\* VPCI_IOCTL_CONNECT: vpci_net_connect succeeds or fails.
UserConnect ==
    /\ upc = "checked"
    /\ upc' = "idle"
    /\ \/ /\ nLive' = nLive + 1
          /\ connected' = TRUE
       \/ UNCHANGED <<connected, nLive>>
    /\ UNCHANGED <<hz, wpc, delay, slept, epc, atExit>>

\* Mutant: a socket is released whether or not dev->sock is set.
UserDisconnect_noCheck ==
    /\ upc = "idle"
    /\ connected' = FALSE
    /\ nLive' = nLive - 1
    /\ UNCHANGED <<hz, upc, wpc, delay, slept, epc, atExit>>

\* VPCI_IOCTL_DISCONNECT: releases dev->sock, the most recent socket.  When
\* not connected dev->sock is NULL and the call changes nothing modelled.
UserDisconnect ==
    /\ upc = "idle"
    /\ connected
    /\ connected' = FALSE
    /\ nLive' = nLive - 1
    /\ UNCHANGED <<hz, upc, wpc, delay, slept, epc, atExit>>

(***************************************************************************)
(* vpci_device_exit, from vpci_remove.                                     *)
(***************************************************************************)
\* if (atomic_read(&dev->connected)) vpci_net_disconnect(dev).
ExitDisconnect ==
    /\ epc = "run"
    /\ epc' = "cancel"
    /\ IF connected
         THEN /\ connected' = FALSE
              /\ nLive' = nLive - 1
         ELSE UNCHANGED <<connected, nLive>>
    /\ UNCHANGED <<hz, upc, wpc, delay, slept, atExit>>

\* cancel_work_sync(&dev->reconnect_work): waits for the running worker to
\* return; the rest of device exit follows.
ExitCancel ==
    /\ epc = "cancel"
    /\ wpc = "done"
    /\ epc' = "exited"
    /\ atExit' = nLive
    /\ UNCHANGED <<hz, connected, nLive, upc, wpc, delay, slept>>

Next ==
    \/ WorkerCheck \/ WorkerConnect \/ WorkerSleep
    \/ UserCheck \/ UserConnect \/ UserDisconnect
    \/ ExitDisconnect \/ ExitCancel

\* The workqueue runs the worker once it is scheduled, and vpci_remove,
\* once called, runs on; each vpci_net_connect may fail, and users are
\* not forced to act.
Fairness ==
    /\ WF_vars(WorkerCheck) /\ WF_vars(WorkerConnect) /\ WF_vars(WorkerSleep)
    /\ WF_vars(ExitDisconnect) /\ WF_vars(ExitCancel)

Spec == Init /\ [][Next]_vars /\ Fairness

(***************************************************************************)
(* Properties.                                                             *)
(***************************************************************************)
\* Reference: the k-th wait of the backoff is 2^k times the base interval
\* of two seconds' worth of jiffies, held at thirty seconds' worth.
RECURSIVE Pow2(_)
Pow2(k) == IF k = 0 THEN 1 ELSE 2 * Pow2(k - 1)

\* Spec (sections 4.2 and 8): the k-th wait lasts 2^k seconds up to a
\* ceiling of 30 s.  msleep counts milliseconds; the worker passes jiffies.
SleepsLastSpecDelay ==
    \A k \in 1..Len(slept) : slept[k] = MinOf(Pow2(k), 30) * 1000

\* Spec (section 3): at most one live socket per session.  The worker's
\* test of dev->connected and a user's GET_STATUS both see 0, and both
\* connect.
AtMostOneSocket == nLive <= 1

\* vpci_device_exit leaves no socket (nor the kthreads that use it) behind
\* on the device it is about to free.  It disconnects before it waits for
\* the reconnect worker, which connects after the check.
ExitReleasesSocket == epc = "exited" => atExit = 0
\* vpci_remove returns: device exit's cancel_work_sync waits for the
\* reconnect worker, which leaves its loop only once a connect succeeds.
\* MaxAttempts failed attempts stand for a peer that stays away.
ExitCompletes == (epc = "cancel") ~> (epc = "exited")
====

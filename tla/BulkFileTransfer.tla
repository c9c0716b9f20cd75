--------------------------- MODULE BulkFileTransfer ---------------------------
(***************************************************************************)
(* The file download protocol between libusb_getfile.c, run on the USB    *)
(* host, and rawbulk_server.c, run on the gadget.  The host sends a file  *)
(* name on the bulk OUT endpoint and then reads bulk IN transfers of 1024 *)
(* bytes into the file it saves, until a transfer brings fewer than 512.  *)
(* The server reads a name, and if /mnt/firmware/<name> is readable sends *)
(* it in writes of BUFFER_SIZE = 512 bytes, stopping after a short one.   *)
(*                                                                         *)
(* A served file is a number of full 512-byte blocks and perhaps a short  *)
(* tail; each write is one bulk packet, named by its file and index.  A   *)
(* gadget write blocks until the host has taken the packet, so at most    *)
(* one packet is in flight (`slot`).  An IN transfer ends when 1024 bytes *)
(* (two full packets) or a short packet have arrived, or when its 5000 ms *)
(* timeout expires with what it has so far.                                *)
(***************************************************************************)
EXTENDS Integers, Sequences, SequencesExt

CONSTANTS
    Names,        \* file names the host may ask for
    Served,       \* name -> [full |-> n, tail |-> b], or Missing
    Missing,      \* access(file_name_path, R_OK) fails
    MaxSessions,  \* runs of libusb_getfile
    SlowServer,   \* the server may take longer than the host's timeout
    MayUnplug,    \* the gadget may be detached while the programs run
    FdLimit       \* descriptors rawbulk_server can still open (RLIMIT_NOFILE)

ASSUME MaxSessions \in Nat /\ SlowServer \in BOOLEAN /\ MayUnplug \in BOOLEAN
ASSUME FdLimit \in Nat

NoPacket == [file |-> "none", idx |-> 0, full |-> FALSE]

\* The packets the server writes for a file: its full blocks, then its tail.
Packets(n) ==
    IF Served[n] = Missing THEN <<>>
    ELSE [i \in 1..(Served[n].full + (IF Served[n].tail THEN 1 ELSE 0)) |->
            [file |-> n, idx |-> i, full |-> i <= Served[n].full]]

VARIABLES
    hpc,       \* libusb_getfile: "start", "recv", "done", "failed"
    req,       \* the name this run asked for
    saved,     \* packets written to save_fd, in order
    xfer,      \* packets in the IN transfer under way
    sessions,  \* runs of libusb_getfile so far
    spc,       \* rawbulk_server: "readReq" (reading a name) or "send"
    sfile,     \* the name the server is sending
    spos,      \* packets of sfile the server has read
    slot,      \* the packet of a blocked gadget write, or NoPacket
    big,       \* the host's `transferred` holds 512 or more
    plugged,   \* the gadget is attached to the host
    fds        \* files rawbulk_server has opened (it never closes file_fd)

vars == <<hpc, req, saved, xfer, sessions, spc, sfile, spos, slot, big, plugged, fds>>

Packet == [file : Names, idx : Nat, full : BOOLEAN]

TypeOK ==
    /\ hpc \in {"start", "recv", "done", "failed"}
    /\ req \in Names
    /\ saved \in Seq(Packet)
    /\ xfer \in Seq(Packet) /\ Len(xfer) <= 1
    /\ sessions \in 1..MaxSessions
    /\ spc \in {"readReq", "send"}
    /\ sfile \in Names
    /\ spos \in Nat
    /\ slot \in Packet \cup {NoPacket}
    /\ big \in BOOLEAN
    /\ plugged \in BOOLEAN
    /\ fds \in 0..FdLimit

Init ==
    /\ hpc = "start"
    /\ req \in Names
    /\ saved = <<>>
    /\ xfer = <<>>
    /\ sessions = 1
    /\ spc = "readReq"
    /\ sfile \in Names
    /\ spos = 0
    /\ slot = NoPacket
    /\ big = FALSE
    /\ plugged = TRUE
    /\ fds = 0

(***************************************************************************)
(* libusb_getfile.                                                         *)
(***************************************************************************)
\* rawbulk_server's main loop reading name n: a file access() refuses is
\* skipped with `continue`; otherwise open() takes a descriptor that is
\* never closed.  With none left it returns -1, which the check after it
\* misses (it tests dev_fd), and the send loop's first read(-1) fails, so
\* nothing is sent and the server reads the next name.
ServeRequest(n) ==
    IF Served[n] = Missing \/ fds = FdLimit THEN UNCHANGED <<spc, sfile, spos, fds>>
    ELSE spc' = "send" /\ sfile' = n /\ spos' = 0 /\ fds' = fds + 1

\* main up to the request: libusb_init, the device list, opening the
\* device, claiming interface 0 and creating the save file may each fail,
\* and main returns.  Otherwise the name is sent; the OUT transfer
\* completes only if the server is reading a name (its previous write has
\* been taken) and the gadget is attached, and main returns -1 otherwise;
\* `transferred` then holds strlen(fpath), under 512.
HostSend ==
    /\ hpc = "start"
    /\ \/ hpc' = "failed" /\ UNCHANGED <<spc, sfile, spos, fds>>
       \/ /\ plugged /\ spc = "readReq" /\ slot = NoPacket
          /\ hpc' = "recv"
          /\ ServeRequest(req)
    /\ big' = FALSE
    /\ UNCHANGED <<req, saved, xfer, sessions, slot, plugged>>

\* Mutant: the 1024-byte buffer is not treated as full after two packets.
HostReceive_noLimit ==
    /\ hpc = "recv"
    /\ slot # NoPacket
    /\ slot' = NoPacket
    /\ IF ~slot.full
         THEN /\ saved' = saved \o Append(xfer, slot)
              /\ xfer' = <<>>
              /\ hpc' = IF xfer = <<>> THEN "done" ELSE "recv"
              /\ big' = (xfer # <<>>)
         ELSE /\ xfer' = Append(xfer, slot)
              /\ UNCHANGED <<saved, hpc, big>>
    /\ UNCHANGED <<req, sessions, spc, sfile, spos, plugged, fds>>

\* The receive loop, a packet arriving: it completes the server's blocked
\* write.  A short packet, or a second full one, ends the transfer with
\* r = 0; its bytes are written to save_fd, and fewer than 512 of them
\* end the loop.
HostReceive ==
    /\ hpc = "recv"
    /\ slot # NoPacket
    /\ slot' = NoPacket
    /\ IF ~slot.full \/ Len(xfer) = 1
         THEN /\ saved' = saved \o Append(xfer, slot)
              /\ xfer' = <<>>
              /\ big' = (xfer # <<>> \/ slot.full)
              /\ hpc' = IF big' THEN "recv" ELSE "done"
         ELSE /\ xfer' = Append(xfer, slot)
              /\ UNCHANGED <<saved, hpc, big>>
    /\ UNCHANGED <<req, sessions, spc, sfile, spos, plugged, fds>>

\* Mutant: the loop ends only on a short transfer that succeeded.
HostTimeout_retry ==
    /\ hpc = "recv"
    /\ slot = NoPacket
    /\ SlowServer \/ spc = "readReq"
    /\ plugged
    /\ xfer' = <<>>
    /\ big' = (xfer # <<>>)
    /\ UNCHANGED <<hpc, req, saved, sessions, spc, sfile, spos, slot, plugged, fds>>

\* The receive loop, the 5000 ms timeout expiring: unless the server is
\* slow, it expires only when the server has nothing more to send.
\* libusb_bulk_transfer returns LIBUSB_ERROR_TIMEOUT with `transferred`
\* the bytes already received; they are not written, and fewer than 512
\* end the loop.
HostTimeout ==
    /\ hpc = "recv"
    /\ slot = NoPacket
    /\ SlowServer \/ spc = "readReq"
    /\ plugged
    /\ xfer' = <<>>
    /\ big' = (xfer # <<>>)
    /\ hpc' = IF big' THEN "recv" ELSE "done"
    /\ UNCHANGED <<req, saved, sessions, spc, sfile, spos, slot, plugged, fds>>

\* The receive loop once the gadget is gone: libusb_submit_transfer fails
\* with LIBUSB_ERROR_NO_DEVICE and libusb_bulk_transfer returns without
\* writing `transferred`, so the loop tests the value the last transfer
\* left there.
HostSubmitFail ==
    /\ hpc = "recv"
    /\ ~plugged
    /\ xfer' = <<>>
    /\ hpc' = IF big THEN "recv" ELSE "done"
    /\ UNCHANGED <<req, saved, sessions, spc, sfile, spos, slot, big, plugged, fds>>

\* libusb_getfile run again, asking for any name.
HostRestart ==
    /\ hpc \in {"done", "failed"}
    /\ sessions < MaxSessions
    /\ sessions' = sessions + 1
    /\ hpc' = "start"
    /\ req' \in Names
    /\ saved' = <<>>
    /\ xfer' = <<>>
    /\ UNCHANGED <<spc, sfile, spos, slot, big, plugged, fds>>

(***************************************************************************)
(* rawbulk_server.                                                         *)
(***************************************************************************)
\* The send loop: once the previous write has been taken, read() of the
\* file returns the next block, which write() puts on the endpoint; a read
\* at end of file, or the write of a short block, ends the loop and the
\* server reads the next name.
ServerSend ==
    /\ spc = "send"
    /\ plugged
    /\ slot = NoPacket
    /\ IF spos = Len(Packets(sfile))
         THEN spc' = "readReq" /\ UNCHANGED <<spos, slot>>
         ELSE LET p == Packets(sfile)[spos + 1] IN
              /\ slot' = p
              /\ spos' = spos + 1
              /\ spc' = IF p.full THEN "send" ELSE "readReq"
    /\ UNCHANGED <<hpc, req, saved, xfer, sessions, sfile, big, plugged, fds>>

\* The gadget is detached (cable pulled, or the function unbound).  The
\* server's write in progress, or its next one, fails and it breaks out to
\* reading a name; nothing is received any more.
Unplug ==
    /\ MayUnplug
    /\ plugged
    /\ plugged' = FALSE
    /\ spc' = "readReq"
    /\ slot' = NoPacket
    /\ UNCHANGED <<hpc, req, saved, xfer, sessions, sfile, spos, big, fds>>

Next ==
    \/ HostSend \/ HostReceive \/ HostTimeout \/ HostSubmitFail \/ HostRestart
    \/ ServerSend \/ Unplug

\* The scheduler runs both programs; the host's timer expires; the host
\* polls the endpoint while a transfer is under way.
Fairness ==
    /\ WF_vars(HostSend) /\ WF_vars(HostReceive) /\ WF_vars(HostTimeout)
    /\ WF_vars(HostSubmitFail)
    /\ WF_vars(ServerSend)

Spec == Init /\ [][Next]_vars /\ Fairness

(***************************************************************************)
(* Properties.                                                             *)
(***************************************************************************)
\* What libusb_getfile has saved is always the start of the file it asked
\* for: no block of another file (left on the endpoint by an earlier run)
\* and no gap (a block dropped with a timed-out transfer while later ones
\* are still written).
SavedIsPrefix == IsPrefix(saved, Packets(req))

\* A run of libusb_getfile that returns after its receive loop has saved
\* the whole file it asked for (a missing file reads as empty).
SavedIsComplete == hpc = "done" => saved = Packets(req)

\* Every run that got its request through eventually leaves the receive
\* loop while the gadget stays attached: a short transfer or the timeout
\* ends it.
ReceiveEnds == (hpc = "recv") ~> (hpc = "done" \/ ~plugged)

\* A run whose gadget goes away also leaves the receive loop: every
\* transfer fails, and the loop must see that.
UnplugEndsReceive == (hpc = "recv" /\ ~plugged) ~> (hpc = "done")
====

--------------------------- MODULE VpciDispatcher ---------------------------
(***************************************************************************)
(* vpci_packet_process and the handlers of virtual_pcie_pkt.c, run on the  *)
(* RX thread one packet at a time, against the address space of           *)
(* VpciAddressSpace, with vpci_bar_map / vpci_bar_unmap called by a        *)
(* collaborator at any time and vpci_device_exit at the end.               *)
(*                                                                         *)
(* A request is a decoded header: magic valid or not, type, address,       *)
(* length and session id; request number k carries seq_num k.  A memory    *)
(* request is two steps, the scan of the BAR table and the copy through    *)
(* bars[i].addr, because nothing orders them against a concurrent          *)
(* bar_map/bar_unmap.  Allocation failures are nondeterministic.           *)
(***************************************************************************)
EXTENDS VpciAddressSpace, Sequences

CONSTANTS
    MaxReq,         \* bound on packets processed
    MaxBarOps,      \* bound on vpci_bar_map / vpci_bar_unmap calls
    ReqAddrs,       \* header address values offered
    Lens,           \* header length values offered
    Sessions,       \* session ids a peer's HANDSHAKE may carry
    BarBases,       \* base arguments of vpci_bar_map
    BarSizes,       \* size arguments of vpci_bar_map
    IrqHandlerSet   \* dev->irq_handler is non-NULL

ASSUME MaxReq \in Nat /\ MaxBarOps \in Nat /\ ReqAddrs \subseteq Addrs /\ Lens \subseteq Nat
ASSUME BarBases \subseteq Addrs /\ BarSizes \subseteq Addrs /\ IrqHandlerSet \in BOOLEAN
ASSUME AddrBits % 2 = 0

Types == {"CONFIG_READ", "CONFIG_WRITE", "MEM_READ", "MEM_WRITE", "IRQ",
          "DMA_READ", "DMA_WRITE", "ACK", "NACK", "HANDSHAKE", "KEEPALIVE",
          "UNKNOWN"}

Requests ==
    [magic : {TRUE}, type : Types, addr : ReqAddrs, len : Lens, session : Sessions]
    \cup {[magic |-> FALSE, type |-> "KEEPALIVE", addr |-> 0, len |-> 0,
           session |-> CHOOSE s \in Sessions : TRUE]}

Codes == {"OK", "DATA", "EBADMSG", "ERANGE", "ENOMEM", "ENXIO", "EINVAL"}
Response == [type : {"ACK", "NACK"}, seq : 1..MaxReq, code : Codes]

\* u32 irq_num = be32_to_cpu(pkt->hdr.address): the __be64 field truncated
\* to 32 bits and byte-swapped.  On a little-endian build that is the high
\* half of the address.
IrqOf(addr) == addr \div 2^(AddrBits \div 2)

VARIABLES
    connected,    \* dev->connected, as vpci_packet_send reads it
    session_id,   \* dev->session_id
    handshakes,   \* complete(&dev->handshake_comp) calls
    errors,       \* dev->stats.errors
    out,          \* responses handed to the TX list, in order
    nReq,         \* packets processed so far
    irqs,         \* <<address, irq number>> passed to dev->irq_handler
    rxpc,         \* "idle" or "mem": a memory request between scan and copy
    cur,          \* that request, its seq and the slot the scan chose
    barOps        \* collaborator calls of vpci_bar_map / vpci_bar_unmap so far

dVars == <<connected, session_id, handshakes, errors, out, nReq, irqs, rxpc, cur>>
vars  == <<asVars, dVars, barOps>>

NoCur == [seq |-> 0]

TypeOK ==
    /\ ASTypeOK
    /\ connected \in BOOLEAN
    /\ session_id \in Sessions \cup {0}
    /\ handshakes \in 0..MaxReq
    /\ errors \in 0..MaxReq
    /\ out \in Seq(Response)
    /\ nReq \in 0..MaxReq
    /\ irqs \subseteq ReqAddrs \X Nat
    /\ rxpc \in {"idle", "mem"}
    /\ barOps \in 0..MaxBarOps
    /\ cur \in [req : Requests, seq : 1..MaxReq, slot : Slots, off : Addrs] \cup {NoCur}

Init ==
    /\ ASInit
    /\ connected \in BOOLEAN
    /\ session_id = 0
    /\ handshakes = 0
    /\ errors = 0
    /\ out = <<>>
    /\ nReq = 0
    /\ irqs = {}
    /\ rxpc = "idle"
    /\ cur = NoCur
    /\ barOps = 0

(***************************************************************************)
(* Sending.                                                                *)
(***************************************************************************)
\* vpci_packet_send: queued when connected, dropped otherwise.
Send(r) == out' = IF connected THEN Append(out, r) ELSE out

\* vpci_send_ack / vpci_send_nack: their own kzalloc/kmalloc may fail, and
\* then nothing is sent.
Reply(type, seq, code) ==
    \/ Send([type |-> type, seq |-> seq, code |-> code])
    \/ UNCHANGED out

(***************************************************************************)
(* Handlers.  Each leaves the address-space variables it does not name     *)
(* unchanged.                                                              *)
(***************************************************************************)
\* Mutant: no return after the out-of-bounds NACK.
HandleConfigRead_noReturn(p, seq) ==
    \/ /\ ~ConfigInRange(p.addr, p.len)
       /\ out' = out \o (IF connected
                           THEN << [type |-> "NACK", seq |-> seq, code |-> "ERANGE"],
                                   [type |-> "ACK", seq |-> seq, code |-> "DATA"] >>
                           ELSE <<>>)
       /\ accesses' = accesses \cup {CfgAccess(p.addr, p.len)}
    \/ /\ ConfigInRange(p.addr, p.len)
       /\ accesses' = accesses \cup {CfgAccess(p.addr, p.len)}
       /\ Send([type |-> "ACK", seq |-> seq, code |-> "DATA"])

\* vpci_handle_config_read: bounds, kmalloc(len), copy under dev->lock,
\* kzalloc(resp), ACK carrying the data.
HandleConfigRead(p, seq) ==
    IF ~ConfigInRange(p.addr, p.len)
      THEN /\ Reply("NACK", seq, "ERANGE")
           /\ UNCHANGED accesses
      ELSE \/ /\ Reply("NACK", seq, "ENOMEM")          \* kmalloc(len) failed
              /\ UNCHANGED accesses
           \/ /\ accesses' = accesses \cup {CfgAccess(p.addr, p.len)}
              /\ \/ Reply("NACK", seq, "ENOMEM")       \* kzalloc(resp) failed
                 \/ Send([type |-> "ACK", seq |-> seq, code |-> "DATA"])

\* vpci_handle_config_write.
HandleConfigWrite(p, seq) ==
    IF ~ConfigInRange(p.addr, p.len)
      THEN /\ Reply("NACK", seq, "ERANGE")
           /\ UNCHANGED accesses
      ELSE /\ accesses' = accesses \cup {CfgAccess(p.addr, p.len)}
           /\ Reply("ACK", seq, "OK")

\* vpci_handle_mem_read / _write up to the BAR scan of vpci_mem_read /
\* vpci_mem_write.  A found slot leaves the copy to MemCopy.
HandleMemStart(p, seq) ==
    LET i == FindBar(p.addr, p.len) IN
    \/ /\ p.type = "MEM_READ"                          \* kmalloc(len) failed
       /\ Reply("NACK", seq, "ENOMEM")
       /\ UNCHANGED <<rxpc, cur>>
    \/ /\ i = -1
       /\ Reply("NACK", seq, "ENXIO")
       /\ UNCHANGED <<rxpc, cur>>
    \/ /\ i # -1
       /\ rxpc' = "mem"
       /\ cur' = [req |-> p, seq |-> seq, slot |-> i, off |-> p.addr - bars[i].phys]
       /\ UNCHANGED out

\* vpci_handle_irq.
HandleIrq(p, seq) ==
    /\ irqs' = IF IrqHandlerSet THEN irqs \cup {<<p.addr, IrqOf(p.addr)>>} ELSE irqs
    /\ Reply("ACK", seq, "OK")

\* vpci_handle_handshake: adopt the peer's session id, complete, ACK.
HandleHandshake(p, seq) ==
    /\ session_id' = p.session
    /\ handshakes' = handshakes + 1
    /\ Reply("ACK", seq, "OK")

\* vpci_packet_process: the magic check, then the switch on the type.
Receive(p) ==
    LET seq == nReq + 1 IN
    /\ alive
    /\ rxpc = "idle"
    /\ nReq < MaxReq
    /\ nReq' = seq
    /\ \/ /\ ~p.magic
          /\ errors' = errors + 1
          /\ Reply("NACK", seq, "EBADMSG")
          /\ UNCHANGED <<accesses, session_id, handshakes, irqs, rxpc, cur>>
       \/ /\ p.magic
          /\ CASE p.type = "CONFIG_READ" ->
                    /\ HandleConfigRead(p, seq)
                    /\ UNCHANGED <<errors, session_id, handshakes, irqs, rxpc, cur>>
               [] p.type = "CONFIG_WRITE" ->
                    /\ HandleConfigWrite(p, seq)
                    /\ UNCHANGED <<errors, session_id, handshakes, irqs, rxpc, cur>>
               [] p.type \in {"MEM_READ", "MEM_WRITE"} ->
                    /\ HandleMemStart(p, seq)
                    /\ UNCHANGED <<accesses, errors, session_id, handshakes, irqs>>
               [] p.type = "IRQ" ->
                    /\ HandleIrq(p, seq)
                    /\ UNCHANGED <<accesses, errors, session_id, handshakes, rxpc, cur>>
               [] p.type = "HANDSHAKE" ->
                    /\ HandleHandshake(p, seq)
                    /\ UNCHANGED <<accesses, errors, irqs, rxpc, cur>>
               [] p.type \in {"ACK", "KEEPALIVE"} ->       \* wake_up / debug only
                    UNCHANGED <<accesses, errors, out, session_id, handshakes, irqs, rxpc, cur>>
               [] p.type = "NACK" ->
                    /\ errors' = errors + 1
                    /\ UNCHANGED <<accesses, out, session_id, handshakes, irqs, rxpc, cur>>
               [] OTHER ->                                  \* DMA_* and unknown types
                    /\ errors' = errors + 1
                    /\ Reply("NACK", seq, "EINVAL")
                    /\ UNCHANGED <<accesses, session_id, handshakes, irqs, rxpc, cur>>
    /\ UNCHANGED <<bars, bar_count, maps, nMaps, msize, alive, connected, barOps>>

\* The memcpy_fromio / memcpy_toio through dev->bars[i].addr + offset, then
\* the rest of the handler: a read allocates the response (may fail) and
\* ACKs with the data, a write ACKs.
MemCopy ==
    /\ rxpc = "mem"
    /\ accesses' = accesses \cup {BarAccess(cur.slot, cur.off, cur.req.len)}
    /\ IF cur.req.type = "MEM_READ"
         THEN \/ Reply("NACK", cur.seq, "ENOMEM")
              \/ Send([type |-> "ACK", seq |-> cur.seq, code |-> "DATA"])
         ELSE Reply("ACK", cur.seq, "OK")
    /\ rxpc' = "idle"
    /\ cur' = NoCur
    /\ UNCHANGED <<bars, bar_count, maps, nMaps, msize, alive,
                   connected, session_id, handshakes, errors, nReq, irqs, barOps>>

\* vpci_device_exit, after vpci_net_disconnect has stopped the RX thread.
DeviceExit ==
    /\ alive
    /\ rxpc = "idle"
    /\ DeviceExitBars
    /\ UNCHANGED <<nMaps, msize, accesses, dVars, barOps>>

\* A collaborator (the platform code holding the device) maps or unmaps a BAR.
BarCall ==
    /\ barOps < MaxBarOps
    /\ barOps' = barOps + 1
    /\ \/ \E i \in Slots, b \in BarBases, s \in BarSizes : BarMap(i, b, s)
       \/ \E i \in Slots : BarUnmap(i)
    /\ UNCHANGED dVars

Next ==
    \/ \E p \in Requests : Receive(p)
    \/ MemCopy
    \/ BarCall
    \/ DeviceExit

Spec == Init /\ [][Next]_vars

(***************************************************************************)
(* Properties.                                                             *)
(***************************************************************************)
\* A request is answered at most once, and an answer carries the seq_num of
\* the request it answers: every early return after a NACK in the handlers
\* is taken, and the memory handlers answer only after the copy.
AtMostOneResponse ==
    \A i, j \in 1..Len(out) : i # j => out[i].seq # out[j].seq

\* Spec (section 4.4): the IRQ callback gets the header's address field as
\* the IRQ number.
IrqIsAddress == \A e \in irqs : e[2] = e[1]

\* Spec (section 8): a MEM_READ outside every BAR is answered NACK "no such
\* address" and counted in dev->stats.errors.  vpci_handle_mem_read and
\* vpci_handle_mem_write send the -ENXIO NACK without touching the counter.
MemMissCounted ==
    Cardinality({k \in 1..Len(out) : out[k].code = "ENXIO"}) <= errors
====

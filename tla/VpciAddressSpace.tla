-------------------------- MODULE VpciAddressSpace --------------------------
(***************************************************************************)
(* The emulated address space of a device (virtual_pcie_shmem.c): the      *)
(* config buffer and the BAR table.  Addresses are u64 in the code; here   *)
(* they are AddrBits wide and every sum the code forms wraps modulo        *)
(* 2^AddrBits, which keeps the overflow cases of the bounds checks.        *)
(*                                                                         *)
(* An ioremap is a fresh mapping id; `maps` holds the ids not yet          *)
(* iounmapped and `msize` the size each was created with.  The bytes       *)
(* behind a mapping are not modelled; an access is recorded in `accesses`  *)
(* with where it lands.  The io-vs-memory flag of a BAR selects between    *)
(* two identical memcpy_fromio/memcpy_toio calls and is left out.          *)
(***************************************************************************)
EXTENDS Integers, FiniteSets

CONSTANTS
    AddrBits,     \* width of phys_addr_t / u64 address arithmetic
    ConfigSize,   \* dev->config_size (4096 in vpci_device_init)
    NBars,        \* VPCI_MAX_BARS
    MaxMaps       \* bound on successful ioremap calls

ASSUME AddrBits \in Nat \ {0} /\ ConfigSize \in 1..(2^AddrBits - 1)
ASSUME NBars \in Nat \ {0} /\ MaxMaps \in Nat

AddrSpace == 2^AddrBits
Addrs     == 0..(AddrSpace - 1)
Slots     == 0..(NBars - 1)
NoMap     == 0                              \* bars[i].addr == NULL
CfgRegion == -1                             \* region of a config-space copy
MapIds    == 1..MaxMaps

\* u64 addition as the C code computes it.
AddU(a, b) == (a + b) % AddrSpace

VARIABLES
    bars,         \* dev->bars[i]: phys_addr, size, addr (mapping id or NoMap)
    bar_count,    \* dev->bar_count
    maps,         \* ioremap'ed ids not yet iounmapped
    nMaps,        \* ioremap calls that succeeded
    msize,        \* size each mapping id was created with
    alive,        \* the device has not been through vpci_device_exit
    accesses      \* history of copies: region, mapping live, offset, length, limit

asVars == <<bars, bar_count, maps, nMaps, msize, alive, accesses>>

Bar        == [phys : Addrs, size : Addrs, addr : MapIds \cup {NoMap}]
EmptyBar   == [phys |-> 0, size |-> 0, addr |-> NoMap]
Access     == [region : {CfgRegion} \cup Slots, live : BOOLEAN, off : Addrs,
               len : Nat, lim : Nat]

ASTypeOK ==
    /\ bars \in [Slots -> Bar]
    /\ bar_count \in Int
    /\ maps \subseteq MapIds
    /\ nMaps \in 0..MaxMaps
    /\ msize \in [MapIds -> Addrs]
    /\ alive \in BOOLEAN
    /\ accesses \subseteq Access

ASInit ==
    /\ bars = [i \in Slots |-> EmptyBar]
    /\ bar_count = 0
    /\ maps = {}
    /\ nMaps = 0
    /\ msize = [m \in MapIds |-> 0]
    /\ alive = TRUE
    /\ accesses = {}

(***************************************************************************)
(* Bounds checks, as the code writes them.                                 *)
(***************************************************************************)
\* vpci_config_read/write and the config handlers: addr + len > config_size.
ConfigInRange(addr, len) == ~(AddU(addr, len) > ConfigSize)

\* Mutant: the lower bound of the window is not tested.
BarMatches_noLow(b, addr, len) ==
    /\ b.addr # NoMap
    /\ AddU(addr, len) <= AddU(b.phys, b.size)

\* The test of one slot in vpci_mem_read/write.
BarMatches(b, addr, len) ==
    /\ b.addr # NoMap
    /\ addr >= b.phys
    /\ AddU(addr, len) <= AddU(b.phys, b.size)

\* The linear scan: the first matching slot, or -1 for -ENXIO.
FindBar(addr, len) ==
    LET S == {i \in Slots : BarMatches(bars[i], addr, len)}
    IN  IF S = {} THEN -1 ELSE CHOOSE i \in S : \A j \in S : i <= j

\* A copy of len bytes at offset off of the config buffer.
CfgAccess(addr, len) ==
    [region |-> CfgRegion, live |-> TRUE, off |-> addr, len |-> len, lim |-> ConfigSize]

\* A copy through bars[i].addr + offset, recorded with the state of that
\* mapping at the moment of the copy.
BarAccess(i, off, len) ==
    [region |-> i, live |-> bars[i].addr \in maps, off |-> off, len |-> len,
     lim |-> IF bars[i].addr = NoMap THEN 0 ELSE msize[bars[i].addr]]

(***************************************************************************)
(* vpci_bar_unmap / vpci_bar_map as state transformers of one slot.        *)
(***************************************************************************)
Unmapped(i) == [bars EXCEPT ![i] = EmptyBar]

\* vpci_bar_unmap(dev, i): only a slot with a live addr is cleared/counted.
UnmapSlot(i) ==
    IF bars[i].addr # NoMap
      THEN /\ bars' = Unmapped(i)
           /\ maps' = maps \ {bars[i].addr}
           /\ bar_count' = bar_count - 1
      ELSE UNCHANGED <<bars, maps, bar_count>>

BarUnmap(i) ==
    /\ alive
    /\ UnmapSlot(i)
    /\ UNCHANGED <<nMaps, msize, alive, accesses>>

\* Mutant: a mapped slot is overwritten without vpci_bar_unmap first.
BarMap_noUnmap(i, base, size) ==
    /\ alive
    /\ \/ /\ size > 0
          /\ nMaps < MaxMaps
          /\ nMaps' = nMaps + 1
          /\ msize' = [msize EXCEPT ![nMaps + 1] = size]
          /\ bars' = [bars EXCEPT ![i] = [phys |-> base, size |-> size, addr |-> nMaps + 1]]
          /\ maps' = maps \cup {nMaps + 1}
          /\ bar_count' = bar_count + 1
       \/ /\ size = 0
          /\ bars' = [bars EXCEPT ![i] = [phys |-> base, size |-> 0, addr |-> NoMap]]
          /\ bar_count' = bar_count + 1
          /\ UNCHANGED <<maps, nMaps, msize>>
    /\ UNCHANGED <<alive, accesses>>

\* vpci_bar_map(dev, i, base, size) for a valid index (an invalid one
\* returns -EINVAL before touching anything).  An already mapped slot is
\* unmapped first; size 0 records phys/size and counts the BAR without a
\* mapping; a failed ioremap leaves phys/size set and returns -ENOMEM.
BarMap(i, base, size) ==
    /\ alive
    /\ LET old   == bars[i].addr
           bars1 == IF old # NoMap THEN Unmapped(i) ELSE bars
           maps1 == maps \ {old}
           cnt1  == IF old # NoMap THEN bar_count - 1 ELSE bar_count
       IN  \/ /\ size = 0
              /\ bars' = [bars1 EXCEPT ![i] = [phys |-> base, size |-> 0, addr |-> NoMap]]
              /\ maps' = maps1
              /\ bar_count' = cnt1 + 1
              /\ UNCHANGED <<nMaps, msize>>
           \/ /\ size > 0
              /\ nMaps < MaxMaps
              /\ nMaps' = nMaps + 1
              /\ msize' = [msize EXCEPT ![nMaps + 1] = size]
              /\ bars' = [bars1 EXCEPT ![i] = [phys |-> base, size |-> size, addr |-> nMaps + 1]]
              /\ maps' = maps1 \cup {nMaps + 1}
              /\ bar_count' = cnt1 + 1
           \/ /\ size > 0                            \* ioremap returned NULL
              /\ bars' = [bars1 EXCEPT ![i] = [phys |-> base, size |-> size, addr |-> NoMap]]
              /\ maps' = maps1
              /\ bar_count' = cnt1
              /\ UNCHANGED <<nMaps, msize>>
    /\ UNCHANGED <<alive, accesses>>

\* The BAR part of vpci_device_exit: vpci_bar_unmap(dev, 0) and (dev, 1).
DeviceExitBars ==
    LET gone == {bars[i].addr : i \in {0, 1} \cap Slots} \ {NoMap}
    IN  /\ bars' = [i \in Slots |-> IF i \in {0, 1} THEN EmptyBar ELSE bars[i]]
        /\ maps' = maps \ gone
        /\ bar_count' = bar_count - Cardinality(gone)
        /\ alive' = FALSE

(***************************************************************************)
(* Properties of the address space alone.                                  *)
(***************************************************************************)
\* Every live ioremap is held by exactly one BAR slot and every slot's addr
\* is live: vpci_bar_map unmaps a mapped slot before it maps it again, so a
\* replaced mapping is released, not leaked (spec section 8).
NoMappingLeak ==
    alive =>
      /\ maps = {bars[i].addr : i \in Slots} \ {NoMap}
      /\ \A i, j \in Slots : i # j /\ bars[i].addr # NoMap => bars[i].addr # bars[j].addr

\* dev->bar_count is the number of mapped BARs.
BarCountMatches == bar_count = Cardinality({i \in Slots : bars[i].addr # NoMap})

\* Spec (section 3): teardown force-unmaps all regions.
TeardownUnmapsAll == ~alive => maps = {}

\* Every byte a handler copies lies inside the buffer or the mapping it was
\* checked against: config offset + len <= config_size, BAR offset + len <=
\* the size the mapping was created with.
AccessesInBounds == \A a \in accesses : a.off + a.len <= a.lim

\* Every copy through a BAR goes through a mapping that is still live.
BarAccessLive == \A a \in accesses : a.live
====

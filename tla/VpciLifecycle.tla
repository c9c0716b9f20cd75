---------------------------- MODULE VpciLifecycle ----------------------------
(***************************************************************************)
(* The life of vpci_device objects (virtual_pcie_core.c): module init and  *)
(* exit register the char device and the platform driver; vpci_probe      *)
(* reserves an id in vpci_idr, allocates and initialises a device and      *)
(* publishes it; vpci_open finds it by minor number and takes a reference; *)
(* vpci_release drops it; vpci_remove tears the device down and frees it.  *)
(*                                                                         *)
(* A device object is a number (one per kzalloc); `freed` holds the ones   *)
(* kfree'd.  The transport a device runs is VpciTransport; here its        *)
(* teardown is a single step of vpci_remove.                               *)
(***************************************************************************)
EXTENDS Integers, FiniteSets

CONSTANTS
    Pdevs,      \* platform devices that may be bound to the driver
    Files,      \* open file descriptions of /dev/virtual_pcie*
    MaxDevs,    \* VPCI_MAX_DEVS: ids are 0..MaxDevs-1
    MaxObjs     \* bound on kzalloc'ed device objects

ASSUME MaxDevs \in Nat \ {0} /\ MaxObjs \in Nat

Ids      == 0..(MaxDevs - 1)
Objs     == 1..MaxObjs
NoObj    == 0
Free     == 0            \* no idr entry
Reserved == -1           \* idr_alloc(&vpci_idr, NULL, ...): id taken, no device
NoId     == -1

\* The registrations of vpci_core_init: those made before each one is
\* attempted, and those the error label it jumps to on failure undoes
\* (err_cdev falls through err_class to err_chrdev).
Regs     == {"chrdev", "class", "cdev", "driver"}
Before   == [chrdev |-> {}, class |-> {"chrdev"}, cdev |-> {"chrdev", "class"},
             driver |-> {"chrdev", "class", "cdev"}]
\* Mutant: cdev_add failing jumps to err_chrdev, past class_destroy.
Unwinds_skipClass ==
            [chrdev |-> {}, class |-> {"chrdev"}, cdev |-> {"chrdev"},
             driver |-> {"cdev", "class", "chrdev"}]
Unwinds  == [chrdev |-> {}, class |-> {"chrdev"}, cdev |-> {"class", "chrdev"},
             driver |-> {"cdev", "class", "chrdev"}]

VARIABLES
    regs,       \* registrations held by the module
    loaded,     \* vpci_core_init returned 0 and vpci_core_exit has not run
    idr,        \* vpci_idr: id -> Free, Reserved or a device object
    ppc,        \* per platform device: "unbound", "probing" or "bound"
    pid,        \* the id a probing or bound platform device holds
    drvdata,    \* platform_get_drvdata(pdev)
    nObj,       \* device objects allocated so far
    freed,      \* device objects kfree'd
    refcount,   \* dev->refcount of each object
    priv,       \* file->private_data of each file (NoObj: not open)
    count,      \* vpci_device_count
    heap        \* per object: its buffers not yet kfree'd (config, shmem)

vars == <<regs, loaded, idr, ppc, pid, drvdata, nObj, freed, refcount, priv, count, heap>>

Buffers == {"config", "shmem"}

TypeOK ==
    /\ regs \subseteq Regs
    /\ loaded \in BOOLEAN
    /\ idr \in [Ids -> {Free, Reserved} \cup Objs]
    /\ ppc \in [Pdevs -> {"unbound", "probing", "bound"}]
    /\ pid \in [Pdevs -> Ids \cup {NoId}]
    /\ drvdata \in [Pdevs -> Objs \cup {NoObj}]
    /\ nObj \in 0..MaxObjs
    /\ freed \subseteq Objs
    /\ refcount \in [Objs -> Int]
    /\ priv \in [Files -> Objs \cup {NoObj}]
    /\ count \in 0..MaxDevs
    /\ heap \in [Objs -> SUBSET Buffers]

Init ==
    /\ regs = {}
    /\ loaded = FALSE
    /\ idr = [i \in Ids |-> Free]
    /\ ppc = [p \in Pdevs |-> "unbound"]
    /\ pid = [p \in Pdevs |-> NoId]
    /\ drvdata = [p \in Pdevs |-> NoObj]
    /\ nObj = 0
    /\ freed = {}
    /\ refcount = [o \in Objs |-> 0]
    /\ priv = [f \in Files |-> NoObj]
    /\ count = 0
    /\ heap = [o \in Objs |-> {}]

\* vpci_put_id: idr_remove under vpci_idr_lock.
PutId(i) == idr' = [idr EXCEPT ![i] = Free]

\* Mutant: the shmem failure returns without kfree'ing the config space.
DeviceInit_noErrConfig(failed) ==
    CASE failed = "config" -> {}
      [] failed = "shmem"  -> {"config"}
      [] failed = "none"   -> Buffers

\* vpci_device_init: the buffers it leaves allocated when the allocation
\* of `failed` fails ("none": it returns 0).  config_space is allocated
\* first; a failed shmem allocation goes to err_config, which kfrees it.
DeviceInit(failed) ==
    CASE failed = "config" -> {}
      [] failed = "shmem"  -> {"config"} \ {"config"}
      [] failed = "none"   -> Buffers

\* vpci_device_exit's kfree(dev->shmem) and kfree(dev->config_space), for
\* each object in S.
FreeBuffers(S) == heap' = [o \in Objs |-> IF o \in S THEN {} ELSE heap[o]]

(***************************************************************************)
(* Module load and unload.                                                 *)
(***************************************************************************)
\* vpci_core_init: alloc_chrdev_region, class_create, cdev_add,
\* platform_driver_register, vpci_net_init; a registration r that fails
\* jumps to its error label, which unwinds Unwinds[r] of Before[r].
ModuleInit ==
    /\ ~loaded
    /\ \/ /\ regs' = Regs
          /\ loaded' = TRUE
       \/ \E r \in Regs :
            /\ regs' = Before[r] \ Unwinds[r]
            /\ UNCHANGED loaded
    /\ UNCHANGED <<idr, ppc, pid, drvdata, nObj, freed, refcount, priv, count, heap>>

\* vpci_core_exit: the module cannot be unloaded while a file is open (the
\* fops owner pins it) and platform_driver_unregister waits for a running
\* probe; it removes every bound device as vpci_remove does.
ModuleExit ==
    /\ loaded
    /\ \A f \in Files : priv[f] = NoObj
    /\ \A p \in Pdevs : ppc[p] # "probing"
    /\ LET bound == {p \in Pdevs : ppc[p] = "bound"} IN
       /\ freed' = freed \cup {drvdata[p] : p \in bound}
       /\ FreeBuffers({drvdata[p] : p \in bound})
       /\ count' = count - Cardinality(bound)
    /\ regs' = {}
    /\ loaded' = FALSE
    /\ idr' = [i \in Ids |-> Free]
    /\ ppc' = [p \in Pdevs |-> "unbound"]
    /\ pid' = [p \in Pdevs |-> NoId]
    /\ drvdata' = [p \in Pdevs |-> NoObj]
    /\ UNCHANGED <<nObj, refcount, priv>>

(***************************************************************************)
(* The platform driver.                                                    *)
(***************************************************************************)
\* vpci_probe up to vpci_get_free_id: idr_alloc takes the lowest free id;
\* with none free probe returns -ENODEV and nothing changes.
ProbeGetId(p) ==
    /\ loaded
    /\ ppc[p] = "unbound"
    /\ \E i \in Ids :
         /\ idr[i] = Free
         /\ \A j \in Ids : j < i => idr[j] # Free
         /\ idr' = [idr EXCEPT ![i] = Reserved]
         /\ pid' = [pid EXCEPT ![p] = i]
         /\ ppc' = [ppc EXCEPT ![p] = "probing"]
    /\ UNCHANGED <<regs, loaded, drvdata, nObj, freed, refcount, priv, count, heap>>

\* The rest of vpci_probe: kzalloc, vpci_device_init (refcount 1), then
\* idr_replace publishes the device.  Either allocation failing puts the id
\* back; a device_init failure also kfrees the object, after what
\* vpci_device_init itself freed.
ProbeInit(p) ==
    LET o == nObj + 1
        i == pid[p]
    IN
    /\ ppc[p] = "probing"
    /\ \/ /\ PutId(i)                                     \* kzalloc failed
          /\ ppc' = [ppc EXCEPT ![p] = "unbound"]
          /\ pid' = [pid EXCEPT ![p] = NoId]
          /\ UNCHANGED <<drvdata, nObj, freed, refcount, count, heap>>
       \/ /\ nObj < MaxObjs
          /\ nObj' = o
          /\ \E failed \in {"config", "shmem", "none"} :
               /\ heap' = [heap EXCEPT ![o] = DeviceInit(failed)]
               /\ IF failed # "none"                      \* err_idr
                    THEN /\ PutId(i)
                         /\ freed' = freed \cup {o}
                         /\ ppc' = [ppc EXCEPT ![p] = "unbound"]
                         /\ pid' = [pid EXCEPT ![p] = NoId]
                         /\ UNCHANGED <<drvdata, refcount, count>>
                    ELSE /\ idr' = [idr EXCEPT ![i] = o]
                         /\ drvdata' = [drvdata EXCEPT ![p] = o]
                         /\ refcount' = [refcount EXCEPT ![o] = 1]
                         /\ count' = count + 1
                         /\ ppc' = [ppc EXCEPT ![p] = "bound"]
                         /\ UNCHANGED <<freed, pid>>
    /\ UNCHANGED <<regs, loaded, priv>>

\* Mutant: vpci_device_count is not decremented.
Remove_noDec(p) ==
    /\ ppc[p] = "bound"
    /\ idr' = [idr EXCEPT ![pid[p]] = Free]
    /\ freed' = freed \cup {drvdata[p]}
    /\ FreeBuffers({drvdata[p]})
    /\ drvdata' = [drvdata EXCEPT ![p] = NoObj]
    /\ ppc' = [ppc EXCEPT ![p] = "unbound"]
    /\ pid' = [pid EXCEPT ![p] = NoId]
    /\ UNCHANGED <<regs, loaded, nObj, refcount, priv, count>>

\* Mutant: the id is not given back to the idr.
Remove_noPut(p) ==
    /\ ppc[p] = "bound"
    /\ freed' = freed \cup {drvdata[p]}
    /\ FreeBuffers({drvdata[p]})
    /\ count' = count - 1
    /\ drvdata' = [drvdata EXCEPT ![p] = NoObj]
    /\ ppc' = [ppc EXCEPT ![p] = "unbound"]
    /\ pid' = [pid EXCEPT ![p] = NoId]
    /\ UNCHANGED <<regs, loaded, idr, nObj, refcount, priv>>

\* vpci_remove (an unbind through sysfs, or module exit): vpci_device_exit,
\* vpci_put_id, kfree.  dev->refcount is not consulted.
Remove(p) ==
    /\ ppc[p] = "bound"
    /\ PutId(pid[p])
    /\ FreeBuffers({drvdata[p]})
    /\ freed' = freed \cup {drvdata[p]}
    /\ count' = count - 1
    /\ drvdata' = [drvdata EXCEPT ![p] = NoObj]
    /\ ppc' = [ppc EXCEPT ![p] = "unbound"]
    /\ pid' = [pid EXCEPT ![p] = NoId]
    /\ UNCHANGED <<regs, loaded, nObj, refcount, priv>>

(***************************************************************************)
(* The character device.                                                   *)
(***************************************************************************)
\* vpci_open: under vpci_idr_lock, idr_find(minor); a device found gets a
\* reference.  An unused or reserved minor returns -ENODEV.
Open(f) ==
    /\ loaded
    /\ priv[f] = NoObj
    /\ \E i \in Ids :
         /\ idr[i] \in Objs
         /\ priv' = [priv EXCEPT ![f] = idr[i]]
         /\ refcount' = [refcount EXCEPT ![idr[i]] = @ + 1]
    /\ UNCHANGED <<regs, loaded, idr, ppc, pid, drvdata, nObj, freed, count, heap>>

\* vpci_release: atomic_dec(&dev->refcount) on the file's device.
Release(f) ==
    /\ priv[f] # NoObj
    /\ refcount' = [refcount EXCEPT ![priv[f]] = @ - 1]
    /\ priv' = [priv EXCEPT ![f] = NoObj]
    /\ UNCHANGED <<regs, loaded, idr, ppc, pid, drvdata, nObj, freed, count, heap>>

Next ==
    \/ ModuleInit \/ ModuleExit
    \/ \E p \in Pdevs : ProbeGetId(p) \/ ProbeInit(p) \/ Remove(p)
    \/ \E f \in Files : Open(f) \/ Release(f)

Spec == Init /\ [][Next]_vars

(***************************************************************************)
(* Properties.                                                             *)
(***************************************************************************)
\* vpci_open can only find a live device, and finds each bound device at
\* the id its probe reserved: vpci_remove gives the id back before the
\* kfree, a failed probe gives it back too, and no two devices share an id.
IdrHoldsLiveDevices ==
    /\ \A i \in Ids : idr[i] \in Objs => idr[i] \notin freed
    /\ \A i, j \in Ids : i # j /\ idr[i] \in Objs => idr[i] # idr[j]
    /\ \A p \in Pdevs : ppc[p] = "bound" => idr[pid[p]] = drvdata[p]

\* A module that is not loaded holds no registration: every failure of
\* vpci_core_init is unwound by its error labels, and exit releases all.
UnloadedHoldsNothing == ~loaded => regs = {}

\* Every open file's device is still allocated: an open file pins the
\* device its private_data points to until vpci_release.  vpci_remove
\* frees the device whatever dev->refcount says.
\* Every config space and shared-memory buffer vpci_device_init allocated
\* belongs to a device that is still bound: a failure part-way through
\* device init frees what it allocated, and vpci_device_exit frees both at
\* remove and at module exit.
NoBufferLeak ==
    \A o \in Objs : heap[o] # {} => \E p \in Pdevs : drvdata[p] = o

FilesPinDevice == \A f \in Files : priv[f] = NoObj \/ priv[f] \notin freed
====

--------------------------- MODULE FakeAutosuspend ---------------------------
(***************************************************************************)
(* The fake_autosuspend sample: a module that registers a static platform  *)
(* device (device/main.c) and a module whose driver binds to it            *)
(* (driver/main.c, debugfs.c).  Probe allocates the driver-private data    *)
(* with devm_kzalloc, sets up autosuspend and creates the debugfs file     *)
(* suspend_state, whose private data is that object.  Reading the file     *)
(* reads priv->is_suspended; writing 1 or 0 takes or drops a runtime-PM    *)
(* usage reference without resuming or idling.                             *)
(*                                                                         *)
(* The runtime-PM core is kept to what the driver meets: the usage count,  *)
(* the disable depth, the runtime status, and the callbacks it calls.  A   *)
(* private object is a number (one per devm_kzalloc); `freed` holds those  *)
(* devres released.                                                        *)
(***************************************************************************)
EXTENDS Integers

CONSTANTS
    MaxPriv,       \* bound on devm_kzalloc'ed private objects
    MaxUsage,      \* bound on runtime-PM usage references taken through debugfs
    KernelChecks   \* whether the kernel refuses a usage count drop below 0

ASSUME MaxPriv \in Nat /\ MaxUsage \in Nat /\ KernelChecks \subseteq BOOLEAN

Privs  == 1..MaxPriv
NoPriv == 0

VARIABLES
    devReg,       \* the device module has registered my_platform_device
    drvReg,       \* the driver module has registered my_device_driver
    drvdata,      \* dev_get_drvdata: the bound driver's private object
    nPriv,        \* private objects allocated so far
    freed,        \* private objects released by devres at unbind
    isSusp,       \* priv->is_suspended of the current private object
    status,       \* dev->power.runtime_status: "suspended" or "active"
    depth,        \* dev->power.disable_depth
    usage,        \* dev->power.usage_count
    checked,      \* this kernel refuses to drop the usage count below 0
    asleep,       \* the system is in a sleep state
    dirExists,    \* debugfs holds the directory my_device_debugfs
    debugfsDir,   \* the driver's global debugfs_dir: "null", "dir" or "err"
    file,         \* private data of suspend_state (NoPriv: no file)
    staleUse      \* a debugfs read or write dereferenced a released object

vars == <<devReg, drvReg, drvdata, nPriv, freed, isSusp, status, depth, usage,
          checked, asleep, dirExists, debugfsDir, file, staleUse>>

Bound == drvdata # NoPriv

TypeOK ==
    /\ devReg \in BOOLEAN /\ drvReg \in BOOLEAN
    /\ drvdata \in Privs \cup {NoPriv}
    /\ nPriv \in 0..MaxPriv
    /\ freed \subseteq Privs
    /\ isSusp \in BOOLEAN
    /\ status \in {"suspended", "active"}
    /\ depth \in Nat
    /\ usage \in -1..MaxUsage
    /\ checked \in BOOLEAN
    /\ asleep \in BOOLEAN
    /\ dirExists \in BOOLEAN
    /\ debugfsDir \in {"null", "dir", "err"}
    /\ file \in Privs \cup {NoPriv}
    /\ staleUse \in BOOLEAN

\* Neither module is loaded; the kernel build decides the usage check.
Init ==
    /\ devReg = FALSE /\ drvReg = FALSE
    /\ drvdata = NoPriv
    /\ nPriv = 0
    /\ freed = {}
    /\ isSusp = FALSE
    /\ status = "suspended"
    /\ depth = 1
    /\ usage = 0
    /\ checked \in KernelChecks
    /\ asleep = FALSE
    /\ dirExists = FALSE
    /\ debugfsDir = "null"
    /\ file = NoPriv
    /\ staleUse = FALSE

\* Driver unbind.  The driver core resumes the device (pm_runtime_get_sync,
\* which calls my_device_runtime_resume) and drops that reference again
\* before my_device_remove, which does nothing; devres then releases priv.
\* Runtime PM is left enabled and the debugfs entries stay.
Unbind ==
    /\ IF depth = 0 /\ status = "suspended"
         THEN status' = "active" /\ isSusp' = FALSE
         ELSE UNCHANGED <<status, isSusp>>
    /\ freed' = freed \cup {drvdata}
    /\ drvdata' = NoPriv

\* remove_debugfs_entries: debugfs_remove_recursive ignores a NULL or error
\* pointer.
RemoveDebugfs ==
    IF debugfsDir = "dir"
      THEN dirExists' = FALSE /\ file' = NoPriv
      ELSE UNCHANGED <<dirExists, file>>

\* The usage count after pm_runtime_put_autosuspend: a kernel that checks
\* refuses to go below 0 (and warns); an older one goes to -1.
UsageDrop(u, chk) == IF u > 0 \/ ~chk THEN u - 1 ELSE u

\* create_debugfs_entries(priv): debugfs_create_dir returns ERR_PTR(-EEXIST),
\* not NULL, when the directory is still there, so the NULL check passes and
\* debugfs_create_file under the error pointer creates nothing.
CreateDebugfs(o) ==
    IF dirExists
      THEN /\ debugfsDir' = "err"
           /\ UNCHANGED <<dirExists, file>>
      ELSE /\ debugfsDir' = "dir"
           /\ dirExists' = TRUE
           /\ file' = o

(***************************************************************************)
(* Module load and unload.                                                 *)
(***************************************************************************)
\* device/main.c my_device_init: platform_device_register; device_initialize
\* (re)initialises runtime PM: suspended, disabled once, no users.
DevRegister ==
    /\ ~asleep
    /\ ~devReg
    /\ devReg' = TRUE
    /\ status' = "suspended" /\ depth' = 1 /\ usage' = 0
    /\ UNCHANGED <<drvReg, drvdata, nPriv, freed, isSusp, checked, asleep,
                   dirExists, debugfsDir, file, staleUse>>

\* device/main.c my_device_exit: platform_device_unregister unbinds the
\* driver first.
DevUnregister ==
    /\ ~asleep
    /\ devReg
    /\ devReg' = FALSE
    /\ IF Bound THEN Unbind ELSE UNCHANGED <<freed, drvdata, status, isSusp>>
    /\ UNCHANGED <<drvReg, nPriv, depth, usage, checked, asleep,
                   dirExists, debugfsDir, file, staleUse>>

\* driver/main.c my_device_init: platform_driver_register; the module's
\* debugfs_dir starts NULL.
DrvRegister ==
    /\ ~asleep
    /\ ~drvReg
    /\ drvReg' = TRUE
    /\ debugfsDir' = "null"
    /\ UNCHANGED <<devReg, drvdata, nPriv, freed, isSusp, status, depth, usage,
                   checked, asleep, dirExists, file, staleUse>>

\* driver/main.c my_device_exit: remove_debugfs_entries, whose
\* debugfs_remove_recursive ignores a NULL or error pointer, then
\* platform_driver_unregister unbinds the device.
DrvUnregister ==
    /\ ~asleep
    /\ drvReg
    /\ drvReg' = FALSE
    /\ RemoveDebugfs
    /\ IF Bound THEN Unbind ELSE UNCHANGED <<freed, drvdata, status, isSusp>>
    /\ UNCHANGED <<devReg, nPriv, depth, usage, checked, asleep,
                   debugfsDir, staleUse>>

(***************************************************************************)
(* The driver.                                                             *)
(***************************************************************************)
\* Mutant: the enable is counted whatever the disable depth.
Probe_unbalancedEnable ==
    /\ ~asleep
    /\ devReg /\ drvReg /\ ~Bound
    /\ nPriv < MaxPriv
    /\ LET o == nPriv + 1 IN
       /\ nPriv' = o
       /\ drvdata' = o
       /\ isSusp' = TRUE
       /\ depth' = depth - 1
       /\ usage' = UsageDrop(usage, checked)
       /\ CreateDebugfs(o)
    /\ UNCHANGED <<devReg, drvReg, freed, status, checked, asleep, staleUse>>

\* my_device_probe: devm_kzalloc (or -ENOMEM); is_suspended = true;
\* pm_runtime_enable (a second enable only warns); pm_runtime_put_autosuspend
\* with no reference taken; create_debugfs_entries.  A failed devm_kzalloc
\* returns -ENOMEM and changes nothing.
Probe ==
    /\ ~asleep
    /\ devReg /\ drvReg /\ ~Bound
    /\ nPriv < MaxPriv
    /\ LET o == nPriv + 1 IN
       /\ nPriv' = o
       /\ drvdata' = o
       /\ isSusp' = TRUE
       /\ depth' = IF depth > 0 THEN depth - 1 ELSE 0
       /\ usage' = UsageDrop(usage, checked)
       /\ CreateDebugfs(o)
    /\ UNCHANGED <<devReg, drvReg, freed, status, checked, asleep, staleUse>>

\* Unbind through sysfs.
SysfsUnbind ==
    /\ ~asleep
    /\ Bound
    /\ Unbind
    /\ UNCHANGED <<devReg, drvReg, nPriv, depth, usage, checked,
                   asleep, dirExists, debugfsDir, file, staleUse>>

\* debugfs_read_suspend_count: reads priv->is_suspended.
DebugfsRead ==
    /\ ~asleep
    /\ file # NoPriv
    /\ staleUse' = (staleUse \/ file \in freed)
    /\ UNCHANGED <<devReg, drvReg, drvdata, nPriv, freed, isSusp, status, depth,
                   usage, checked, asleep, dirExists, debugfsDir, file>>

\* debugfs_write_suspend_count: reads priv->dev; "1" is
\* pm_runtime_get_noresume, "0" is pm_runtime_put_noidle, which never takes
\* the count from 0.  Other input returns -EINVAL and changes nothing.
DebugfsWrite ==
    /\ ~asleep
    /\ file # NoPriv
    /\ staleUse' = (staleUse \/ file \in freed)
    /\ \/ /\ usage < MaxUsage
          /\ usage' = usage + 1
       \/ usage' = IF usage # 0 THEN usage - 1 ELSE usage
    /\ UNCHANGED <<devReg, drvReg, drvdata, nPriv, freed, isSusp, status, depth,
                   checked, asleep, dirExists, debugfsDir, file>>

(***************************************************************************)
(* The PM core calling the driver's callbacks.                             *)
(***************************************************************************)
\* Autosuspend expiry: rpm_suspend with no usage reference held; the
\* platform bus calls my_device_runtime_suspend if the driver is bound.
RuntimeSuspend ==
    /\ ~asleep
    /\ devReg /\ depth = 0 /\ status = "active" /\ usage <= 0
    /\ status' = "suspended"
    /\ isSusp' = (Bound \/ isSusp)
    /\ UNCHANGED <<devReg, drvReg, drvdata, nPriv, freed, depth, usage, checked,
                   asleep, dirExists, debugfsDir, file, staleUse>>

\* A runtime resume requested from outside the driver (power/control, a
\* synchronous get): my_device_runtime_resume if the driver is bound.
RuntimeResume ==
    /\ ~asleep
    /\ devReg /\ depth = 0 /\ status = "suspended"
    /\ status' = "active"
    /\ isSusp' = (~Bound /\ isSusp)
    /\ UNCHANGED <<devReg, drvReg, drvdata, nPriv, freed, depth, usage, checked,
                   asleep, dirExists, debugfsDir, file, staleUse>>

\* System sleep: my_device_suspend, and on wake-up my_device_resume.  With
\* no prepare callback the core calls both even for a runtime-suspended
\* device, and leaves the runtime status as it was.
SystemSuspend ==
    /\ ~asleep
    /\ Bound
    /\ asleep' = TRUE
    /\ isSusp' = TRUE
    /\ UNCHANGED <<devReg, drvReg, drvdata, nPriv, freed, status, depth, usage,
                   checked, dirExists, debugfsDir, file, staleUse>>

\* Mutant: my_device_resume leaves is_suspended set.
SystemResume_noClear ==
    /\ asleep
    /\ asleep' = FALSE
    /\ UNCHANGED <<devReg, drvReg, drvdata, nPriv, freed, isSusp, status, depth,
                   usage, checked, dirExists, debugfsDir, file, staleUse>>

SystemResume ==
    /\ asleep
    /\ asleep' = FALSE
    /\ isSusp' = FALSE
    /\ UNCHANGED <<devReg, drvReg, drvdata, nPriv, freed, status, depth, usage,
                   checked, dirExists, debugfsDir, file, staleUse>>

\* While the system sleeps, tasks are frozen and nothing but the resume
\* runs: every other action requires ~asleep.
Next ==
    \/ DevRegister \/ DevUnregister \/ DrvRegister \/ DrvUnregister
    \/ Probe \/ SysfsUnbind
    \/ DebugfsRead \/ DebugfsWrite
    \/ RuntimeSuspend \/ RuntimeResume \/ SystemSuspend \/ SystemResume

Spec == Init /\ [][Next]_vars
(***************************************************************************)
(* Properties.                                                             *)
(***************************************************************************)
\* The runtime-PM usage count never goes below zero: probe drops a
\* reference it never took (pm_runtime_put_autosuspend), which only a
\* kernel's underflow check absorbs.
UsageNeverNegative == usage >= 0

\* A debugfs read or write never dereferences a private object devres has
\* released: the suspend_state file lives as long as its private data.
DebugfsUsesLivePriv == ~staleUse

\* While the driver is bound and the system awake, priv->is_suspended, which
\* debugfs reports, agrees with the runtime-PM status.
FlagTracksStatus == Bound /\ ~asleep => (isSusp <=> status = "suspended")
====

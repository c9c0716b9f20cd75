\* As FakeAutosuspend_safety.cfg.  DebugfsUsesLivePriv is violated: after a
\* sysfs unbind (or unloading the device module) the suspend_state file still
\* points at the private data devres released, and a read dereferences it.
CONSTANTS
    MaxPriv = 3
    MaxUsage = 2
    KernelChecks <- MCChecked
SPECIFICATION Spec
INVARIANT DebugfsUsesLivePriv

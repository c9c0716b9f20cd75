\* Both modules loaded and unloaded in any order, unbind and rebind through
\* sysfs, debugfs reads and writes, runtime and system suspend, on a kernel
\* that checks usage-count underflow.  Three private objects cover a bind,
\* a rebind and a bind after the driver module is reloaded.
CONSTANTS
    MaxPriv = 3
    MaxUsage = 2
    KernelChecks <- MCChecked
SPECIFICATION Spec
INVARIANTS TypeOK

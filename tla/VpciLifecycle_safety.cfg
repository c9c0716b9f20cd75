\* Three platform devices competing for two ids (so a probe can find the idr
\* full), two open files, five device objects so that probes fail, succeed
\* and repeat after removes.  Platform devices and files are symmetric.
CONSTANTS
    Pdevs = {p1, p2, p3}
    Files = {f1, f2}
    MaxDevs = 2
    MaxObjs = 5
SPECIFICATION Spec
SYMMETRY MCSymmetry
INVARIANTS TypeOK IdrHoldsLiveDevices UnloadedHoldsNothing NoBufferLeak

--------------------------- MODULE MCVpciLifecycle ---------------------------
EXTENDS VpciLifecycle, TLC

\* Platform devices and open files are interchangeable.
MCSymmetry == Permutations(Pdevs) \cup Permutations(Files)
====

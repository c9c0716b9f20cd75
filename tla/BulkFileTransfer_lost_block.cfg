\* Three runs with the gadget attached throughout, a server that answers
\* within the timeout and has a descriptor for every run; checking that a
\* finished run saved the whole file.
CONSTANTS
    n1 = n1
    n2 = n2
    n3 = n3
    absent = absent
    Missing = Missing
    Names <- MCNames
    Served <- MCServed
    MaxSessions = 3
    SlowServer = FALSE
    MayUnplug = FALSE
    FdLimit = 3
SPECIFICATION Spec
INVARIANT SavedIsComplete
CHECK_DEADLOCK FALSE

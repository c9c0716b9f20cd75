\* Three runs of libusb_getfile against rawbulk_server, any name each time;
\* the server answers within the host's timeout, has descriptors for two
\* files, and the gadget may be detached at any point.  The server then
\* waits for a name for ever, so a final state is not a deadlock.
CONSTANTS
    n1 = n1
    n2 = n2
    n3 = n3
    absent = absent
    Missing = Missing
    Names <- MCNames
    Served <- MCServed
    MaxSessions = 3
    SlowServer = FALSE
    MayUnplug = TRUE
    FdLimit = 2
SPECIFICATION Spec
INVARIANTS TypeOK
PROPERTIES ReceiveEnds
CHECK_DEADLOCK FALSE

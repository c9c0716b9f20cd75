\* Both files open; every read may fail mid-file, every write may be whole,
\* short or fail, the host may send two packets to echo, and either child
\* may be killed.  The program ends, so a final state is not a deadlock.
CONSTANTS
    Chunks = 2
    MaxEcho = 2
    MayFailOpen <- MCOpenOk
SPECIFICATION Spec
INVARIANTS TypeOK
PROPERTIES ParentReaps
CHECK_DEADLOCK FALSE

\* One build (HZ = 250).  ExitReleasesSocket is violated: vpci_device_exit
\* finds connected = 0 and skips the disconnect, then cancel_work_sync
\* waits for the reconnect worker, whose connect succeeds.
CONSTANTS
    HZs <- MCHZ250
    MaxAttempts = 3
SPECIFICATION Spec
INVARIANT ExitReleasesSocket

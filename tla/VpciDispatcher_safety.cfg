CONSTANTS
    AddrBits = 4
    ConfigSize = 8
    NBars = 3
    MaxMaps = 2
    MaxReq = 2
    MaxBarOps = 2
    ReqAddrs <- MCReqAddrs
    Lens <- MCLens
    Sessions <- MCSessions
    BarBases <- MCBarBases
    BarSizes <- MCBarSizes
    IrqHandlerSet = TRUE
SPECIFICATION Spec
\* Every run ends in vpci_device_exit, after which nothing is enabled.
CHECK_DEADLOCK FALSE
INVARIANTS TypeOK NoMappingLeak AtMostOneResponse

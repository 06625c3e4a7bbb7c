SPECIFICATION MonitorFairSpec
CONSTANTS
    Environments <- Surroundings
    MaxChange = 1
    Fingerprint <- AllDiffer
    NoBlob = {}
    TooBig = {}
    MaxFault = 1
    MaxStart = 1
    MaxStop = 0
    MaxCrash = 0
    MaxManual = 0
    MaxRefreshQueue = 0
INVARIANTS
    TroubleIsShown
PROPERTIES
    PublishIsVerified
    MonitorMakesCurrent
CHECK_DEADLOCK FALSE

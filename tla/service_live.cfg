SPECIFICATION FairSpec
CONSTANTS
    MaxChange = 2
    Fingerprint <- Returning
    NoBlob = {}
    TooBig = {}
    MaxFault = 2
    MaxStart = 2
    MaxStop = 0
    MaxCrash = 1
    MaxManual = 0
    MaxRefreshQueue = 1
PROPERTIES
    EventuallyCurrent
    ErrorClears
    RefreshMakesCurrent
CHECK_DEADLOCK FALSE

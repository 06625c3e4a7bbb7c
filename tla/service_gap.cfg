SPECIFICATION FairSpec
CONSTANTS
    MaxChange = 1
    Fingerprint <- Distinct
    NoBlob = {}
    TooBig = {}
    MaxFault = 1
    MaxStart = 1
    MaxStop = 0
    MaxCrash = 0
    MaxManual = 0
    MaxRefreshQueue = 0
PROPERTIES
    GapsAreCovered
CHECK_DEADLOCK FALSE

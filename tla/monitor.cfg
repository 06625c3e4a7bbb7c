SPECIFICATION MonitorSpec
CONSTANTS
    Environments <- Surroundings
    MaxChange = 1
    Fingerprint <- AllDiffer
    NoBlob = {}
    TooBig = {}
    MaxFault = 1
    MaxStart = 1
    MaxStop = 1
    MaxCrash = 0
    MaxManual = 1
    MaxRefreshQueue = 0
INVARIANTS
    VerifyingHasARun
    HealingHasAJob
    AnswersAreFresh
PROPERTIES
    VerdictIsTimely
VIEW SafetyView
CHECK_DEADLOCK FALSE

SPECIFICATION Spec
CONSTANTS
    MaxChange = 3
    Fingerprint <- Returning
    NoBlob = {0}
    TooBig = {}
    MaxFault = 2
    MaxStart = 2
    MaxStop = 1
    MaxCrash = 0
    MaxManual = 1
    MaxRefreshQueue = 0
INVARIANTS
    OneSubscription
    NeverStuckWorking
    RecoveryIsScheduled
    SuccessWasPublished
    QuietIsCurrent
PROPERTIES
    RefusedOnlyWhenInterrupted
CHECK_DEADLOCK FALSE

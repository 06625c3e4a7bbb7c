SPECIFICATION Spec
CONSTANTS
    Messages <- TwoMessages
    Rejects <- OneReject
    MaxLines = 3
INVARIANTS
    LinesAreHandledAtOnce
    EndIsReportedOnce
PROPERTIES
    DeathIsReported
    CallSettles
CHECK_DEADLOCK FALSE

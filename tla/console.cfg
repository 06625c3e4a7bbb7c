SPECIFICATION FairSpec
CONSTANTS
    p1 = p1
    p2 = p2
    Page <- TwoPages
    MaxClients = 1
    MaxBuffered = 2
    MaxLines = 1
    MaxOutput = 2
    MaxRun = 2
    MaxRefused = 1
    MaxBreak = 1
INVARIANTS
    OneDrill
    RunIsWellFormed
    PagesFollowTheRun
    NoButtonIsLost
PROPERTIES
    ButtonReturns
CHECK_DEADLOCK FALSE

SPECIFICATION SystemSpec
CONSTANTS
    r1 = r1
    r2 = r2
    p1 = p1
    Relay <- TwoRelays
    Configured <- TwoRelays
    Ids = {1, 2, 3}
    Leftovers <- OldAndAhead
    MaxNow = 2
    MaxPublish = 2
    MaxStart = 2
    MaxSwitch = 1
    MaxFault = 1
    Rounds = 1
    Peers <- OnePeer
INVARIANTS
    AckedIsHeld
    ImportIsReported
PROPERTIES
    RestoreIsRecent
CHECK_DEADLOCK FALSE

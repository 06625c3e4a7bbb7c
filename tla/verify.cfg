SPECIFICATION FairSpec
CONSTANTS
    NumRelays = 2
    Events <- AllEvents
    MaxEvents = 2
    Now = 2
    Sets <- TheSets
INVARIANTS
    SelectionFollowsTheRules
    VerifiedIsProven
    OkMeansRestorable
PROPERTIES
    VerificationEnds
CHECK_DEADLOCK FALSE

SPECIFICATION Spec
CONSTANTS
    Here = Here
    There = There
    Afar = Afar
    Alice = Alice
    Bob = Bob
    Url <- MCUrl
    Loopback = {Here}
    Configured = {There}
    MaxRelays = 2
    Client <- MCClient
    Tester <- MCTester
    Inputs <- MCInputs
    Workloads = {{"relays", "check", "publish"}, {"test body", "publish"}}
    MaxRequest = 2
    MaxFault = 1
    Environments <- MCOnMainnet
CHECK_DEADLOCK FALSE
INVARIANTS
    MainnetIsDeliberate

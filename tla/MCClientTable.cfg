CONSTANTS
    w1 = w1
    w2 = w2
    l1 = l1
    m1 = m1
    ClientsOf <- MCAll
    MaxClients <- MCOneSlotEach
    Targets = {}
    MaxFd = 4
    NoClient = NoClient
SPECIFICATION Spec
INVARIANTS
    FdsOwnedOnce
PROPERTIES
    OnlyNamedAreDisconnected
CHECK_DEADLOCK FALSE

CONSTANTS
    w1 = w1
    w2 = w2
    l1 = l1
    m1 = m1
    ClientsOf <- MCWorkersOnly
    MaxClients <- MCOneSlotEach
    Targets = {w1}
    MaxFd = 4
    NoClient = NoClient
SPECIFICATION Spec
INVARIANTS
    FreeSlotMeansRoom
CHECK_DEADLOCK FALSE

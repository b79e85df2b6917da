CONSTANTS
    w1 = w1
    w2 = w2
    l1 = l1
    m1 = m1
    ClientsOf <- MCOneWorker
    MaxClients <- MCTwoWorkerSlots
    Targets = {w1, m1}
    MaxFd = 2
    NoClient = NoClient
SPECIFICATION Spec
INVARIANTS
    TypeOK
    NoWorkerIgnored
CHECK_DEADLOCK FALSE

CONSTANTS
    a1 = a1
    a2 = a2
    b1 = b1
    b2 = b2
    c1 = c1
    Workers <- MCOneWorkerEach
    MaxWorkers <- MCOneSlotEach
    Pins = {p1, p2, p3}
    QueueSize = 2
    SocketBuffer = 1
    NoClient = NoClient
    NoPin = NoPin
SPECIFICATION FairSpec
PROPERTIES
    PinsMoveOn
CHECK_DEADLOCK FALSE

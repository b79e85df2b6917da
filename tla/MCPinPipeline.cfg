CONSTANTS
    a1 = a1
    a2 = a2
    b1 = b1
    b2 = b2
    c1 = c1
    Workers <- MCWorkers
    MaxWorkers <- MCMaxWorkers
    Pins = {p1, p2, p3}
    QueueSize = 2
    SocketBuffer = 1
    NoClient = NoClient
    NoPin = NoPin
SYMMETRY MCPinsAlike
SPECIFICATION Spec
INVARIANTS
    TypeOK
    TablesAgree
    PinInOnePlace
PROPERTIES
    PinsVanishForAReason
CHECK_DEADLOCK FALSE

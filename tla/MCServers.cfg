SPECIFICATION MCSpec
CONSTANTS
    WorkersConnected = TRUE
    SignalAt = {"create", "record", "check", "toaccept", "accept", "insert", "checkout", "join", "tell", "sleep", "deinit", "failed"}
    Clients = {c1, c2, c3}
    MaxWorkers = 1
    QueueSize = 2
    MaxPins = 3
    SocketBuffer = 1
    c1 = c1
    c2 = c2
    c3 = c3
    NoClient = NoClient
INVARIANTS
    ThreadsTypeOK
    ThreadsEndBeforeDeinit
    OnlyCancelOrphansTheMutex
    WorkersAreTold
    ClientsAreRight
PROPERTIES
    ImplementsServer
    ProgramsEnd
CHECK_DEADLOCK FALSE

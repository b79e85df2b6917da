SPECIFICATION MCSpec
CONSTANTS
    FirstWorkers = {a}
    SecondWorkers = {b1, b2}
    ThirdWorkers = {c}
    Pins = {p1, p2, p3}
    NoPin = NoPin
    Size = 2
    Marks = {"4-5", "6-7"}
    EarlyInterrupt = {"6-7"}
    Killable <- MCKillable
    Watched = {p1}
    Programs = {"8", "9", "10"}
    ResourcePins = {p1}
    ResourceSize = 1
INVARIANTS
    SemaphoresAddUp
    ResourcesFollowUsers
PROPERTIES
    ImplementsPinLine
    PinsReachUsers
CHECK_DEADLOCK FALSE

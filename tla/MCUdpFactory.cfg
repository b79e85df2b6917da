SPECIFICATION MCSpec
CONSTANTS
    f = f
    s1 = s1
    s2 = s2
    t = t
    l = l
    m1 = m1
    First = {f}
    Second = {s1, s2}
    Third = {t}
    Collectors = {l}
    Managers = {m1}
    QueueSize = 1
    MaxPins = 1
    Asked = {"second", "manager"}
    MaxCommands = 2
    MaxFaults = 1
INVARIANTS
    TypeOK
    MessagesAreRight
PROPERTIES
    PinsSurviveFullQueue
    ResultIsOwn
    ProgramsEnd
CHECK_DEADLOCK FALSE

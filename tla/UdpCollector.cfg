SPECIFICATION MCSpec
CONSTANTS
    f = f
    s1 = s1
    s2 = s2
    t = t
    l = l
    m1 = m1
    First = {f}
    Second = {s1, s2}
    Third = {t}
    Collectors = {l}
    Managers = {m1}
    QueueSize = 1
    Asked = {"second", "manager"}
    MaxPins = 1
    MaxCommands = 2
    MaxFaults = 1
PROPERTIES
    CollectorEnds
CHECK_DEADLOCK FALSE

\* Two streams that reconnect to each other's names, with one name or two.
SPECIFICATION Spec
CONSTANTS
    s1 = s1
    s2 = s2
    c1 = c1
    c2 = c2
    e1 = e1
    None = None
    Sessions = {s1, s2}
    ClientIds = {c1, c2}
    EventIds = {e1}
    MayRegister <- SharedNames
    MaxEvents = 2
INVARIANTS
    TypeOK
    AckIsTrue
    NoRepeat
    AckComesFirst
PROPERTIES
    KeepsLog
    NobodyPassedOver
CHECK_DEADLOCK FALSE

\* Two streams and two names, used in any way clients may use them.
SPECIFICATION Spec
CONSTANTS
    s1 = s1
    s2 = s2
    c1 = c1
    c2 = c2
    q1 = q1
    None = None
    Sessions = {s1, s2}
    ClientIds = {c1, c2}
    QueryIds = {q1}
    MayRegister <- TwoNames
INVARIANTS
    TypeOK
    RegisteredWasAcked
    EndedSessionNotRegistered
    SoleUserServed
PROPERTIES
    NoOrphanHandlers
    LiveClientKept
    HandlersStay
CHECK_DEADLOCK FALSE

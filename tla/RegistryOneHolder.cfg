\* Two streams race for one name.
SPECIFICATION Spec
CONSTANTS
    s1 = s1
    s2 = s2
    c1 = c1
    c2 = c2
    q1 = q1
    None = None
    Sessions = {s1, s2}
    ClientIds = {c1}
    QueryIds = {q1}
    MayRegister <- OneName
INVARIANT
    OneHolder
CHECK_DEADLOCK FALSE

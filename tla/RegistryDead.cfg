\* Two streams of one name, one of which may die; fair scheduling.
SPECIFICATION FairSpec
CONSTANTS
    s1 = s1
    s2 = s2
    c1 = c1
    c2 = c2
    q1 = q1
    None = None
    Sessions = {s1, s2}
    ClientIds = {c1}
    QueryIds = {q1}
    MayRegister <- OneName
PROPERTIES
    DeadClientForgotten
    DeadClientRetracted
CHECK_DEADLOCK FALSE

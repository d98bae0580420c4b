\* An event whose source is gone when it has been stored.
SPECIFICATION FairSpec
CONSTANTS
    s1 = s1
    s2 = s2
    c1 = c1
    c2 = c2
    e1 = e1
    None = None
    Sessions = {s1}
    ClientIds = {c1}
    EventIds = {e1}
    MayRegister <- OneStream
    MaxEvents = 1
PROPERTY
    StoredIsBroadcast
CHECK_DEADLOCK FALSE

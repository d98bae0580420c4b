\* A client that does not read, and the request of another one.
SPECIFICATION FairSpec
CONSTANTS
    a = a
    b = b
    x = x
    y = y
    Heart = Heart
    None = None
    Clients = {a, b}
    Casts = {x}
    Capacity = 1
    Plans <- AskWithoutReply
    MayLeave = {}
    Readers = {b}
PROPERTY
    OverdueIsTold
CHECK_DEADLOCK FALSE

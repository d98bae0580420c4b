\* Six plans of two clients that read, with channels of one slot; fair scheduling.
SPECIFICATION FairSpec
CONSTANTS
    a = a
    b = b
    x = x
    y = y
    Heart = Heart
    None = None
    Clients = {a, b}
    Casts = {x, y}
    Capacity = 1
    Plans <- SixPlans
    MayLeave = {a}
    Readers = {a, b}
INVARIANTS
    WaitsOnlyForClients
PROPERTIES
    SlowClientKept
    MessageHandled
    BroadcastEnds
    OverdueIsTold
    ServerStops
CHECK_DEADLOCK FALSE

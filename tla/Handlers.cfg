\* Three clients, two queries, one cursor.
SPECIFICATION Spec
CONSTANTS
    q1 = q1
    q2 = q2
    None = None
    ClientIds = {1, 2, 3}
    QueryIds = {q1, q2}
    Lists <- ListsOnce
    Fresh = TRUE
    MaxLength = 3
    MaxTurns = 4
INVARIANTS
    TypeOK
    FairShare
PROPERTY
    KeepsPromise
CHECK_DEADLOCK FALSE

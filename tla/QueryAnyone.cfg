\* Two askers use one id; responders leave and requests expire at any time.
SPECIFICATION FairSpec
CONSTANTS
    q1 = q1
    r1 = r1
    None = None
    Clients = {1, 2, 3}
    QueryIds = {q1}
    RequestIds = {r1}
    Serves <- Servers
    MayAsk <- SameId
    MayLeave = {2, 3}
    MayAnswer = {}
    MaxSends = 1
INVARIANTS
    TypeOK
    OngoingIsServed
    NoAskForgotten
PROPERTIES
    AnswersOnlyToAsker
    RequestResolved
CHECK_DEADLOCK FALSE

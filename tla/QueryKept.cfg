\* One asker uses an id twice; responders leave, answer unasked or not at all, and
\* requests expire at any time.
SPECIFICATION FairSpec
CONSTANTS
    q1 = q1
    r1 = r1
    None = None
    Clients = {1, 2, 3}
    QueryIds = {q1}
    RequestIds = {r1}
    Serves <- Servers
    MayAsk <- OneAsker
    MayLeave = {2, 3}
    MayAnswer = {3}
    MaxSends = 2
INVARIANT
    AnsweredAtMostOnce
PROPERTIES
    OnlyOwnEntryRemoved
    AskAnswered
CHECK_DEADLOCK FALSE

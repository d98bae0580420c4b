------------------------ MODULE QueryRoutingProofs -------------------------
(***************************************************************************)
(* Proofs about QueryRouting, for any clients, queries and request ids,    *)
(* whoever leaves, answers or uses an id again and whatever expires.       *)
(***************************************************************************)
EXTENDS QueryRouting, RoundRobinProofs

-----------------------------------------------------------------------------
(* The inductive invariant: every copy of a request, in the hands of a     *)
(* task, in the table or in a snapshot, is one its requester made, and     *)
(* once a responder is named, that one declared the query.                 *)

Asked(c, r) == sent[c][r] > 0

Genuine(entry) ==
    /\ Asked(entry.requester, entry.request_id)
    /\ entry.query_id \in Serves[entry.responder]
    /\ entry.created_at <= sent[entry.requester][entry.request_id]

HandledWell(c) ==
    /\ pc[c] \in {"select", "lookup", "send", "record"} => Asked(c, request[c].request_id)
    /\ pc[c] \in {"lookup", "send", "record"} =>
          request[c].query_id \in Serves[request[c].responder]
    /\ pc[c] \in {"deliver", "forget"} => Genuine(answered[c].entry)

HandledIsAsked == \A c \in Clients : HandledWell(c)

TableIsGenuine ==
    \A r \in RequestIds : ongoing_query_requests[r] # None =>
        /\ ongoing_query_requests[r].request_id = r
        /\ Genuine(ongoing_query_requests[r])

SnapshotIsGenuine == \A entry \in sweep.todo : Genuine(entry)

OverdueIsOngoing == \A r \in overdue : ongoing_query_requests[r] # None

ListedDeclared == \A q \in QueryIds : \A c \in query_handlers[q] : q \in Serves[c]

RoutingInv ==
    /\ TypeOK
    /\ OverdueIsOngoing
    /\ HandledIsAsked
    /\ TableIsGenuine
    /\ SnapshotIsGenuine
    /\ ListedDeclared

\* It holds before anybody asks.
LEMMA InitRouting == Init => RoutingInv
<1> SUFFICES ASSUME Init PROVE RoutingInv
  OBVIOUS
<1> USE ClientsAreOrdered, ServesTyped, MayAskTyped, BoundsTyped DEF Init
<1>1. TypeOK
  BY DEF TypeOK, PCs
<1>2. OverdueIsOngoing /\ HandledIsAsked /\ TableIsGenuine /\ SnapshotIsGenuine
  BY DEF OverdueIsOngoing, HandledIsAsked, HandledWell, TableIsGenuine, SnapshotIsGenuine
<1>3. ListedDeclared
  BY DEF ListedDeclared
<1> QED
  BY <1>1, <1>2, <1>3 DEF RoutingInv

-----------------------------------------------------------------------------
\* Telling a client adds an answer to one request, at most.
LEMMA TellEffect ==
  ASSUME TypeOK, NEW x, Tell(x)
  PROVE  told' \in [Requests -> Nat]
<1>1. told \in [Requests -> Nat]
  BY DEF TypeOK
<1>2. CASE told' = [told EXCEPT ![x] = @ + 1]
  <2>1. \A y \in Requests : told'[y] \in Nat
    BY <1>1, <1>2
  <2> QED
    BY <1>1, <1>2, <2>1
<1> QED
  BY <1>1, <1>2 DEF Tell

\* Only the handling of a QueryRequest counts one, and counts never fall.
LEMMA AskEffect ==
  ASSUME TypeOK, NEW c \in Clients, NEW r \in RequestIds, sent[c][r] < MaxSends,
         sent' = [sent EXCEPT ![c][r] = @ + 1]
  PROVE  /\ sent' \in [Clients -> [RequestIds -> 0..MaxSends]]
         /\ Asked(c, r)'
         /\ \A d \in Clients, x \in RequestIds : sent[d][x] <= sent'[d][x]
<1>1. /\ MaxSends \in Nat /\ sent[c][r] \in 0..MaxSends
      /\ sent \in [Clients -> [RequestIds -> 0..MaxSends]]
  BY BoundsTyped DEF TypeOK
<1>2. \A d \in Clients, x \in RequestIds :
         sent'[d][x] = IF d = c /\ x = r THEN sent[c][r] + 1 ELSE sent[d][x]
  BY <1>1
<1>3. sent' \in [Clients -> [RequestIds -> 0..MaxSends]]
  BY <1>1
<1> QED
  BY <1>1, <1>2, <1>3 DEF Asked

\* The request a session has in hand is one of those it may make.
LEMMA CurrentIsRequest ==
  ASSUME TypeOK, NEW c \in Clients, request[c].request_id \in RequestIds,
         Asked(c, request[c].request_id)
  PROVE  CurrentRequest(c) \in Requests
<1>1. sent[c][request[c].request_id] \in 1..MaxSends
  BY BoundsTyped DEF TypeOK, Asked
<1> QED
  BY <1>1 DEF CurrentRequest, Requests

\* An action that leaves the tables and the counts alone keeps what is said of them.
LEMMA TablesKept ==
  ASSUME RoutingInv,
         UNCHANGED <<query_handlers, ongoing_query_requests, overdue, sweep, sent>>
  PROVE  OverdueIsOngoing' /\ TableIsGenuine' /\ SnapshotIsGenuine' /\ ListedDeclared'
BY DEF RoutingInv, OverdueIsOngoing, TableIsGenuine, SnapshotIsGenuine, ListedDeclared,
       Genuine, Asked

\* The other sessions keep what they handle.
LEMMA OthersHandle ==
  ASSUME RoutingInv, UNCHANGED sent, NEW c \in Clients, HandledWell(c)',
         \A d \in Clients \ {c} : /\ pc'[d] = pc[d]
                                  /\ request'[d] = request[d]
                                  /\ answered'[d] = answered[d]
  PROVE  HandledIsAsked'
<1>1. ASSUME NEW d \in Clients \ {c}
      PROVE  HandledWell(d)'
  <2>1. HandledWell(d)
    BY DEF RoutingInv, HandledIsAsked
  <2> QED
    BY <2>1 DEF HandledWell, Genuine, Asked
<1> QED
  BY <1>1 DEF HandledIsAsked

\* A handler that returns leaves its session with nothing in hand.
LEMMA ReturnEffect ==
  ASSUME RoutingInv, UNCHANGED sent, NEW c \in Clients, ReturnFromHandler(c)
  PROVE  /\ pc' \in [Clients -> PCs]
         /\ request' \in [Clients -> QueryRequest \cup {None}]
         /\ answered' \in [Clients -> Answer \cup {None}]
         /\ \A d \in Clients :
              /\ pc'[d] \in {"select", "lookup", "send", "record"} => request'[d] \in QueryRequest
              /\ pc'[d] \in {"lookup", "send", "record"} => request'[d].responder \in Clients
              /\ pc'[d] \in {"deliver", "forget"} => answered'[d] \in Answer
         /\ HandledIsAsked'
<1>1. TypeOK
  BY DEF RoutingInv
<1>2. /\ pc' \in [Clients -> PCs]
      /\ request' \in [Clients -> QueryRequest \cup {None}]
      /\ answered' \in [Clients -> Answer \cup {None}]
      /\ pc'[c] = "loop"
      /\ \A d \in Clients \ {c} : /\ pc'[d] = pc[d]
                                  /\ request'[d] = request[d]
                                  /\ answered'[d] = answered[d]
  BY <1>1 DEF ReturnFromHandler, GoTo, TypeOK, PCs
<1>3. HandledWell(c)'
  BY <1>2 DEF HandledWell
<1>4. HandledIsAsked'
  BY <1>2, <1>3, OthersHandle
<1> QED
  BY <1>1, <1>2, <1>4 DEF TypeOK

\* A session that moves on with the same request or entry in hand.
LEMMA MoveEffect ==
  ASSUME RoutingInv, UNCHANGED <<sent, request, answered>>, NEW c \in Clients,
         NEW where \in PCs, GoTo(c, where),
         <<pc[c], where>> \in {<<"lookup", "send">>, <<"send", "record">>,
                               <<"deliver", "forget">>, <<"loop", "remove">>,
                               <<"remove", "retract">>, <<"retract", "done">>}
  PROVE  /\ pc' \in [Clients -> PCs]
         /\ \A d \in Clients :
              /\ pc'[d] \in {"select", "lookup", "send", "record"} => request'[d] \in QueryRequest
              /\ pc'[d] \in {"lookup", "send", "record"} => request'[d].responder \in Clients
              /\ pc'[d] \in {"deliver", "forget"} => answered'[d] \in Answer
         /\ HandledIsAsked'
<1>1. TypeOK /\ HandledWell(c)
  BY DEF RoutingInv, HandledIsAsked
<1>2. /\ pc' \in [Clients -> PCs]
      /\ pc'[c] = where
      /\ \A d \in Clients \ {c} : pc'[d] = pc[d]
  BY <1>1 DEF GoTo, TypeOK
<1>3. HandledWell(c)'
  BY <1>1, <1>2 DEF HandledWell, Genuine, Asked
<1>4. HandledIsAsked'
  BY <1>2, <1>3, OthersHandle
<1> QED
  BY <1>1, <1>2, <1>4 DEF TypeOK

-----------------------------------------------------------------------------
(* The handlers.                                                           *)

\* Receiving a QueryRequest counts it before anything is said about it.
LEMMA ReceiveQueryRequestRoutes ==
  ASSUME RoutingInv, NEW c \in Clients, NEW r \in RequestIds, NEW q \in QueryIds,
         ReceiveQueryRequest(c, r, q)
  PROVE  RoutingInv'
<1>1. /\ TypeOK
      /\ sent' \in [Clients -> [RequestIds -> 0..MaxSends]]
      /\ \A d \in Clients, x \in RequestIds : sent[d][x] <= sent'[d][x]
      /\ Asked(c, r)' \/ UNCHANGED <<pc, request, told>>
  <2>1. TypeOK
    BY DEF RoutingInv
  <2>2. CASE sent' = [sent EXCEPT ![c][r] = @ + 1]
    BY <2>1, <2>2, AskEffect DEF ReceiveQueryRequest
  <2>3. CASE UNCHANGED <<pc, request, sent, told>>
    BY <2>1, <2>3 DEF TypeOK
  <2> QED
    BY <2>1, <2>2, <2>3 DEF ReceiveQueryRequest
<1>2. sent \in [Clients -> [RequestIds -> Nat]]
  BY <1>1, BoundsTyped DEF TypeOK
<1>3. \A d \in Clients, x \in RequestIds : Asked(d, x) => Asked(d, x)'
  BY <1>1, <1>2 DEF Asked
<1>4. \A entry \in OngoingQueryRequest : Genuine(entry) => Genuine(entry)'
  BY <1>1, <1>2, <1>3 DEF Genuine, OngoingQueryRequest
<1>5. UNCHANGED <<answered, query_handlers, ongoing_query_requests, overdue, sweep>>
  BY DEF ReceiveQueryRequest, registry, ongoing
<1>6. OverdueIsOngoing' /\ ListedDeclared'
  BY <1>5 DEF RoutingInv, OverdueIsOngoing, ListedDeclared
<1>7. TableIsGenuine' /\ SnapshotIsGenuine'
  BY <1>1, <1>4, <1>5 DEF RoutingInv, TableIsGenuine, SnapshotIsGenuine, TypeOK
<1>8. \/ UNCHANGED <<pc, request>>
      \/ /\ GoTo(c, "select")
         /\ request' = [request EXCEPT ![c] = [request_id |-> r, query_id |-> q,
                                               responder |-> None]]
  BY DEF ReceiveQueryRequest
<1>9. pc[c] = "loop"
  BY DEF ReceiveQueryRequest
<1>10. /\ pc' \in [Clients -> PCs]
       /\ request' \in [Clients -> QueryRequest \cup {None}]
       /\ pc'[c] = "loop" \/ /\ pc'[c] = "select" /\ Asked(c, r)'
                             /\ request'[c].request_id = r /\ request'[c] \in QueryRequest
       /\ \A d \in Clients \ {c} : pc'[d] = pc[d] /\ request'[d] = request[d]
  <2>1. [request_id |-> r, query_id |-> q, responder |-> None] \in QueryRequest
    BY DEF QueryRequest
  <2> DEFINE asked == [request_id |-> r, query_id |-> q, responder |-> None]
  <2>2. CASE UNCHANGED <<pc, request>>
    BY <1>1, <1>9, <2>2 DEF TypeOK
  <2>3. CASE GoTo(c, "select") /\ request' = [request EXCEPT ![c] = asked]
    <3>1. asked.request_id = r
      OBVIOUS
    <3> HIDE DEF asked
    <3>2. pc'[c] = "select"
      BY <1>1, <2>3 DEF TypeOK, GoTo
    <3>3. Asked(c, r)'
      BY <1>1, <1>9, <3>2
    <3> QED
      BY <1>1, <2>1, <2>3, <3>1, <3>3 DEF TypeOK, GoTo, PCs, asked
  <2> QED
    BY <1>8, <2>2, <2>3
<1>11. HandledIsAsked'
  <2>1. HandledWell(c)'
    BY <1>1, <1>10 DEF HandledWell
  <2>2. ASSUME NEW d \in Clients \ {c}
        PROVE  HandledWell(d)'
    <3>1. HandledWell(d)
      BY DEF RoutingInv, HandledIsAsked
    <3>2. /\ pc'[d] = pc[d] /\ request'[d] = request[d] /\ answered'[d] = answered[d]
      BY <1>5, <1>10
    <3>3. CASE pc[d] \in {"select", "lookup", "send", "record"}
      <4>1. request[d].request_id \in RequestIds
        BY <1>1, <3>3 DEF TypeOK, QueryRequest
      <4> QED
        BY <1>3, <3>1, <3>2, <3>3, <4>1 DEF HandledWell
    <3>4. CASE pc[d] \in {"deliver", "forget"}
      BY <1>1, <1>4, <3>1, <3>2, <3>4 DEF HandledWell, TypeOK, Answer
    <3> QED
      BY <3>2, <3>3, <3>4 DEF HandledWell
  <2> QED
    BY <2>1, <2>2 DEF HandledIsAsked
<1>13. told' \in [Requests -> Nat]
  BY <1>1, TellEffect DEF ReceiveQueryRequest, TypeOK
<1>14. raced' \in SUBSET RequestIds
  BY <1>1 DEF ReceiveQueryRequest, TypeOK
<1>15. UNCHANGED <<rx, connected_clients, last_selected, inbox, dropped, contested>>
  BY DEF ReceiveQueryRequest, registry
<1>16. TypeOK'
  BY <1>1, <1>5, <1>10, <1>13, <1>14, <1>15 DEF TypeOK
<1> QED
  BY <1>6, <1>7, <1>11, <1>16 DEF RoutingInv

\* The strategy picks one of the candidates, all of which declared the query.
LEMMA SelectResponderRoutes ==
  ASSUME RoutingInv, NEW c \in Clients, SelectResponder(c)
  PROVE  RoutingInv'
<1> DEFINE candidates == query_handlers[request[c].query_id]
           selected == NextClient(last_selected, candidates)
<1>1. TypeOK /\ HandledWell(c) /\ pc[c] = "select"
  BY DEF RoutingInv, HandledIsAsked, SelectResponder
<1>2. UNCHANGED <<rx, connected_clients, query_handlers, ongoing_query_requests, overdue,
                  sweep, inbox, sent,
                  dropped, raced, contested>>
  BY DEF SelectResponder, registry, ongoing, marks
<1>3. OverdueIsOngoing' /\ TableIsGenuine' /\ SnapshotIsGenuine' /\ ListedDeclared'
  BY <1>2, TablesKept
<1>4. /\ request[c] \in QueryRequest /\ Asked(c, request[c].request_id)
      /\ request[c].request_id \in RequestIds /\ request[c].query_id \in QueryIds
      /\ candidates \in SUBSET Clients
  BY <1>1 DEF TypeOK, HandledWell, QueryRequest
<1>5. CASE candidates = {}
  <2>1. Tell(CurrentRequest(c)) /\ ReturnFromHandler(c) /\ UNCHANGED last_selected
    BY <1>5 DEF SelectResponder
  <2>2. told' \in [Requests -> Nat]
    BY <1>1, <2>1, TellEffect
  <2>3. TypeOK' /\ HandledIsAsked'
    BY <1>1, <1>2, <2>1, <2>2, ReturnEffect DEF TypeOK
  <2> QED
    BY <1>3, <2>2, <2>3 DEF RoutingInv
<1>6. CASE candidates # {}
  <2>1. selected \in candidates
    <3>1. candidates \in SUBSET Nat
      BY <1>4, ClientsAreOrdered
    <3> QED
      BY <1>6, <3>1, NextClientIsCandidate
  <2>2. request[c].query_id \in Serves[selected]
    BY <1>4, <2>1 DEF RoutingInv, ListedDeclared
  <2> DEFINE chosen == [request_id |-> request[c].request_id,
                        query_id |-> request[c].query_id, responder |-> selected]
  <2>3. /\ last_selected' = selected
        /\ GoTo(c, "lookup")
        /\ request' = [request EXCEPT ![c] = chosen]
        /\ UNCHANGED <<answered, told>>
    BY <1>6 DEF SelectResponder
  <2>4. /\ chosen \in QueryRequest /\ chosen.responder = selected /\ selected \in Clients
        /\ chosen.request_id = request[c].request_id
        /\ chosen.query_id = request[c].query_id
    BY <1>4, <2>1 DEF QueryRequest
  <2> HIDE DEF chosen, selected
  <2>5. /\ pc' \in [Clients -> PCs]
        /\ request' \in [Clients -> QueryRequest \cup {None}]
        /\ pc'[c] = "lookup" /\ request'[c] = chosen
        /\ \A d \in Clients \ {c} : /\ pc'[d] = pc[d]
                                    /\ request'[d] = request[d]
                                    /\ answered'[d] = answered[d]
    BY <1>1, <2>3, <2>4 DEF TypeOK, GoTo, PCs
  <2>6. HandledWell(c)'
    BY <1>2, <1>4, <2>2, <2>4, <2>5 DEF HandledWell, Asked
  <2>7. HandledIsAsked'
    BY <1>2, <2>5, <2>6, OthersHandle
  <2>8. TypeOK'
    BY <1>1, <1>2, <2>3, <2>4, <2>5 DEF TypeOK
  <2> QED
    BY <1>3, <2>7, <2>8 DEF RoutingInv
<1> QED
  BY <1>5, <1>6

\* A responder that is gone ends the handler; one that is there is kept.
LEMMA LookUpResponderRoutes ==
  ASSUME RoutingInv, NEW c \in Clients, LookUpResponder(c)
  PROVE  RoutingInv'
<1>1. TypeOK /\ pc[c] = "lookup"
  BY DEF RoutingInv, LookUpResponder
<1>2. UNCHANGED <<rx, connected_clients, query_handlers, last_selected,
                  ongoing_query_requests, overdue, sweep, inbox, sent, told,
                  raced, contested>>
  BY DEF LookUpResponder, registry, ongoing, marks
<1>3. OverdueIsOngoing' /\ TableIsGenuine' /\ SnapshotIsGenuine' /\ ListedDeclared'
  BY <1>2, TablesKept
<1>4. dropped' \in SUBSET Requests
  <2>1. CurrentRequest(c) \in Requests
    BY <1>1, CurrentIsRequest DEF RoutingInv, HandledIsAsked, HandledWell, TypeOK, QueryRequest
  <2> QED
    BY <1>1, <2>1 DEF LookUpResponder, TypeOK
<1>5. CASE request[c].responder \in connected_clients
  <2>1. GoTo(c, "send") /\ UNCHANGED <<request, answered>>
    BY <1>5 DEF LookUpResponder, handling
  <2>2. TypeOK' /\ HandledIsAsked'
    BY <1>1, <1>2, <1>4, <2>1, MoveEffect DEF TypeOK, PCs
  <2> QED
    BY <1>3, <2>2 DEF RoutingInv
<1>6. CASE request[c].responder \notin connected_clients
  <2>1. TypeOK' /\ HandledIsAsked'
    BY <1>1, <1>2, <1>4, <1>6, ReturnEffect DEF TypeOK, LookUpResponder
  <2> QED
    BY <1>3, <2>1 DEF RoutingInv
<1> QED
  BY <1>5, <1>6

\* The responder is asked, or the requester told that it is gone.
LEMMA SendQueryRequestedRoutes ==
  ASSUME RoutingInv, NEW c \in Clients, SendQueryRequested(c)
  PROVE  RoutingInv'
<1>1. TypeOK /\ HandledWell(c) /\ pc[c] = "send"
  BY DEF RoutingInv, HandledIsAsked, SendQueryRequested
<1>2. UNCHANGED <<rx, connected_clients, query_handlers, last_selected,
                  ongoing_query_requests, overdue, sweep, sent,
                  dropped, raced, contested>>
  BY DEF SendQueryRequested, registry, ongoing, marks
<1>3. OverdueIsOngoing' /\ TableIsGenuine' /\ SnapshotIsGenuine' /\ ListedDeclared'
  BY <1>2, TablesKept
<1>4. /\ request[c].responder \in Clients /\ request[c].request_id \in RequestIds
      /\ Asked(c, request[c].request_id)
  BY <1>1 DEF TypeOK, HandledWell, QueryRequest
<1>5. CASE request[c].responder \in rx
  <2>1. /\ inbox' = [inbox EXCEPT ![request[c].responder] = @ \cup {CurrentRequest(c)}]
        /\ GoTo(c, "record")
        /\ UNCHANGED <<request, answered, told>>
    BY <1>5 DEF SendQueryRequested, handling
  <2>2. inbox' \in [Clients -> SUBSET Requests]
    BY <1>1, <1>4, <2>1, CurrentIsRequest DEF TypeOK
  <2>3. TypeOK' /\ HandledIsAsked'
    BY <1>1, <1>2, <2>1, <2>2, MoveEffect DEF TypeOK, PCs
  <2> QED
    BY <1>3, <2>3 DEF RoutingInv
<1>6. CASE request[c].responder \notin rx
  <2>1. Tell(CurrentRequest(c)) /\ ReturnFromHandler(c) /\ UNCHANGED inbox
    BY <1>6 DEF SendQueryRequested
  <2>2. told' \in [Requests -> Nat]
    BY <1>1, <2>1, TellEffect
  <2>3. TypeOK' /\ HandledIsAsked'
    BY <1>1, <1>2, <2>1, <2>2, ReturnEffect DEF TypeOK
  <2> QED
    BY <1>3, <2>2, <2>3 DEF RoutingInv
<1> QED
  BY <1>5, <1>6

\* What is recorded is what the session had in hand.
LEMMA RecordOngoingRequestRoutes ==
  ASSUME RoutingInv, NEW c \in Clients, RecordOngoingRequest(c)
  PROVE  RoutingInv'
<1>1. TypeOK /\ HandledWell(c) /\ pc[c] = "record"
  BY DEF RoutingInv, HandledIsAsked, RecordOngoingRequest
<1>2. UNCHANGED <<rx, connected_clients, query_handlers, last_selected, sweep, inbox,
                  sent, told,
                  dropped, raced, contested>>
  BY DEF RecordOngoingRequest, registry, marks
<1>3. PICK r \in RequestIds :
         /\ r = request[c].request_id /\ Asked(c, r)
         /\ request[c].query_id \in Serves[request[c].responder]
         /\ request[c].responder \in Clients /\ request[c].query_id \in QueryIds
  BY <1>1 DEF TypeOK, HandledWell, QueryRequest
<1>4. PICK entry : entry = [request_id |-> r, query_id |-> request[c].query_id,
                            requester |-> c, responder |-> request[c].responder,
                            created_at |-> sent[c][r]]
  OBVIOUS
<1>5. entry \in OngoingQueryRequest /\ entry.request_id = r /\ Genuine(entry)
  BY <1>1, <1>3, <1>4 DEF TypeOK, OngoingQueryRequest, Genuine, Asked
<1>6. /\ ongoing_query_requests' = [ongoing_query_requests EXCEPT ![r] = entry]
      /\ overdue' = overdue \ {r} /\ ReturnFromHandler(c)
  BY <1>3, <1>4 DEF RecordOngoingRequest
<1>7. TypeOK' /\ HandledIsAsked'
  BY <1>1, <1>2, <1>3, <1>5, <1>6, ReturnEffect DEF TypeOK
<1>8. TableIsGenuine'
  <2>1. \A x \in RequestIds :
           ongoing_query_requests'[x] = IF x = r THEN entry ELSE ongoing_query_requests[x]
    BY <1>1, <1>6 DEF TypeOK
  <2> QED
    BY <1>2, <1>5, <2>1 DEF RoutingInv, TableIsGenuine, Genuine, Asked
<1>9. OverdueIsOngoing'
  BY <1>1, <1>3, <1>6 DEF RoutingInv, OverdueIsOngoing, TypeOK
<1>10. SnapshotIsGenuine' /\ ListedDeclared'
  BY <1>2 DEF RoutingInv, SnapshotIsGenuine, ListedDeclared, Genuine, Asked
<1> QED
  BY <1>7, <1>8, <1>9, <1>10 DEF RoutingInv

\* An answer takes the entry that is ongoing under its id, if any.
LEMMA ReceiveAnswerRoutes ==
  ASSUME RoutingInv, NEW s \in Clients, NEW r \in RequestIds, ReceiveAnswer(s, r)
  PROVE  RoutingInv'
<1>1. TypeOK /\ pc[s] = "loop"
  BY DEF RoutingInv, ReceiveAnswer
<1>2. UNCHANGED <<request, rx, connected_clients, query_handlers, last_selected,
                  ongoing_query_requests, overdue, sweep, sent, told,
                  dropped, raced>>
  BY DEF ReceiveAnswer, registry, ongoing, marks
<1>3. OverdueIsOngoing' /\ TableIsGenuine' /\ SnapshotIsGenuine' /\ ListedDeclared'
  BY <1>2, TablesKept
<1>5. inbox' \in [Clients -> SUBSET Requests] /\ contested' \in SUBSET Requests
  BY <1>1 DEF ReceiveAnswer, AlreadyEnded, TypeOK
<1>6. CASE ongoing_query_requests[r] = None
  <2>1. UNCHANGED <<pc, answered>>
    BY <1>6 DEF ReceiveAnswer
  <2>2. TypeOK'
    BY <1>1, <1>2, <1>5, <2>1 DEF TypeOK
  <2>3. HandledIsAsked'
    BY <1>2, <2>1 DEF RoutingInv, HandledIsAsked, HandledWell, Genuine, Asked
  <2> QED
    BY <1>3, <2>2, <2>3 DEF RoutingInv
<1>7. CASE ongoing_query_requests[r] # None
  <2>1. PICK entry \in OngoingQueryRequest :
           entry = ongoing_query_requests[r] /\ Genuine(entry)
    BY <1>1, <1>7 DEF RoutingInv, TypeOK, TableIsGenuine
  <2>2. PICK answer \in Answer :
           /\ answer.entry = entry
           /\ GoTo(s, "deliver") /\ answered' = [answered EXCEPT ![s] = answer]
    <3>1. PICK asked \in Requests \cup {None} :
             /\ GoTo(s, "deliver")
             /\ answered' = [answered EXCEPT ![s] = [entry |-> entry, asked |-> asked]]
      BY <1>1, <1>7, <2>1 DEF ReceiveAnswer, TypeOK
    <3>2. [entry |-> entry, asked |-> asked] \in Answer
      BY <2>1 DEF Answer
    <3> QED
      BY <3>1, <3>2
  <2>3. /\ pc' \in [Clients -> PCs]
        /\ answered' \in [Clients -> Answer \cup {None}]
        /\ pc'[s] = "deliver" /\ answered'[s] = answer
        /\ \A d \in Clients \ {s} : pc'[d] = pc[d] /\ answered'[d] = answered[d]
    BY <1>1, <2>2 DEF TypeOK, GoTo, PCs
  <2>4. TypeOK'
    BY <1>1, <1>2, <1>5, <2>1, <2>3 DEF TypeOK
  <2>5. HandledWell(s)'
    BY <1>2, <2>1, <2>2, <2>3 DEF HandledWell, Genuine, Asked
  <2>6. HandledIsAsked'
    BY <1>2, <2>3, <2>5, OthersHandle
  <2> QED
    BY <1>3, <2>4, <2>6 DEF RoutingInv
<1> QED
  BY <1>6, <1>7

\* The answer goes to the requester of the entry.
LEMMA DeliverAnswerRoutes ==
  ASSUME RoutingInv, NEW s \in Clients, DeliverAnswer(s)
  PROVE  RoutingInv'
<1>1. TypeOK /\ pc[s] = "deliver"
  BY DEF RoutingInv, DeliverAnswer
<1>2. UNCHANGED <<rx, connected_clients, query_handlers, last_selected,
                  ongoing_query_requests, overdue, sweep, inbox, sent, dropped, raced, contested>>
  BY DEF DeliverAnswer, registry, ongoing, marks
<1>3. OverdueIsOngoing' /\ TableIsGenuine' /\ SnapshotIsGenuine' /\ ListedDeclared'
  BY <1>2, TablesKept
<1>4. \/ /\ Tell(RequestOf(answered[s].entry))
         /\ GoTo(s, "forget") /\ UNCHANGED <<request, answered>>
      \/ ReturnFromHandler(s) /\ UNCHANGED told
  BY DEF DeliverAnswer, handling
<1>5. told' \in [Requests -> Nat]
  BY <1>1, <1>4, TellEffect DEF TypeOK
<1>6. CASE GoTo(s, "forget") /\ UNCHANGED <<request, answered>>
  <2>1. TypeOK' /\ HandledIsAsked'
    BY <1>1, <1>2, <1>5, <1>6, MoveEffect DEF TypeOK, PCs
  <2> QED
    BY <1>3, <2>1 DEF RoutingInv
<1>7. CASE ReturnFromHandler(s)
  <2>1. TypeOK' /\ HandledIsAsked'
    BY <1>1, <1>2, <1>5, <1>7, ReturnEffect DEF TypeOK
  <2> QED
    BY <1>3, <2>1 DEF RoutingInv
<1> QED
  BY <1>4, <1>6, <1>7

\* Removing what is under an id leaves the other entries as they were.
LEMMA RemovalEffect ==
  ASSUME RoutingInv, UNCHANGED sent, NEW r \in RequestIds, RemoveOngoingRequest(r)
  PROVE  /\ ongoing_query_requests' \in [RequestIds -> OngoingQueryRequest \cup {None}]
         /\ overdue' \in SUBSET RequestIds
         /\ OverdueIsOngoing' /\ TableIsGenuine'
<1>1. TypeOK
  BY DEF RoutingInv
<1>2. /\ \A x \in RequestIds : ongoing_query_requests'[x] =
            IF x = r THEN None ELSE ongoing_query_requests[x]
      /\ overdue' = overdue \ {r}
      /\ ongoing_query_requests' \in [RequestIds -> OngoingQueryRequest \cup {None}]
  BY <1>1 DEF RemoveOngoingRequest, TypeOK
<1>3. OverdueIsOngoing'
  BY <1>1, <1>2 DEF RoutingInv, OverdueIsOngoing, TypeOK
<1>4. TableIsGenuine'
  BY <1>2 DEF RoutingInv, TableIsGenuine, Genuine, Asked
<1> QED
  BY <1>1, <1>2, <1>3, <1>4 DEF TypeOK

\* Once answered, a request is ongoing no more.
LEMMA ForgetAnsweredRoutes ==
  ASSUME RoutingInv, NEW s \in Clients, ForgetAnswered(s)
  PROVE  RoutingInv'
<1>1. TypeOK /\ pc[s] = "forget"
  BY DEF RoutingInv, ForgetAnswered
<1>2. UNCHANGED <<rx, connected_clients, query_handlers, last_selected, sweep, inbox,
                  sent, told,
                  dropped, raced, contested>>
  BY DEF ForgetAnswered, registry, marks
<1>3. PICK r \in RequestIds : r = answered[s].entry.request_id
  BY <1>1 DEF TypeOK, Answer, OngoingQueryRequest
<1>4. RemoveOngoingRequest(r) /\ ReturnFromHandler(s)
  BY <1>3 DEF ForgetAnswered
<1>5. OverdueIsOngoing' /\ TableIsGenuine'
  BY <1>2, <1>4, RemovalEffect
<1>6. TypeOK' /\ HandledIsAsked'
  BY <1>1, <1>2, <1>4, RemovalEffect, ReturnEffect DEF TypeOK
<1>7. SnapshotIsGenuine' /\ ListedDeclared'
  BY <1>2 DEF RoutingInv, SnapshotIsGenuine, ListedDeclared, Genuine, Asked
<1> QED
  BY <1>5, <1>6, <1>7 DEF RoutingInv

-----------------------------------------------------------------------------
(* Clients that leave, time and the heartbeat task.                        *)

\* A stream that closes only moves its session and takes its client out of
\* the tables.
LEMMA LeaveRoutes ==
  ASSUME RoutingInv, NEW c \in Clients,
         StreamEnds(c) \/ CloseRemove(c) \/ CloseRetract(c) \/ DropReceiver(c)
  PROVE  RoutingInv'
<1>1. TypeOK
  BY DEF RoutingInv
<1>2. /\ UNCHANGED <<request, answered, last_selected, ongoing_query_requests, overdue,
                     sweep, inbox, sent, told,
                  dropped, raced, contested>>
      /\ rx' \in SUBSET Clients /\ connected_clients' \in SUBSET Clients
      /\ UNCHANGED query_handlers \/ Retracted(c)
  BY <1>1 DEF StreamEnds, CloseRemove, CloseRetract, DropReceiver, handling, registry,
              ongoing, TypeOK, marks
<1>3. query_handlers' \in [QueryIds -> SUBSET Clients] /\ ListedDeclared'
  BY <1>1, <1>2 DEF Retracted, RoutingInv, ListedDeclared, TypeOK
<1>4. OverdueIsOngoing' /\ TableIsGenuine' /\ SnapshotIsGenuine'
  BY <1>2 DEF RoutingInv, OverdueIsOngoing, TableIsGenuine, SnapshotIsGenuine, Genuine, Asked
<1>6. CASE DropReceiver(c)
  <2>1. UNCHANGED pc
    BY <1>6 DEF DropReceiver
  <2>2. HandledIsAsked'
    BY <1>2, <2>1 DEF RoutingInv, HandledIsAsked, HandledWell, Genuine, Asked
  <2>3. TypeOK'
    BY <1>1, <1>2, <1>3, <2>1 DEF TypeOK
  <2> QED
    BY <1>3, <1>4, <2>2, <2>3 DEF RoutingInv
<1>7. CASE StreamEnds(c) \/ CloseRemove(c) \/ CloseRetract(c)
  <2>1. PICK where \in PCs :
           /\ GoTo(c, where)
           /\ <<pc[c], where>> \in {<<"loop", "remove">>, <<"remove", "retract">>,
                                    <<"retract", "done">>}
    BY <1>7 DEF StreamEnds, CloseRemove, CloseRetract, PCs
  <2>2. TypeOK' /\ HandledIsAsked'
    BY <1>1, <1>2, <1>3, <2>1, MoveEffect DEF TypeOK
  <2> QED
    BY <1>3, <1>4, <2>2 DEF RoutingInv
<1> QED
  BY <1>6, <1>7

\* While no session moves, what the sessions handle stays asked for.
LEMMA SessionsStay ==
  ASSUME RoutingInv, UNCHANGED <<pc, request, answered, sent>>
  PROVE  HandledIsAsked'
BY DEF RoutingInv, HandledIsAsked, HandledWell, Genuine, Asked

\* Only what is ongoing expires.
LEMMA ExpireRoutes ==
  ASSUME RoutingInv, NEW r \in RequestIds, Expire(r)
  PROVE  RoutingInv'
<1>1. UNCHANGED <<pc, request, answered, rx, connected_clients, query_handlers,
                  last_selected, ongoing_query_requests, sweep, inbox, sent, told,
                  dropped, raced, contested>>
  BY DEF Expire, handling, registry, marks
<1>2. TypeOK'
  BY <1>1 DEF RoutingInv, TypeOK, Expire
<1>3. OverdueIsOngoing'
  BY DEF RoutingInv, OverdueIsOngoing, Expire
<1>4. TableIsGenuine' /\ SnapshotIsGenuine' /\ ListedDeclared'
  BY <1>1 DEF RoutingInv, TableIsGenuine, SnapshotIsGenuine, ListedDeclared, Genuine, Asked
<1>5. HandledIsAsked'
  BY <1>1, SessionsStay
<1> QED
  BY <1>2, <1>3, <1>4, <1>5 DEF RoutingInv

\* Expelling a client only takes it out of the tables.
LEMMA ExpelRoutes ==
  ASSUME RoutingInv, (\E c \in Clients : ExpelRemove(c)) \/ ExpelRetract
  PROVE  RoutingInv'
<1>1. TypeOK
  BY DEF RoutingInv
<1>2. UNCHANGED <<pc, request, answered, rx, last_selected, ongoing_query_requests,
                  overdue, inbox, sent, told,
                  dropped, raced, contested>>
  BY DEF ExpelRemove, ExpelRetract, handling, ongoing, marks
<1>3. sweep'.todo = sweep.todo
  BY <1>1 DEF ExpelRemove, ExpelRetract, TypeOK
<1>4. OverdueIsOngoing' /\ TableIsGenuine' /\ SnapshotIsGenuine'
  BY <1>2, <1>3 DEF RoutingInv, OverdueIsOngoing, TableIsGenuine, SnapshotIsGenuine,
                    Genuine, Asked
<1>5. HandledIsAsked'
  BY <1>2, SessionsStay
<1>6. CASE \E c \in Clients : ExpelRemove(c)
  <2>1. TypeOK'
    BY <1>1, <1>2, <1>6 DEF ExpelRemove, TypeOK
  <2>2. ListedDeclared'
    BY <1>6 DEF ExpelRemove, RoutingInv, ListedDeclared
  <2> QED
    BY <1>4, <1>5, <2>1, <2>2 DEF RoutingInv
<1>7. CASE ExpelRetract
  <2>1. UNCHANGED connected_clients /\ Retracted(sweep.client)
    BY <1>7 DEF ExpelRetract
  <2>2. query_handlers' \in [QueryIds -> SUBSET Clients] /\ ListedDeclared'
    BY <1>1, <2>1 DEF Retracted, RoutingInv, ListedDeclared, TypeOK
  <2>3. TypeOK'
    BY <1>1, <1>2, <1>7, <2>1, <2>2 DEF ExpelRetract, TypeOK
  <2> QED
    BY <1>4, <1>5, <2>2, <2>3 DEF RoutingInv
<1> QED
  BY <1>6, <1>7

\* A snapshot holds what the table held.
LEMMA SnapshotRoutes ==
  ASSUME RoutingInv, SweepBegins \/ SweepEnds
  PROVE  RoutingInv'
<1>1. TypeOK
  BY DEF RoutingInv
<1>2. UNCHANGED <<pc, request, answered, rx, connected_clients, query_handlers,
                  last_selected, ongoing_query_requests, overdue, inbox, sent, told,
                  dropped, raced>>
  BY DEF SweepBegins, SweepEnds, handling, registry, ongoing, marks
<1>3. contested' \in SUBSET Requests
  BY <1>1 DEF SweepBegins, SweepEnds, marks, AlreadyEnded, TypeOK
<1>4. HandledIsAsked'
  BY <1>2, SessionsStay
<1>5. OverdueIsOngoing' /\ TableIsGenuine' /\ ListedDeclared'
  BY <1>2 DEF RoutingInv, OverdueIsOngoing, TableIsGenuine, ListedDeclared, Genuine, Asked
<1>6. CASE SweepBegins
  <2> DEFINE overdueEntries == {ongoing_query_requests[r] : r \in overdue}
  <2>1. \A entry \in overdueEntries : entry \in OngoingQueryRequest /\ Genuine(entry)
    BY <1>1 DEF RoutingInv, TypeOK, OverdueIsOngoing, TableIsGenuine
  <2>2. sweep' = [sweep EXCEPT !.pc = "visit", !.todo = overdueEntries]
    BY <1>6 DEF SweepBegins
  <2> HIDE DEF overdueEntries
  <2>3. sweep'.todo = overdueEntries
    BY <1>1, <2>2 DEF TypeOK
  <2>4. TypeOK'
    BY <1>1, <1>2, <1>3, <2>1, <2>2 DEF TypeOK
  <2>5. SnapshotIsGenuine'
    BY <1>2, <2>1, <2>3 DEF SnapshotIsGenuine, Genuine, Asked
  <2> QED
    BY <1>4, <1>5, <2>4, <2>5 DEF RoutingInv
<1>7. CASE SweepEnds
  <2>1. TypeOK' /\ sweep'.todo = sweep.todo
    BY <1>1, <1>2, <1>7, <1>3 DEF SweepEnds, TypeOK
  <2>2. SnapshotIsGenuine'
    BY <1>2, <2>1 DEF RoutingInv, SnapshotIsGenuine, Genuine, Asked
  <2> QED
    BY <1>4, <1>5, <2>1, <2>2 DEF RoutingInv
<1> QED
  BY <1>6, <1>7

\* The requester of an overdue entry asked for it, so it may be told.
LEMMA SweepTellsRoutes ==
  ASSUME RoutingInv, NEW entry \in sweep.todo, SweepTells(entry)
  PROVE  RoutingInv'
<1>1. TypeOK /\ Genuine(entry) /\ entry \in OngoingQueryRequest
  BY DEF RoutingInv, SnapshotIsGenuine, TypeOK
<1>2. UNCHANGED <<pc, request, answered, rx, connected_clients, query_handlers,
                  last_selected, ongoing_query_requests, overdue, inbox, sent,
                  dropped, raced, contested>>
  BY DEF SweepTells, handling, registry, ongoing, marks
<1>3. told' \in [Requests -> Nat]
  <2>1. UNCHANGED told \/ Tell(RequestOf(entry))
    BY DEF SweepTells
  <2> QED
    BY <1>1, <2>1, TellEffect DEF TypeOK
<1>4. HandledIsAsked'
  BY <1>2, SessionsStay
<1>5. OverdueIsOngoing' /\ TableIsGenuine' /\ ListedDeclared'
  BY <1>2 DEF RoutingInv, OverdueIsOngoing, TableIsGenuine, ListedDeclared, Genuine, Asked
<1>6. TypeOK' /\ sweep'.todo \subseteq sweep.todo
  BY <1>1, <1>2, <1>3 DEF SweepTells, TypeOK
<1>7. SnapshotIsGenuine'
  BY <1>2, <1>6 DEF RoutingInv, SnapshotIsGenuine, Genuine, Asked
<1> QED
  BY <1>3, <1>4, <1>5, <1>6, <1>7 DEF RoutingInv

\* What timed out is ongoing no more.
LEMMA SweepForgetsRoutes ==
  ASSUME RoutingInv, SweepForgets
  PROVE  RoutingInv'
<1>1. TypeOK
  BY DEF RoutingInv
<1>2. UNCHANGED <<pc, request, answered, rx, connected_clients, query_handlers,
                  last_selected, inbox, sent, told,
                  dropped, raced, contested>>
  BY DEF SweepForgets, handling, registry, marks
<1>3. PICK r \in RequestIds : r = sweep.entry.request_id
  BY <1>1 DEF SweepForgets, TypeOK, OngoingQueryRequest
<1>4. RemoveOngoingRequest(r)
  BY <1>3 DEF SweepForgets
<1>5. /\ ongoing_query_requests' \in [RequestIds -> OngoingQueryRequest \cup {None}]
      /\ overdue' \in SUBSET RequestIds
      /\ OverdueIsOngoing' /\ TableIsGenuine'
  BY <1>2, <1>4, RemovalEffect
<1>6. TypeOK' /\ sweep'.todo = sweep.todo
  BY <1>1, <1>2, <1>5 DEF SweepForgets, TypeOK
<1>7. SnapshotIsGenuine' /\ ListedDeclared'
  BY <1>2, <1>6 DEF RoutingInv, SnapshotIsGenuine, ListedDeclared, Genuine, Asked
<1>8. HandledIsAsked'
  BY <1>2, SessionsStay
<1> QED
  BY <1>5, <1>6, <1>7, <1>8 DEF RoutingInv

-----------------------------------------------------------------------------
(* Every step of the broker.                                               *)

\* The invariant is inductive.
LEMMA RoutingStep == RoutingInv /\ [Next]_vars => RoutingInv'
<1> SUFFICES ASSUME RoutingInv, [Next]_vars
             PROVE  RoutingInv'
  OBVIOUS
<1>1. ASSUME NEW c \in Clients, Session(c)
      PROVE  RoutingInv'
  BY <1>1, ReceiveQueryRequestRoutes, SelectResponderRoutes, LookUpResponderRoutes,
     SendQueryRequestedRoutes, RecordOngoingRequestRoutes, ReceiveAnswerRoutes,
     DeliverAnswerRoutes, ForgetAnsweredRoutes, LeaveRoutes DEF Session
<1>2. ASSUME NEW r \in RequestIds, Expire(r)
      PROVE  RoutingInv'
  BY <1>2, ExpireRoutes
<1>3. CASE Heartbeat
  BY <1>3, ExpelRoutes, SnapshotRoutes, SweepTellsRoutes, SweepForgetsRoutes DEF Heartbeat
<1>4. CASE UNCHANGED vars
  <2>1. UNCHANGED <<pc, request, answered, sent, told, query_handlers,
                    ongoing_query_requests, overdue, sweep>>
    BY <1>4 DEF vars
  <2>2. TypeOK'
    BY <1>4 DEF RoutingInv, TypeOK, vars
  <2> QED
    BY <2>1, <2>2, TablesKept, SessionsStay DEF RoutingInv
<1> QED
  BY <1>1, <1>2, <1>3, <1>4 DEF Next

\* Every reachable state satisfies the invariant.
LEMMA RoutingAlways == Spec => []RoutingInv
BY InitRouting, RoutingStep, PTL DEF Spec

\* Type correctness, for any clients, queries and request ids.
THEOREM RoutingTypeCorrect == Spec => []TypeOK
<1>1. RoutingInv => TypeOK
  BY DEF RoutingInv
<1> QED
  BY <1>1, RoutingAlways, PTL

\* Every entry of ongoing_query_requests is under its own id, names a responder
\* that declared the query, and stems from a QueryRequest of its requester.
THEOREM OngoingRequestsAreServed == Spec => []OngoingIsServed
<1>1. RoutingInv => OngoingIsServed
  BY DEF RoutingInv, TableIsGenuine, Genuine, OngoingIsServed
<1> QED
  BY <1>1, RoutingAlways, PTL

-----------------------------------------------------------------------------
(* The table of handlers and the cursor.                                   *)

Table == INSTANCE HandlerSets WITH ClientIds <- Clients, handlers <- query_handlers

\* A session that selects takes the successor in the table; nothing else moves
\* the cursor.
LEMMA SelectResponderSelects ==
  ASSUME TypeOK, NEW c \in Clients, SelectResponder(c)
  PROVE  [Table!Next]_<<query_handlers, last_selected>>
<1> DEFINE q == request[c].query_id
           candidates == query_handlers[q]
<1>1. q \in QueryIds
  BY DEF SelectResponder, TypeOK, QueryRequest
<1>2. UNCHANGED query_handlers
  BY DEF SelectResponder, registry
<1>3. CASE candidates = {}
  BY <1>2, <1>3 DEF SelectResponder
<1>4. CASE candidates # {}
  <2>1. last_selected' = NextClient(last_selected, candidates)
    BY <1>4 DEF SelectResponder
  <2>2. last_selected' = Table!NextClient(last_selected, candidates)
    <3> HIDE DEF candidates
    <3> QED
      BY <2>1, Zenon DEF NextClient, Later, Least, IsLeast,
         Table!NextClient, Table!Later, Table!Least, Table!IsLeast
  <2>3. Table!Select(q)
    BY <1>2, <1>4, <2>2 DEF Table!Select
  <2> QED
    BY <1>1, <2>3 DEF Table!Next
<1> QED
  BY <1>3, <1>4

\* The disconnection of a client withdraws it from all queries at once.
LEMMA RetractionWithdraws ==
  ASSUME NEW c \in Clients, Retracted(c), UNCHANGED last_selected
  PROVE  Table!Next
BY DEF Retracted, Table!Next, Table!Withdraw

\* Requests, answers, timeouts and disconnections use the table of handlers as
\* HandlerSets promises it, which the vectors of QueryHandler implement: what
\* QueryRouting says of sets and successors, it says of them.
THEOREM RoutingUsesTable == Spec => [][Table!Next]_<<query_handlers, last_selected>>
<1>1. ASSUME TypeOK, [Next]_vars
      PROVE  [Table!Next]_<<query_handlers, last_selected>>
  <2>1. ASSUME NEW c \in Clients, SelectResponder(c)
        PROVE  [Table!Next]_<<query_handlers, last_selected>>
    BY <1>1, <2>1, SelectResponderSelects
  <2>2. ASSUME NEW c \in Clients, CloseRetract(c)
        PROVE  Table!Next
    BY <2>2, RetractionWithdraws DEF CloseRetract
  <2>3. CASE ExpelRetract
    <3>1. sweep.client \in Clients
      BY <1>1, <2>3 DEF ExpelRetract, TypeOK
    <3> QED
      BY <2>3, <3>1, RetractionWithdraws DEF ExpelRetract
  <2>4. ASSUME NEW c \in Clients, Session(c), ~SelectResponder(c), ~CloseRetract(c)
        PROVE  UNCHANGED <<query_handlers, last_selected>>
    <3>1. CASE \E r \in RequestIds, q \in QueryIds : ReceiveQueryRequest(c, r, q)
      BY <3>1 DEF ReceiveQueryRequest, registry
    <3>2. CASE LookUpResponder(c) \/ SendQueryRequested(c) \/ RecordOngoingRequest(c)
      BY <3>2 DEF LookUpResponder, SendQueryRequested, RecordOngoingRequest, registry
    <3>3. CASE \E r \in RequestIds : ReceiveAnswer(c, r)
      BY <3>3 DEF ReceiveAnswer, registry
    <3>4. CASE DeliverAnswer(c) \/ ForgetAnswered(c)
      BY <3>4 DEF DeliverAnswer, ForgetAnswered, registry
    <3>5. CASE StreamEnds(c) \/ CloseRemove(c) \/ DropReceiver(c)
      BY <3>5 DEF StreamEnds, CloseRemove, DropReceiver, registry
    <3> QED
      BY <2>4, <3>1, <3>2, <3>3, <3>4, <3>5 DEF Session
  <2>5. CASE Heartbeat /\ ~ExpelRetract
    <3>1. ASSUME NEW c \in Clients, ExpelRemove(c)
          PROVE  UNCHANGED <<query_handlers, last_selected>>
      BY <3>1 DEF ExpelRemove
    <3>2. CASE SweepBegins \/ SweepForgets \/ SweepEnds
      BY <3>2 DEF SweepBegins, SweepForgets, SweepEnds, registry
    <3>3. ASSUME NEW entry \in sweep.todo, SweepTells(entry)
          PROVE  UNCHANGED <<query_handlers, last_selected>>
      BY <3>3 DEF SweepTells, registry
    <3> QED
      BY <2>5, <3>1, <3>2, <3>3, Zenon DEF Heartbeat
  <2>6. CASE \E r \in RequestIds : Expire(r)
    BY <2>6 DEF Expire, registry
  <2>7. CASE UNCHANGED vars
    BY <2>7 DEF vars
  <2> QED
    BY <1>1, <2>1, <2>2, <2>3, <2>4, <2>5, <2>6, <2>7 DEF Next
<1> QED
  BY <1>1, RoutingTypeCorrect, PTL DEF Spec

-----------------------------------------------------------------------------
(* What an action does to one session, one count and one entry.            *)
-----------------------------------------------------------------------------
(* The life of a request.  It is in the hands of its session until that    *)
(* returns; then the table may hold it, and tasks may set out to end it:   *)
(* sessions that answer it and the sweep, which tell the requester and     *)
(* then remove what the table holds under the id.                          *)

Here(c) == c \in connected_clients \cap rx

Over(x) ==
    /\ x[3] <= sent[x[1]][x[2]]
    /\ ~(InHand(x[1], x[2]) /\ x = CurrentRequest(x[1]))

Answers(s, x) == pc[s] = "deliver" /\ RequestOf(answered[s].entry) = x
Forgets(s, x) == pc[s] = "forget" /\ RequestOf(answered[s].entry) = x
WillSweep(x) == \E entry \in sweep.todo : RequestOf(entry) = x
Sweeps(x) == sweep.pc = "forget" /\ RequestOf(sweep.entry) = x

\* Nothing is recorded, told, dropped or contested before its session has returned.
OverFirst ==
    \A x \in Requests : ~Over(x) =>
        /\ ~IsOngoing(x) /\ ~BeingEnded(x) /\ told[x] = 0
        /\ x \notin contested \cup dropped

\* An uncontested request has one task at most that ends it; that task tells it
\* once, and the request stays ongoing with an answer only until it is removed.
Single(x) ==
    /\ told[x] <= 1
    /\ IsOngoing(x) /\ told[x] > 0 => Sweeps(x) \/ \E s \in Clients : Forgets(s, x)
    /\ WillSweep(x) => told[x] = 0
    /\ \A s \in Clients : Answers(s, x) => told[x] = 0
    /\ \A s, d \in Clients :
          (Answers(s, x) \/ Forgets(s, x)) /\ (Answers(d, x) \/ Forgets(d, x)) => s = d
    /\ WillSweep(x) \/ Sweeps(x) => \A s \in Clients : ~Answers(s, x) /\ ~Forgets(s, x)

UncontestedIsSingle == \A x \in Requests \ contested : Single(x)

\* The sweep visits every id once.
SweptApart ==
    /\ \A e, f \in sweep.todo : e.request_id = f.request_id => e = f
    /\ sweep.pc = "forget" => \A e \in sweep.todo : e.request_id # sweep.entry.request_id

\* Under an id that was not disturbed, what is being ended is what the table holds,
\* the table holds nothing while a request is in hand, and only one is in hand.
Undisturbed ==
    /\ \A x \in Requests : BeingEnded(x) => IsOngoing(x) \/ Disturbed(x[2])
    /\ \A c \in Clients, x \in Requests :
          InHand(c, x[2]) /\ IsOngoing(x) => Disturbed(x[2])
    /\ \A c, d \in Clients, r \in RequestIds :
          InHand(c, r) /\ InHand(d, r) => c = d \/ r \in raced

\* Who is about to remove a request has told its requester, if that is there.
ForgottenIsTold ==
    \A x \in Requests : Here(x[1]) =>
        /\ Sweeps(x) => told[x] > 0
        /\ \A s \in Clients : Forgets(s, x) => told[x] > 0

Accounted ==
    \A x \in Requests : Over(x) /\ Here(x[1]) =>
        IsOngoing(x) \/ told[x] > 0 \/ x \in dropped \/ Disturbed(x[2])

RequestInv ==
    /\ OverFirst
    /\ UncontestedIsSingle
    /\ SweptApart
    /\ Undisturbed
    /\ ForgottenIsTold
    /\ Accounted

-----------------------------------------------------------------------------
(* What requests and entries are.                                          *)

\* A request is a client, an id and a number.
LEMMA RequestIsTriple ==
  ASSUME NEW x \in Requests
  PROVE  /\ x[1] \in Clients /\ x[2] \in RequestIds /\ x[3] \in 1..MaxSends
         /\ x = <<x[1], x[2], x[3]>>
BY DEF Requests

\* An entry is about a request under its own id.
LEMMA EntryIsRequest ==
  ASSUME NEW entry \in OngoingQueryRequest
  PROVE  /\ RequestOf(entry) \in Requests
         /\ RequestOf(entry)[1] = entry.requester
         /\ RequestOf(entry)[2] = entry.request_id
BY DEF RequestOf, Requests, OngoingQueryRequest

\* The table holds one request under an id.
LEMMA OngoingIsOne ==
  ASSUME NEW x \in Requests, NEW y \in Requests, IsOngoing(x), IsOngoing(y), x[2] = y[2]
  PROVE  x = y
BY DEF IsOngoing

\* What the table holds is ongoing.
LEMMA EntryIsOngoing ==
  ASSUME RoutingInv, NEW r \in RequestIds, ongoing_query_requests[r] # None
  PROVE  /\ ongoing_query_requests[r] \in OngoingQueryRequest
         /\ RequestOf(ongoing_query_requests[r]) \in Requests
         /\ RequestOf(ongoing_query_requests[r])[2] = r
         /\ IsOngoing(RequestOf(ongoing_query_requests[r]))
<1>1. /\ ongoing_query_requests[r] \in OngoingQueryRequest
      /\ ongoing_query_requests[r].request_id = r
  BY DEF RoutingInv, TypeOK, TableIsGenuine
<1>2. /\ RequestOf(ongoing_query_requests[r]) \in Requests
      /\ RequestOf(ongoing_query_requests[r])[2] = r
  BY <1>1, EntryIsRequest
<1> QED
  BY <1>1, <1>2 DEF IsOngoing

\* The tasks that end a request, before and after a step.
LEMMA Enders ==
  ASSUME NEW x
  PROVE  /\ BeingEnded(x) <=> \/ \E s \in Clients : Answers(s, x) \/ Forgets(s, x)
                              \/ WillSweep(x) \/ Sweeps(x)
         /\ BeingEnded(x)' <=> \/ \E s \in Clients : Answers(s, x)' \/ Forgets(s, x)'
                               \/ WillSweep(x)' \/ Sweeps(x)'
BY DEF BeingEnded, Answers, Forgets, WillSweep, Sweeps

-----------------------------------------------------------------------------
(* What an action does to the life of a request.                           *)

\* Telling counts for the request that is told, if its client is reached.
LEMMA TellCounts ==
  ASSUME TypeOK, NEW x \in Requests, Tell(x)
  PROVE  \A y \in Requests :
            /\ told[y] \in Nat
            /\ told'[y] = IF y = x /\ x[1] \in rx THEN told[y] + 1 ELSE told[y]
BY DEF Tell, TypeOK

\* A session that moves on with its request, or without one, keeps it in hand.
LEMMA HandKept ==
  ASSUME UNCHANGED sent,
         \A d \in Clients :
            LET hands == {"select", "lookup", "send", "record"} IN
            /\ pc'[d] \in hands <=> pc[d] \in hands
            /\ pc[d] \in hands => request'[d].request_id = request[d].request_id
  PROVE  /\ \A d \in Clients, r \in RequestIds : InHand(d, r)' <=> InHand(d, r)
         /\ \A x \in Requests : Over(x)' <=> Over(x)
<1>1. \A d \in Clients : \A r : InHand(d, r)' <=> InHand(d, r)
  BY DEF InHand
<1>2. ASSUME NEW x \in Requests
      PROVE  Over(x)' <=> Over(x)
  <2>1. x[1] \in Clients
    BY RequestIsTriple
  <2>2. CASE ~InHand(x[1], x[2])
    BY <1>1, <2>1, <2>2 DEF Over
  <2>3. CASE InHand(x[1], x[2])
    <3>1. CurrentRequest(x[1])' = CurrentRequest(x[1])
      BY <2>1, <2>3 DEF InHand, CurrentRequest
    <3> QED
      BY <1>1, <2>1, <3>1 DEF Over
  <2> QED
    BY <2>2, <2>3
<1> QED
  BY <1>1, <1>2

\* A session that returns lets go of its request.
LEMMA HandReturned ==
  ASSUME RoutingInv, UNCHANGED sent, NEW c \in Clients,
         pc[c] \in {"select", "lookup", "send", "record"}, ReturnFromHandler(c)
  PROVE  /\ CurrentRequest(c) \in Requests
         /\ CurrentRequest(c)[1] = c /\ CurrentRequest(c)[2] = request[c].request_id
         /\ request[c].request_id \in RequestIds
         /\ ~Over(CurrentRequest(c)) /\ InHand(c, request[c].request_id)
         /\ \A x \in Requests : Over(x)' <=> Over(x) \/ x = CurrentRequest(c)
         /\ \A d \in Clients, r \in RequestIds : InHand(d, r)' <=> InHand(d, r) /\ d # c
         /\ \A d \in Clients : \A x : /\ Answers(d, x)' <=> Answers(d, x)
                                      /\ Forgets(d, x)' <=> Forgets(d, x)
<1>1. TypeOK
  BY DEF RoutingInv
<1>2. /\ pc'[c] = "loop"
      /\ \A d \in Clients \ {c} : pc'[d] = pc[d] /\ request'[d] = request[d]
                                  /\ answered'[d] = answered[d]
  BY <1>1 DEF ReturnFromHandler, GoTo, TypeOK
<1>3. /\ request[c].request_id \in RequestIds /\ Asked(c, request[c].request_id)
      /\ CurrentRequest(c) \in Requests
  BY <1>1, CurrentIsRequest DEF RoutingInv, HandledIsAsked, HandledWell, TypeOK, QueryRequest
<1>4. /\ CurrentRequest(c)[1] = c /\ CurrentRequest(c)[2] = request[c].request_id
      /\ CurrentRequest(c)[3] = sent[c][request[c].request_id]
  BY DEF CurrentRequest
<1>5. InHand(c, request[c].request_id) /\ ~Over(CurrentRequest(c))
  BY <1>4 DEF InHand, Over
<1>6. \A d \in Clients, r \in RequestIds : InHand(d, r)' <=> InHand(d, r) /\ d # c
  BY <1>2 DEF InHand
<1>7. ASSUME NEW x \in Requests
      PROVE  Over(x)' <=> Over(x) \/ x = CurrentRequest(c)
  <2>1. /\ x[1] \in Clients /\ x[2] \in RequestIds /\ x[3] \in Nat
        /\ x = <<x[1], x[2], x[3]>>
    BY RequestIsTriple, BoundsTyped
  <2>2. CASE x[1] # c
    <3>1. CurrentRequest(x[1])' = CurrentRequest(x[1])
      BY <1>2, <2>1, <2>2 DEF CurrentRequest
    <3> QED
      BY <1>4, <1>6, <2>1, <2>2, <3>1 DEF Over
  <2>3. CASE x[1] = c
    <3>1. Over(x)' <=> x[3] <= sent[c][x[2]]
      BY <1>6, <2>1, <2>3 DEF Over
    <3>2. x = CurrentRequest(c) => x[3] <= sent[c][x[2]]
      BY <1>1, <1>3, <1>4, <2>1
    <3>3. Over(x) <=> x[3] <= sent[c][x[2]] /\ x # CurrentRequest(c)
      BY <1>4, <1>5, <2>3 DEF Over
    <3> QED
      BY <3>1, <3>2, <3>3
  <2> QED
    BY <2>2, <2>3
<1>8. \A d \in Clients : \A x : /\ Answers(d, x)' <=> Answers(d, x)
                                /\ Forgets(d, x)' <=> Forgets(d, x)
  BY <1>2 DEF Answers, Forgets
<1> QED
  BY <1>3, <1>4, <1>5, <1>6, <1>7, <1>8

\* Sessions that answer nothing before and after a step end nothing.
LEMMA AnsweringKept ==
  ASSUME \A d \in Clients :
            \/ pc'[d] = pc[d] /\ answered'[d] = answered[d]
            \/ pc[d] \notin {"deliver", "forget"} /\ pc'[d] \notin {"deliver", "forget"}
  PROVE  \A d \in Clients : \A x : /\ Answers(d, x)' <=> Answers(d, x)
                                   /\ Forgets(d, x)' <=> Forgets(d, x)
BY DEF Answers, Forgets

\* While the sweep keeps its snapshot it ends the same requests.
LEMMA SweepKept ==
  ASSUME UNCHANGED sweep
  PROVE  /\ \A x : (WillSweep(x)' <=> WillSweep(x)) /\ (Sweeps(x)' <=> Sweeps(x))
         /\ SweptApart => SweptApart'
BY DEF WillSweep, Sweeps, SweptApart

\* While the table is kept the same requests are ongoing.
LEMMA OngoingKept ==
  ASSUME UNCHANGED ongoing_query_requests
  PROVE  \A x : IsOngoing(x)' <=> IsOngoing(x)
BY DEF IsOngoing

\* A step that changes nothing in the life of any request.
LEMMA QuietStep ==
  ASSUME RequestInv, UNCHANGED told, contested' = contested, raced \subseteq raced',
         dropped' = dropped, SweptApart',
         \A c \in Clients : Here(c)' => Here(c),
         \A c \in Clients, r \in RequestIds : InHand(c, r)' <=> InHand(c, r),
         \A x \in Requests : Over(x)' <=> Over(x),
         \A x \in Requests : IsOngoing(x)' <=> IsOngoing(x),
         \A s \in Clients, x \in Requests : /\ Answers(s, x)' <=> Answers(s, x)
                                            /\ Forgets(s, x)' <=> Forgets(s, x),
         \A x \in Requests : (WillSweep(x)' <=> WillSweep(x)) /\ (Sweeps(x)' <=> Sweeps(x))
  PROVE  RequestInv'
<1>1. \A x \in Requests : BeingEnded(x)' <=> BeingEnded(x)
  BY Enders
<1>2. \A x \in Requests : x[1] \in Clients /\ x[2] \in RequestIds
  BY RequestIsTriple
<1>3. \A r : Disturbed(r) => Disturbed(r)'
  BY DEF Disturbed
<1>4. OverFirst'
  BY <1>1 DEF RequestInv, OverFirst
<1>5. UncontestedIsSingle'
  BY DEF RequestInv, UncontestedIsSingle, Single
<1>6. Undisturbed'
  BY <1>1, <1>2, <1>3 DEF RequestInv, Undisturbed
<1>7. ForgottenIsTold' /\ Accounted'
  BY <1>2, <1>3 DEF RequestInv, ForgottenIsTold, Accounted
<1> QED
  BY <1>4, <1>5, <1>6, <1>7 DEF RequestInv

\* A step in which a request is over: it is told, if its client is reached, or
\* its responder had gone.  Its session lets go of it, if it had it in hand.
LEMMA RequestEnds ==
  ASSUME TypeOK, RequestInv, NEW x \in Requests, ~Over(x),
         \/ Tell(x) /\ UNCHANGED dropped
         \/ UNCHANGED told /\ dropped' = dropped \cup {x},
         UNCHANGED <<rx, connected_clients, ongoing_query_requests, sweep, contested, raced>>,
         \A c \in Clients, r \in RequestIds : InHand(c, r)' => InHand(c, r),
         \A y \in Requests : Over(y)' <=> Over(y) \/ y = x,
         \A s \in Clients, y \in Requests : /\ Answers(s, y)' <=> Answers(s, y)
                                            /\ Forgets(s, y)' <=> Forgets(s, y)
  PROVE  RequestInv'
<1>1. /\ \A c \in Clients : Here(c)' <=> Here(c)
      /\ \A y \in Requests : IsOngoing(y)' <=> IsOngoing(y)
      /\ \A y \in Requests : (WillSweep(y)' <=> WillSweep(y)) /\ (Sweeps(y)' <=> Sweeps(y))
      /\ SweptApart'
      /\ \A r : Disturbed(r)' <=> Disturbed(r)
  BY OngoingKept, SweepKept DEF Here, RequestInv, Disturbed
<1>2. \A y \in Requests : BeingEnded(y)' <=> BeingEnded(y)
  BY <1>1, Enders
<1>3. ~IsOngoing(x) /\ ~BeingEnded(x) /\ told[x] = 0 /\ x \notin contested
  BY DEF RequestInv, OverFirst
<1>4. \A y \in Requests : /\ told[y] \in Nat /\ told'[y] \in Nat
                          /\ y # x => told'[y] = told[y]
                          /\ told'[y] >= told[y]
  BY TellCounts DEF TypeOK
<1>5. told'[x] <= 1
  BY <1>3, TellCounts
<1>6. OverFirst'
  BY <1>1, <1>2, <1>4 DEF RequestInv, OverFirst
<1>7. UncontestedIsSingle'
  <2>1. ASSUME NEW y \in Requests \ contested
        PROVE  Single(y)'
    <3>1. CASE y = x
      BY <1>1, <1>2, <1>3, <1>5, <3>1, Enders DEF Single
    <3>2. CASE y # x
      BY <1>1, <1>4, <3>2 DEF RequestInv, UncontestedIsSingle, Single
    <3> QED
      BY <3>1, <3>2
  <2> QED
    BY <2>1 DEF UncontestedIsSingle
<1>8. Undisturbed'
  BY <1>1, <1>2, RequestIsTriple DEF RequestInv, Undisturbed
<1>9. ForgottenIsTold'
  BY <1>1, <1>4, RequestIsTriple DEF RequestInv, ForgottenIsTold
<1>10. Accounted'
  <2>1. ASSUME NEW y \in Requests, Over(y)', Here(y[1])'
        PROVE  IsOngoing(y)' \/ told'[y] > 0 \/ y \in dropped' \/ Disturbed(y[2])'
    <3>1. CASE y = x
      BY <1>1, <1>3, <2>1, <3>1, TellCounts, RequestIsTriple DEF Here
    <3>2. CASE y # x
      BY <1>1, <1>4, <2>1, <3>2, RequestIsTriple DEF RequestInv, Accounted
    <3> QED
      BY <3>1, <3>2
  <2> QED
    BY <2>1 DEF Accounted
<1> QED
  BY <1>1, <1>6, <1>7, <1>8, <1>9, <1>10 DEF RequestInv

-----------------------------------------------------------------------------
(* The handler of QueryRequest.                                            *)

\* A request that is taken in hand was not made before; a repetition changes
\* nothing; one that is refused is told, and over.
LEMMA ReceiveQueryRequestLives ==
  ASSUME RoutingInv, RequestInv, NEW c \in Clients, NEW r \in RequestIds, NEW q \in QueryIds,
         ReceiveQueryRequest(c, r, q)
  PROVE  RequestInv'
<1> DEFINE new == <<c, r, sent[c][r] + 1>>
<1>1. TypeOK /\ pc[c] = "loop" /\ sent[c][r] \in 0..MaxSends /\ MaxSends \in Nat
  BY BoundsTyped DEF RoutingInv, TypeOK, ReceiveQueryRequest
<1>2. /\ UNCHANGED <<answered, rx, connected_clients, ongoing_query_requests, sweep,
                     dropped, contested>>
      /\ raced \subseteq raced'
  BY DEF ReceiveQueryRequest, registry, ongoing
<1>3. /\ \A d \in Clients : Here(d)' <=> Here(d)
      /\ \A x \in Requests : IsOngoing(x)' <=> IsOngoing(x)
      /\ \A x \in Requests : (WillSweep(x)' <=> WillSweep(x)) /\ (Sweeps(x)' <=> Sweeps(x))
      /\ SweptApart'
  BY <1>2, OngoingKept, SweepKept DEF Here, RequestInv
<1>4. ~InHand(c, r)
  BY <1>1 DEF InHand
<1>5. CASE UNCHANGED <<pc, request, sent, told>>
  <2>1. /\ \A d \in Clients, i \in RequestIds : InHand(d, i)' <=> InHand(d, i)
        /\ \A x \in Requests : Over(x)' <=> Over(x)
        /\ \A s \in Clients, x \in Requests : /\ Answers(s, x)' <=> Answers(s, x)
                                              /\ Forgets(s, x)' <=> Forgets(s, x)
    BY <1>2, <1>5, HandKept, AnsweringKept
  <2> QED
    BY <1>2, <1>3, <1>5, <2>1, QuietStep
<1>6. ASSUME sent' = [sent EXCEPT ![c][r] = @ + 1]
      PROVE  /\ new \in Requests /\ ~Over(new)
             /\ \A d \in Clients, i \in RequestIds :
                   sent'[d][i] = IF d = c /\ i = r THEN sent[c][r] + 1 ELSE sent[d][i]
  <2>1. new \in Requests
    BY <1>1 DEF ReceiveQueryRequest, Requests
  <2>2. ~Over(new)
    BY <1>1 DEF Over
  <2> QED
    BY <1>1, <1>6, <2>1, <2>2 DEF TypeOK
<1>7. CASE /\ ongoing_query_requests[r] = None
           /\ sent' = [sent EXCEPT ![c][r] = @ + 1]
           /\ GoTo(c, "select")
           /\ request' = [request EXCEPT ![c] = [request_id |-> r, query_id |-> q,
                                                 responder |-> None]]
           /\ raced' = IF \E d \in Clients : InHand(d, r) THEN raced \cup {r} ELSE raced
           /\ UNCHANGED told
  <2>1. /\ pc'[c] = "select" /\ request'[c].request_id = r
        /\ \A d \in Clients \ {c} : pc'[d] = pc[d] /\ request'[d] = request[d]
    BY <1>1, <1>7 DEF GoTo, TypeOK
  <2>2. \A d \in Clients, i \in RequestIds :
           InHand(d, i)' <=> InHand(d, i) \/ (d = c /\ i = r)
    BY <1>1, <2>1 DEF InHand
  <2>3. ASSUME NEW x \in Requests
        PROVE  Over(x)' <=> Over(x)
    <3>1. /\ x[1] \in Clients /\ x[2] \in RequestIds /\ x[3] \in 1..MaxSends
          /\ x = <<x[1], x[2], x[3]>>
      BY RequestIsTriple
    <3>2. CASE x[1] # c
      <4>1. InHand(x[1], x[2]) => CurrentRequest(x[1])' = CurrentRequest(x[1])
        BY <1>1, <1>6, <1>7, <2>1, <3>1, <3>2 DEF CurrentRequest, InHand
      <4> QED
        BY <1>6, <1>7, <2>2, <3>1, <3>2, <4>1 DEF Over
    <3>3. CASE x[1] = c
      <4>1. Over(x) <=> x[3] <= sent[c][x[2]]
        BY <1>1, <3>3 DEF Over, InHand
      <4>2. CurrentRequest(c)' = new
        BY <1>6, <1>7, <2>1 DEF CurrentRequest
      <4>3. Over(x)' <=> x[3] <= sent'[c][x[2]] /\ ~(x[2] = r /\ x = new)
        BY <1>1, <2>1, <3>3, <4>2 DEF Over, InHand
      <4> QED
        BY <1>1, <1>6, <1>7, <3>1, <3>3, <4>1, <4>3
    <3> QED
      BY <3>2, <3>3
  <2>4. \A s \in Clients, x \in Requests : /\ Answers(s, x)' <=> Answers(s, x)
                                           /\ Forgets(s, x)' <=> Forgets(s, x)
    <3>1. \A s \in Clients : \A x : /\ Answers(s, x)' <=> Answers(s, x)
                                    /\ Forgets(s, x)' <=> Forgets(s, x)
      BY <1>1, <1>2, <2>1, AnsweringKept
    <3> QED
      BY <3>1
  <2>5. \A x \in Requests : BeingEnded(x)' <=> BeingEnded(x)
    BY <1>3, <2>4, Enders
  <2>6. \A i : Disturbed(i) => Disturbed(i)'
    BY <1>2 DEF Disturbed
  <2>7. OverFirst'
    BY <1>2, <1>3, <1>7, <2>3, <2>5 DEF RequestInv, OverFirst
  <2>8. UncontestedIsSingle'
    BY <1>2, <1>3, <1>7, <2>4 DEF RequestInv, UncontestedIsSingle, Single
  <2>9. ForgottenIsTold' /\ Accounted'
    BY <1>2, <1>3, <1>7, <2>3, <2>4, <2>6, RequestIsTriple
       DEF RequestInv, ForgottenIsTold, Accounted
  <2>10. Undisturbed'
    <3>1. \A x \in Requests : BeingEnded(x)' => IsOngoing(x)' \/ Disturbed(x[2])'
      BY <1>3, <2>5, <2>6 DEF RequestInv, Undisturbed
    <3>2. \A x \in Requests : IsOngoing(x) => x[2] # r
      BY <1>7 DEF IsOngoing
    <3>3. \A d \in Clients, x \in Requests :
             InHand(d, x[2])' /\ IsOngoing(x)' => Disturbed(x[2])'
      BY <1>3, <2>2, <2>6, <3>2, RequestIsTriple DEF RequestInv, Undisturbed
    <3>4. \A d, e \in Clients, i \in RequestIds :
             InHand(d, i)' /\ InHand(e, i)' => d = e \/ i \in raced'
      <4>1. \A d \in Clients : InHand(d, r) => r \in raced'
        BY <1>7
      <4> QED
        BY <1>2, <2>2, <4>1 DEF RequestInv, Undisturbed
    <3> QED
      BY <3>1, <3>3, <3>4 DEF Undisturbed
  <2> QED
    BY <1>3, <2>7, <2>8, <2>9, <2>10 DEF RequestInv
<1>8. CASE /\ sent' = [sent EXCEPT ![c][r] = @ + 1]
           /\ Tell(new)
           /\ UNCHANGED <<pc, request, raced>>
  <2>1. \A d \in Clients, i \in RequestIds : InHand(d, i)' <=> InHand(d, i)
    BY <1>8 DEF InHand
  <2>2. ASSUME NEW x \in Requests
        PROVE  Over(x)' <=> Over(x) \/ x = new
    <3>1. /\ x[1] \in Clients /\ x[2] \in RequestIds /\ x[3] \in 1..MaxSends
          /\ x = <<x[1], x[2], x[3]>>
      BY RequestIsTriple
    <3>2. CASE x[1] # c
      <4>1. InHand(x[1], x[2]) => CurrentRequest(x[1])' = CurrentRequest(x[1])
        <5>1. InHand(x[1], x[2]) => request[x[1]].request_id = x[2]
          BY DEF InHand
        <5> QED
          BY <1>6, <1>8, <3>1, <3>2, <5>1 DEF CurrentRequest
      <4> QED
        BY <1>6, <1>8, <2>1, <3>1, <3>2, <4>1 DEF Over
    <3>3. CASE x[1] = c
      <4>1. (Over(x) <=> x[3] <= sent[c][x[2]]) /\ (Over(x)' <=> x[3] <= sent'[c][x[2]])
        BY <1>1, <1>8, <3>3 DEF Over, InHand
      <4> QED
        BY <1>1, <1>6, <1>8, <3>1, <3>3, <4>1
    <3> QED
      BY <3>2, <3>3
  <2>3. \A s \in Clients, x \in Requests : /\ Answers(s, x)' <=> Answers(s, x)
                                           /\ Forgets(s, x)' <=> Forgets(s, x)
    <3>1. \A s \in Clients : \A x : /\ Answers(s, x)' <=> Answers(s, x)
                                    /\ Forgets(s, x)' <=> Forgets(s, x)
      BY <1>2, <1>8, AnsweringKept
    <3> QED
      BY <3>1
  <2> HIDE DEF new
  <2> QED
    BY <1>1, <1>2, <1>3, <1>6, <1>8, <2>1, <2>2, <2>3, RequestEnds
<1> QED
  BY <1>5, <1>7, <1>8 DEF ReceiveQueryRequest

\* Without a candidate the request is over and told; else it stays in hand.
LEMMA SelectResponderLives ==
  ASSUME RoutingInv, RequestInv, NEW c \in Clients, SelectResponder(c)
  PROVE  RequestInv'
<1>1. TypeOK /\ pc[c] = "select"
  BY DEF RoutingInv, SelectResponder
<1>2. UNCHANGED <<rx, connected_clients, ongoing_query_requests, sweep, sent, dropped,
                  raced, contested>>
  BY DEF SelectResponder, registry, ongoing, marks
<1>3. CASE Tell(CurrentRequest(c)) /\ ReturnFromHandler(c)
  BY <1>1, <1>2, <1>3, HandReturned, RequestEnds
<1>4. CASE /\ GoTo(c, "lookup") /\ UNCHANGED <<answered, told>>
           /\ \E d : request' = [request EXCEPT ![c] =
                        [request_id |-> request[c].request_id,
                         query_id |-> request[c].query_id, responder |-> d]]
  <2>1. /\ pc'[c] = "lookup" /\ request'[c].request_id = request[c].request_id
        /\ \A d \in Clients \ {c} : pc'[d] = pc[d] /\ request'[d] = request[d]
    BY <1>1, <1>4 DEF GoTo, TypeOK
  <2>2. /\ \A d \in Clients, r \in RequestIds : InHand(d, r)' <=> InHand(d, r)
        /\ \A x \in Requests : Over(x)' <=> Over(x)
    BY <1>1, <1>2, <2>1, HandKept
  <2>3. \A d \in Clients : \A x : /\ Answers(d, x)' <=> Answers(d, x)
                                  /\ Forgets(d, x)' <=> Forgets(d, x)
    BY <1>1, <1>4, <2>1, AnsweringKept
  <2>4. SweptApart'
    BY <1>2, SweepKept DEF RequestInv
  <2> QED
    BY <1>2, <1>4, <2>2, <2>3, <2>4, OngoingKept, SweepKept, QuietStep DEF Here
<1> QED
  BY <1>3, <1>4 DEF SelectResponder

\* A session that moves on with the same request keeps it.
LEMMA MoveKeeps ==
  ASSUME TypeOK, RequestInv, NEW c \in Clients, NEW where,
         <<pc[c], where>> \in {<<"lookup", "send">>, <<"send", "record">>,
                               <<"loop", "remove">>, <<"remove", "retract">>,
                               <<"retract", "done">>},
         GoTo(c, where),
         \A d \in Clients : Here(d)' => Here(d),
         UNCHANGED <<request, answered, ongoing_query_requests, sweep, sent, told, dropped,
                     raced, contested>>
  PROVE  RequestInv'
<1>1. pc'[c] = where /\ \A d \in Clients \ {c} : pc'[d] = pc[d]
  BY DEF GoTo, TypeOK
<1>2. /\ \A d \in Clients, r \in RequestIds : InHand(d, r)' <=> InHand(d, r)
      /\ \A x \in Requests : Over(x)' <=> Over(x)
  BY <1>1, HandKept
<1>3. \A d \in Clients : \A x : /\ Answers(d, x)' <=> Answers(d, x)
                                /\ Forgets(d, x)' <=> Forgets(d, x)
  BY <1>1, AnsweringKept
<1>4. SweptApart'
  BY SweepKept DEF RequestInv
<1> QED
  BY <1>2, <1>3, <1>4, OngoingKept, SweepKept, QuietStep

\* A request whose responder has gone is dropped.
LEMMA LookUpResponderLives ==
  ASSUME RoutingInv, RequestInv, NEW c \in Clients, LookUpResponder(c)
  PROVE  RequestInv'
<1>1. TypeOK /\ pc[c] = "lookup"
  BY DEF RoutingInv, LookUpResponder
<1>2. UNCHANGED <<rx, connected_clients, ongoing_query_requests, sweep, sent, told, raced,
                  contested>>
  BY DEF LookUpResponder, registry, ongoing
<1>3. CASE request[c].responder \in connected_clients
  BY <1>1, <1>2, <1>3, MoveKeeps DEF LookUpResponder, handling, Here
<1>4. CASE request[c].responder \notin connected_clients
  <2>1. ReturnFromHandler(c) /\ dropped' = dropped \cup {CurrentRequest(c)}
    BY <1>4 DEF LookUpResponder
  <2> QED
    BY <1>1, <1>2, <2>1, HandReturned, RequestEnds
<1> QED
  BY <1>3, <1>4

\* A request that is forwarded stays in hand; one that cannot be is told, and over.
LEMMA SendQueryRequestedLives ==
  ASSUME RoutingInv, RequestInv, NEW c \in Clients, SendQueryRequested(c)
  PROVE  RequestInv'
<1>1. TypeOK /\ pc[c] = "send"
  BY DEF RoutingInv, SendQueryRequested
<1>2. UNCHANGED <<rx, connected_clients, ongoing_query_requests, sweep, sent, dropped,
                  raced, contested>>
  BY DEF SendQueryRequested, registry, ongoing, marks
<1>3. CASE GoTo(c, "record") /\ UNCHANGED <<request, answered, told>>
  BY <1>1, <1>2, <1>3, MoveKeeps DEF Here
<1>4. CASE Tell(CurrentRequest(c)) /\ ReturnFromHandler(c)
  BY <1>1, <1>2, <1>4, HandReturned, RequestEnds
<1> QED
  BY <1>3, <1>4 DEF SendQueryRequested, handling

\* A request goes from the hands of its session into the table.
LEMMA RecordOngoingRequestLives ==
  ASSUME RoutingInv, RequestInv, NEW c \in Clients, RecordOngoingRequest(c)
  PROVE  RequestInv'
<1> DEFINE r == request[c].request_id
           x == CurrentRequest(c)
           entry == [request_id |-> r, query_id |-> request[c].query_id, requester |-> c,
                     responder |-> request[c].responder, created_at |-> sent[c][r]]
<1>1. TypeOK /\ pc[c] = "record"
  BY DEF RoutingInv, RecordOngoingRequest
<1>2. /\ UNCHANGED <<rx, connected_clients, sweep, sent, told, dropped, raced, contested>>
      /\ ongoing_query_requests' = [ongoing_query_requests EXCEPT ![r] = entry]
      /\ ReturnFromHandler(c)
  BY DEF RecordOngoingRequest, registry, marks
<1>3. /\ x \in Requests /\ x[2] = r /\ r \in RequestIds
      /\ ~Over(x) /\ InHand(c, r)
      /\ \A y \in Requests : Over(y)' <=> Over(y) \/ y = x
      /\ \A d \in Clients, i \in RequestIds : InHand(d, i)' <=> InHand(d, i) /\ d # c
      /\ \A d \in Clients : \A y : /\ Answers(d, y)' <=> Answers(d, y)
                                   /\ Forgets(d, y)' <=> Forgets(d, y)
  BY <1>1, <1>2, HandReturned
<1>4. RequestOf(entry) = x /\ entry # None
  <2>1. RequestOf(entry) = x
    BY DEF RequestOf, CurrentRequest
  <2>2. entry \in OngoingQueryRequest
    <3>1. /\ request[c] \in QueryRequest /\ request[c].responder \in Clients
          /\ sent[c][r] \in 0..MaxSends /\ Asked(c, r)
      BY <1>1, <1>3 DEF TypeOK, RoutingInv, HandledIsAsked, HandledWell
    <3> QED
      BY <3>1, BoundsTyped DEF OngoingQueryRequest, QueryRequest, Asked
  <2> QED
    BY <2>1, <2>2, NoneIsNoRequest
<1>5. \A i \in RequestIds : ongoing_query_requests'[i] =
         IF i = r THEN entry ELSE ongoing_query_requests[i]
  BY <1>1, <1>2, <1>3 DEF TypeOK
<1> HIDE DEF entry, x, r
<1>6. ASSUME NEW y \in Requests
      PROVE  IsOngoing(y)' <=> IF y[2] = r THEN y = x ELSE IsOngoing(y)
  <2>1. y[2] \in RequestIds
    BY RequestIsTriple
  <2> QED
    BY <1>3, <1>4, <1>5, <2>1 DEF IsOngoing, RequestOf
<1>7. /\ \A d \in Clients : Here(d)' <=> Here(d)
      /\ \A y \in Requests : (WillSweep(y)' <=> WillSweep(y)) /\ (Sweeps(y)' <=> Sweeps(y))
      /\ SweptApart'
      /\ \A i : Disturbed(i)' <=> Disturbed(i)
  BY <1>2, SweepKept DEF Here, RequestInv, Disturbed
<1>8. \A y \in Requests : BeingEnded(y)' <=> BeingEnded(y)
  BY <1>3, <1>7, Enders
<1>9. ~IsOngoing(x) /\ ~BeingEnded(x) /\ told[x] = 0 /\ x \notin contested
  BY <1>3 DEF RequestInv, OverFirst
<1>10. \A y \in Requests : IsOngoing(y) /\ y[2] = r => Disturbed(r)
  BY <1>3 DEF RequestInv, Undisturbed
<1>11. OverFirst'
  BY <1>2, <1>3, <1>6, <1>8 DEF RequestInv, OverFirst
<1>12. UncontestedIsSingle'
  <2>1. ASSUME NEW y \in Requests \ contested
        PROVE  Single(y)'
    <3>1. Single(y)
      BY <2>1 DEF RequestInv, UncontestedIsSingle
    <3>2. CASE y = x
      BY <1>2, <1>3, <1>7, <1>9, <3>1, <3>2 DEF Single
    <3>3. CASE y # x
      BY <1>2, <1>3, <1>6, <1>7, <3>1, <3>3 DEF Single
    <3> QED
      BY <3>2, <3>3
  <2> QED
    BY <1>2, <2>1 DEF UncontestedIsSingle
<1>13. Undisturbed'
  <2>1. \A y \in Requests : BeingEnded(y)' => IsOngoing(y)' \/ Disturbed(y[2])'
    BY <1>6, <1>7, <1>8, <1>10 DEF RequestInv, Undisturbed
  <2>2. \A d \in Clients, y \in Requests :
           InHand(d, y[2])' /\ IsOngoing(y)' => Disturbed(y[2])'
    <3>1. \A d \in Clients : InHand(d, r) /\ d # c => Disturbed(r)
      BY <1>3 DEF RequestInv, Undisturbed, Disturbed
    <3> QED
      BY <1>3, <1>6, <1>7, <3>1, RequestIsTriple DEF RequestInv, Undisturbed
  <2>3. \A d, e \in Clients, i \in RequestIds :
           InHand(d, i)' /\ InHand(e, i)' => d = e \/ i \in raced'
    BY <1>2, <1>3 DEF RequestInv, Undisturbed
  <2> QED
    BY <2>1, <2>2, <2>3 DEF Undisturbed
<1>14. ForgottenIsTold'
  BY <1>2, <1>3, <1>7, RequestIsTriple DEF RequestInv, ForgottenIsTold
<1>15. Accounted'
  BY <1>2, <1>3, <1>6, <1>7, <1>10, RequestIsTriple DEF RequestInv, Accounted
<1> QED
  BY <1>7, <1>11, <1>12, <1>13, <1>14, <1>15 DEF RequestInv

-----------------------------------------------------------------------------
(* The handlers of answers.                                                *)

\* A session that takes up an answer sets out to end what is ongoing under its id;
\* a request that another task is about to end is contested from now on.
LEMMA ReceiveAnswerLives ==
  ASSUME RoutingInv, RequestInv, NEW s \in Clients, NEW r \in RequestIds, ReceiveAnswer(s, r)
  PROVE  RequestInv'
<1>1. TypeOK /\ pc[s] = "loop"
  BY DEF RoutingInv, ReceiveAnswer
<1>2. UNCHANGED <<request, rx, connected_clients, ongoing_query_requests, sweep, sent, told,
                  dropped, raced>>
  BY DEF ReceiveAnswer, registry, ongoing
<1>3. /\ \A d \in Clients : Here(d)' <=> Here(d)
      /\ \A y \in Requests : IsOngoing(y)' <=> IsOngoing(y)
      /\ \A y \in Requests : (WillSweep(y)' <=> WillSweep(y)) /\ (Sweeps(y)' <=> Sweeps(y))
      /\ SweptApart'
  BY <1>2, OngoingKept, SweepKept DEF Here, RequestInv
<1>4. CASE UNCHANGED <<pc, answered, contested>>
  <2>1. /\ \A d \in Clients, i \in RequestIds : InHand(d, i)' <=> InHand(d, i)
        /\ \A y \in Requests : Over(y)' <=> Over(y)
        /\ \A d \in Clients, y \in Requests : /\ Answers(d, y)' <=> Answers(d, y)
                                              /\ Forgets(d, y)' <=> Forgets(d, y)
    BY <1>2, <1>4, HandKept, AnsweringKept
  <2> QED
    BY <1>2, <1>3, <1>4, <2>1, QuietStep
<1>5. CASE /\ ongoing_query_requests[r] # None
           /\ GoTo(s, "deliver")
           /\ \E asked : answered' = [answered EXCEPT ![s] =
                            [entry |-> ongoing_query_requests[r], asked |-> asked]]
           /\ contested' = contested \cup AlreadyEnded({r})
  <2>1. /\ pc'[s] = "deliver" /\ answered'[s].entry = ongoing_query_requests[r]
        /\ \A d \in Clients \ {s} : pc'[d] = pc[d] /\ answered'[d] = answered[d]
    BY <1>1, <1>5 DEF GoTo, TypeOK
  <2>2. PICK x \in Requests : /\ x = RequestOf(ongoing_query_requests[r])
                              /\ x[2] = r /\ IsOngoing(x)
    BY <1>5, EntryIsOngoing
  <2>3. /\ \A d \in Clients, i \in RequestIds : InHand(d, i)' <=> InHand(d, i)
        /\ \A y \in Requests : Over(y)' <=> Over(y)
    BY <1>1, <1>2, <2>1, HandKept
  <2>4. \A d \in Clients : \A y : /\ Answers(d, y)' <=> Answers(d, y) \/ (d = s /\ y = x)
                                  /\ Forgets(d, y)' <=> Forgets(d, y)
    BY <1>1, <2>1, <2>2 DEF Answers, Forgets, RequestOf
  <2>5. \A y \in Requests : y \in contested' <=> y \in contested \/ (y = x /\ BeingEnded(x))
    BY <1>5, <2>2, OngoingIsOne DEF AlreadyEnded
  <2>6. \A y \in Requests : BeingEnded(y)' <=> BeingEnded(y) \/ y = x
    BY <1>3, <2>4, Enders
  <2>7. \A i : Disturbed(i) => Disturbed(i)'
    BY <1>2, <1>5 DEF Disturbed
  <2>8. OverFirst'
    BY <1>2, <1>3, <2>2, <2>3, <2>5, <2>6 DEF RequestInv, OverFirst
  <2>9. UncontestedIsSingle'
    <3>1. ASSUME NEW y \in Requests, y \notin contested'
          PROVE  Single(y)'
      <4>1. Single(y)
        BY <2>5, <3>1 DEF RequestInv, UncontestedIsSingle
      <4>2. CASE y # x
        BY <1>2, <1>3, <2>4, <4>1, <4>2 DEF Single
      <4>3. CASE y = x
        <5>1. ~BeingEnded(x)
          BY <2>5, <3>1, <4>3
        <5>2. /\ \A d \in Clients : ~Answers(d, x) /\ ~Forgets(d, x)
              /\ ~WillSweep(x) /\ ~Sweeps(x)
          BY <5>1, Enders
        <5>3. told[x] = 0 /\ told[x] <= 1
          BY <1>1, <2>2, <4>1, <4>3, <5>2 DEF Single, TypeOK
        <5> QED
          BY <1>2, <1>3, <2>4, <4>3, <5>2, <5>3 DEF Single
      <4> QED
        BY <4>2, <4>3
    <3> QED
      BY <3>1 DEF UncontestedIsSingle
  <2>10. Undisturbed'
    BY <1>2, <1>3, <2>2, <2>3, <2>6, <2>7, RequestIsTriple DEF RequestInv, Undisturbed
  <2>11. ForgottenIsTold' /\ Accounted'
    BY <1>2, <1>3, <2>3, <2>4, <2>7, RequestIsTriple
       DEF RequestInv, ForgottenIsTold, Accounted
  <2> QED
    BY <1>3, <2>8, <2>9, <2>10, <2>11 DEF RequestInv
<1> QED
  BY <1>4, <1>5 DEF ReceiveAnswer

\* A session that has told its answer is about to remove the entry; one that cannot
\* reach the requester leaves it.
LEMMA DeliverAnswerLives ==
  ASSUME RoutingInv, RequestInv, NEW s \in Clients, DeliverAnswer(s)
  PROVE  RequestInv'
<1>1. TypeOK /\ pc[s] = "deliver" /\ answered[s].entry \in OngoingQueryRequest
  BY DEF RoutingInv, TypeOK, DeliverAnswer, Answer
<1>2. PICK x \in Requests : /\ x = RequestOf(answered[s].entry)
                            /\ x[1] = answered[s].entry.requester
  BY <1>1, EntryIsRequest
<1>3. UNCHANGED <<rx, connected_clients, ongoing_query_requests, sweep, sent, dropped,
                  raced, contested>>
  BY DEF DeliverAnswer, registry, ongoing, marks
<1>4. /\ \A d \in Clients : Here(d)' <=> Here(d)
      /\ \A y \in Requests : IsOngoing(y)' <=> IsOngoing(y)
      /\ \A y \in Requests : (WillSweep(y)' <=> WillSweep(y)) /\ (Sweeps(y)' <=> Sweeps(y))
      /\ SweptApart'
      /\ \A i : Disturbed(i)' <=> Disturbed(i)
  BY <1>3, OngoingKept, SweepKept DEF Here, RequestInv, Disturbed
<1>5. \A y : (Answers(s, y) <=> y = x) /\ ~Forgets(s, y)
  BY <1>1, <1>2 DEF Answers, Forgets
<1>6. BeingEnded(x)
  BY <1>5, Enders
<1>7. \A y \in Requests : told[y] \in Nat
  BY <1>1 DEF TypeOK
<1>8. CASE /\ Here(x[1])
           /\ Tell(x) /\ GoTo(s, "forget") /\ UNCHANGED <<request, answered>>
  <2>1. pc'[s] = "forget" /\ \A d \in Clients \ {s} : pc'[d] = pc[d]
    BY <1>1, <1>8 DEF GoTo, TypeOK
  <2>2. /\ \A d \in Clients, i \in RequestIds : InHand(d, i)' <=> InHand(d, i)
        /\ \A y \in Requests : Over(y)' <=> Over(y)
    BY <1>1, <1>3, <1>8, <2>1, HandKept
  <2>3. \A d \in Clients : \A y : /\ Answers(d, y)' <=> Answers(d, y) /\ d # s
                                  /\ Forgets(d, y)' <=> Forgets(d, y) \/ (d = s /\ y = x)
    BY <1>2, <1>8, <2>1 DEF Answers, Forgets, RequestOf
  <2>4. \A y \in Requests : told'[y] = IF y = x THEN told[x] + 1 ELSE told[y]
    BY <1>1, <1>8, TellCounts DEF Here
  <2>5. \A y \in Requests : BeingEnded(y)' <=> BeingEnded(y)
    BY <1>4, <1>5, <2>3, Enders
  <2>6. OverFirst'
    BY <1>3, <1>4, <1>6, <2>2, <2>4, <2>5 DEF RequestInv, OverFirst
  <2>7. UncontestedIsSingle'
    <3>1. ASSUME NEW y \in Requests \ contested
          PROVE  Single(y)'
      <4>1. Single(y)
        BY <3>1 DEF RequestInv, UncontestedIsSingle
      <4>2. CASE y # x
        BY <1>4, <1>5, <2>3, <2>4, <4>1, <4>2 DEF Single
      <4>3. CASE y = x
        <5>1. /\ told[x] = 0 /\ ~WillSweep(x) /\ ~Sweeps(x)
              /\ \A d \in Clients \ {s} : ~Answers(d, x) /\ ~Forgets(d, x)
          BY <1>5, <4>1, <4>3 DEF Single
        <5> QED
          BY <1>4, <2>3, <2>4, <4>3, <5>1 DEF Single
      <4> QED
        BY <4>2, <4>3
    <3> QED
      BY <1>3, <3>1 DEF UncontestedIsSingle
  <2>8. Undisturbed'
    BY <1>3, <1>4, <2>2, <2>5, RequestIsTriple DEF RequestInv, Undisturbed
  <2>9. ForgottenIsTold'
    <3>1. \A y \in Requests : told[y] > 0 => told'[y] > 0
      BY <1>7, <2>4
    <3>2. told'[x] > 0
      BY <1>7, <2>4
    <3> QED
      BY <1>4, <2>3, <3>1, <3>2, RequestIsTriple DEF RequestInv, ForgottenIsTold
  <2>10. Accounted'
    BY <1>3, <1>4, <1>7, <2>2, <2>4, RequestIsTriple DEF RequestInv, Accounted
  <2> QED
    BY <1>4, <2>6, <2>7, <2>8, <2>9, <2>10 DEF RequestInv
<1>9. CASE ReturnFromHandler(s) /\ UNCHANGED told
  <2>1. pc'[s] = "loop" /\ \A d \in Clients \ {s} : /\ pc'[d] = pc[d] /\ request'[d] = request[d]
                                                    /\ answered'[d] = answered[d]
    BY <1>1, <1>9 DEF ReturnFromHandler, GoTo, TypeOK
  <2>2. /\ \A d \in Clients, i \in RequestIds : InHand(d, i)' <=> InHand(d, i)
        /\ \A y \in Requests : Over(y)' <=> Over(y)
    BY <1>1, <1>3, <2>1, HandKept
  <2>3. \A d \in Clients : \A y : /\ Answers(d, y)' <=> Answers(d, y) /\ d # s
                                  /\ Forgets(d, y)' <=> Forgets(d, y)
    BY <1>1, <2>1 DEF Answers, Forgets, RequestOf
  <2>4. \A y \in Requests : BeingEnded(y)' => BeingEnded(y)
    BY <1>4, <2>3, Enders
  <2>5. OverFirst'
    BY <1>3, <1>4, <1>9, <2>2, <2>4 DEF RequestInv, OverFirst
  <2>6. UncontestedIsSingle'
    BY <1>3, <1>4, <1>9, <2>3 DEF RequestInv, UncontestedIsSingle, Single
  <2>7. Undisturbed'
    BY <1>3, <1>4, <2>2, <2>4, RequestIsTriple DEF RequestInv, Undisturbed
  <2>8. ForgottenIsTold' /\ Accounted'
    BY <1>3, <1>4, <1>9, <2>2, <2>3, RequestIsTriple DEF RequestInv, ForgottenIsTold, Accounted
  <2> QED
    BY <1>4, <2>5, <2>6, <2>7, <2>8 DEF RequestInv
<1> QED
  BY <1>2, <1>8, <1>9 DEF DeliverAnswer, handling, Here

\* The table after a removal.
LEMMA OngoingRemoved ==
  ASSUME TypeOK, NEW r \in RequestIds, RemoveOngoingRequest(r)
  PROVE  \A y \in Requests : IsOngoing(y)' <=> IsOngoing(y) /\ y[2] # r
<1>1. \A i \in RequestIds : ongoing_query_requests'[i] =
         IF i = r THEN None ELSE ongoing_query_requests[i]
  BY DEF RemoveOngoingRequest, TypeOK
<1> QED
  BY <1>1, RequestIsTriple DEF IsOngoing

\* A task that removes the request it was about has told it; unless the id was
\* disturbed, nothing else is removed, and nobody else is about to end it.
LEMMA RequestForgotten ==
  ASSUME RequestInv, NEW x \in Requests, BeingEnded(x),
         Here(x[1]) => told[x] > 0,
         x \notin contested => ~BeingEnded(x)',
         UNCHANGED <<rx, connected_clients, told, dropped, raced, contested>>,
         SweptApart',
         \A c \in Clients, r \in RequestIds : InHand(c, r)' <=> InHand(c, r),
         \A y \in Requests : Over(y)' <=> Over(y),
         \A y \in Requests : IsOngoing(y)' <=> IsOngoing(y) /\ y[2] # x[2],
         \A y \in Requests : WillSweep(y)' <=> WillSweep(y),
         \A y \in Requests : /\ Sweeps(y)' => Sweeps(y)
                             /\ Sweeps(y) /\ y # x => Sweeps(y)',
         \A s \in Clients, y \in Requests : /\ Answers(s, y)' <=> Answers(s, y)
                                            /\ Forgets(s, y)' => Forgets(s, y)
                                            /\ Forgets(s, y) /\ y # x => Forgets(s, y)'
  PROVE  RequestInv'
<1>1. /\ \A d \in Clients : Here(d)' <=> Here(d)
      /\ \A i : Disturbed(i)' <=> Disturbed(i)
  BY DEF Here, Disturbed
<1>2. \A y \in Requests : BeingEnded(y)' => BeingEnded(y)
  BY Enders
<1>3. ASSUME NEW y \in Requests, y[2] = x[2], IsOngoing(y), ~Disturbed(x[2])
      PROVE  y = x /\ x \notin contested
  <2>1. IsOngoing(x)
    BY <1>3 DEF RequestInv, Undisturbed
  <2> QED
    BY <1>3, <2>1, OngoingIsOne DEF Disturbed
<1>4. OverFirst'
  BY <1>2 DEF RequestInv, OverFirst
<1>5. UncontestedIsSingle'
  <2>1. ASSUME NEW y \in Requests \ contested
        PROVE  Single(y)'
    <3>1. Single(y)
      BY <2>1 DEF RequestInv, UncontestedIsSingle
    <3>2. CASE y # x
      BY <3>1, <3>2 DEF Single
    <3>3. CASE y = x
      <4>1. ~IsOngoing(x)' /\ ~BeingEnded(x)'
        BY <2>1, <3>3
      <4>2. /\ \A s \in Clients : ~Answers(s, x)' /\ ~Forgets(s, x)'
            /\ ~WillSweep(x)' /\ ~Sweeps(x)'
        BY <4>1, Enders
      <4> QED
        BY <3>1, <3>3, <4>1, <4>2 DEF Single
    <3> QED
      BY <3>2, <3>3
  <2> QED
    BY <2>1 DEF UncontestedIsSingle
<1>6. Undisturbed'
  <2>1. ASSUME NEW y \in Requests, BeingEnded(y)'
        PROVE  IsOngoing(y)' \/ Disturbed(y[2])'
    <3>1. IsOngoing(y) \/ Disturbed(y[2])
      BY <1>2, <2>1 DEF RequestInv, Undisturbed
    <3> QED
      BY <1>1, <1>3, <2>1, <3>1
  <2>2. \A c \in Clients, y \in Requests :
           InHand(c, y[2])' /\ IsOngoing(y)' => Disturbed(y[2])'
    BY <1>1, RequestIsTriple DEF RequestInv, Undisturbed
  <2>3. \A c, d \in Clients, i \in RequestIds :
           InHand(c, i)' /\ InHand(d, i)' => c = d \/ i \in raced'
    BY DEF RequestInv, Undisturbed
  <2> QED
    BY <2>1, <2>2, <2>3 DEF Undisturbed
<1>7. ForgottenIsTold'
  BY <1>1, RequestIsTriple DEF RequestInv, ForgottenIsTold
<1>8. Accounted'
  BY <1>1, <1>3, RequestIsTriple DEF RequestInv, Accounted
<1> QED
  BY <1>4, <1>5, <1>6, <1>7, <1>8 DEF RequestInv

\* An answer removes its request, which it has told before.
LEMMA ForgetAnsweredLives ==
  ASSUME RoutingInv, RequestInv, NEW s \in Clients, ForgetAnswered(s)
  PROVE  RequestInv'
<1>1. TypeOK /\ pc[s] = "forget" /\ answered[s].entry \in OngoingQueryRequest
  BY DEF RoutingInv, TypeOK, ForgetAnswered, Answer
<1>2. PICK x \in Requests : /\ x = RequestOf(answered[s].entry)
                            /\ x[2] = answered[s].entry.request_id
  BY <1>1, EntryIsRequest
<1>3. /\ UNCHANGED <<rx, connected_clients, sweep, sent, told, dropped, raced, contested>>
      /\ RemoveOngoingRequest(x[2]) /\ ReturnFromHandler(s)
  BY <1>2 DEF ForgetAnswered, registry, marks
<1>4. pc'[s] = "loop" /\ \A d \in Clients \ {s} : /\ pc'[d] = pc[d] /\ request'[d] = request[d]
                                                  /\ answered'[d] = answered[d]
  BY <1>1, <1>3 DEF ReturnFromHandler, GoTo, TypeOK
<1>5. /\ \A d \in Clients, i \in RequestIds : InHand(d, i)' <=> InHand(d, i)
      /\ \A y \in Requests : Over(y)' <=> Over(y)
  BY <1>1, <1>3, <1>4, HandKept
<1>6. \A d \in Clients : \A y : /\ Answers(d, y)' <=> Answers(d, y)
                                /\ Forgets(d, y)' <=> Forgets(d, y) /\ d # s
  BY <1>1, <1>4 DEF Answers, Forgets, RequestOf
<1>7. \A y : Forgets(s, y) <=> y = x
  BY <1>1, <1>2 DEF Forgets
<1>8. /\ \A y \in Requests : (WillSweep(y)' <=> WillSweep(y)) /\ (Sweeps(y)' <=> Sweeps(y))
      /\ SweptApart'
  BY <1>3, SweepKept DEF RequestInv
<1>9. \A y \in Requests : IsOngoing(y)' <=> IsOngoing(y) /\ y[2] # x[2]
  BY <1>1, <1>3, OngoingRemoved, RequestIsTriple
<1>10. BeingEnded(x) /\ (Here(x[1]) => told[x] > 0)
  BY <1>7, Enders DEF RequestInv, ForgottenIsTold
<1>11. x \notin contested => ~BeingEnded(x)'
  <2>1. x \notin contested => Single(x)
    BY DEF RequestInv, UncontestedIsSingle
  <2>2. x \notin contested => /\ \A d \in Clients : d # s => ~Answers(d, x) /\ ~Forgets(d, x)
                              /\ ~Answers(s, x) /\ ~WillSweep(x) /\ ~Sweeps(x)
    BY <1>1, <1>7, <2>1 DEF Single, Answers
  <2> QED
    BY <1>6, <1>8, <2>2, Enders
<1> QED
  BY <1>3, <1>5, <1>6, <1>7, <1>8, <1>9, <1>10, <1>11, RequestForgotten

-----------------------------------------------------------------------------
(* Clients that leave, time and the heartbeat task.                        *)

\* Leaving and expiry leave every request as it is.
LEMMA LeaveLives ==
  ASSUME RoutingInv, RequestInv, NEW c \in Clients,
         StreamEnds(c) \/ CloseRemove(c) \/ CloseRetract(c)
  PROVE  RequestInv'
<1>1. TypeOK
  BY DEF RoutingInv
<1>2. PICK where : /\ GoTo(c, where)
                   /\ <<pc[c], where>> \in {<<"loop", "remove">>, <<"remove", "retract">>,
                                            <<"retract", "done">>}
  BY DEF StreamEnds, CloseRemove, CloseRetract
<1>3. UNCHANGED <<request, answered, rx, ongoing_query_requests, sweep, sent, told, dropped,
                  raced, contested>>
  BY DEF StreamEnds, CloseRemove, CloseRetract, handling, registry, ongoing, marks
<1>4. connected_clients' \subseteq connected_clients
  BY DEF StreamEnds, CloseRemove, CloseRetract, registry
<1> QED
  BY <1>1, <1>2, <1>3, <1>4, MoveKeeps DEF Here

\* So does a step in which no session moves and no entry is removed.
LEMMA StandStill ==
  ASSUME RequestInv, SweptApart',
         UNCHANGED <<pc, request, answered, ongoing_query_requests, sent, told, marks>>,
         rx' \subseteq rx, connected_clients' \subseteq connected_clients,
         sweep'.todo = sweep.todo,
         UNCHANGED sweep \/ (sweep.pc # "forget" /\ sweep'.pc # "forget")
  PROVE  RequestInv'
<1>1. UNCHANGED <<dropped, raced, contested>>
  BY DEF marks
<1>2. /\ \A d \in Clients, i \in RequestIds : InHand(d, i)' <=> InHand(d, i)
      /\ \A y \in Requests : Over(y)' <=> Over(y)
      /\ \A d \in Clients : \A y : /\ Answers(d, y)' <=> Answers(d, y)
                                   /\ Forgets(d, y)' <=> Forgets(d, y)
  BY HandKept, AnsweringKept
<1>3. \A y : (WillSweep(y)' <=> WillSweep(y)) /\ (Sweeps(y)' <=> Sweeps(y))
  BY DEF WillSweep, Sweeps, RequestOf
<1> QED
  BY <1>1, <1>2, <1>3, OngoingKept, QuietStep DEF Here

\* Whatever concerns neither requests nor answers changes no life.
LEMMA OthersLive ==
  ASSUME RoutingInv, RequestInv,
         \/ \E c \in Clients : DropReceiver(c) \/ ExpelRemove(c)
         \/ \E r \in RequestIds : Expire(r)
         \/ ExpelRetract \/ SweepEnds \/ UNCHANGED vars
  PROVE  RequestInv'
<1>1. TypeOK
  BY DEF RoutingInv
<1>2. UNCHANGED <<pc, request, answered, ongoing_query_requests, sent, told, marks>>
  BY DEF DropReceiver, ExpelRemove, Expire, ExpelRetract, SweepEnds, handling, ongoing,
         marks, vars
<1>3. rx' \subseteq rx /\ connected_clients' \subseteq connected_clients
  BY DEF DropReceiver, ExpelRemove, Expire, ExpelRetract, SweepEnds, registry, vars
<1>4. /\ sweep'.todo = sweep.todo
      /\ UNCHANGED sweep \/ (sweep.pc # "forget" /\ sweep'.pc # "forget")
  BY <1>1 DEF DropReceiver, ExpelRemove, Expire, ExpelRetract, SweepEnds, vars, TypeOK
<1>5. SweptApart'
  BY <1>4 DEF RequestInv, SweptApart
<1> QED
  BY <1>2, <1>3, <1>4, <1>5, StandStill

\* A snapshot sets out to end all that is overdue; a request that a session is about
\* to end is contested from now on.
LEMMA SweepBeginsLives ==
  ASSUME RoutingInv, RequestInv, SweepBegins
  PROVE  RequestInv'
<1> DEFINE snapshot == {ongoing_query_requests[r] : r \in overdue}
<1>1. /\ TypeOK /\ sweep.pc = "wait" /\ overdue \in SUBSET RequestIds
      /\ \A r \in overdue : ongoing_query_requests[r] # None
  BY DEF RoutingInv, TypeOK, SweepBegins, OverdueIsOngoing
<1>2. /\ UNCHANGED <<pc, request, answered, rx, connected_clients, ongoing_query_requests,
                     sent, told, dropped, raced>>
      /\ contested' = contested \cup AlreadyEnded(overdue)
      /\ sweep' = [sweep EXCEPT !.pc = "visit", !.todo = snapshot]
  BY DEF SweepBegins, handling, registry, ongoing
<1>3. /\ \A d \in Clients : Here(d)' <=> Here(d)
      /\ \A y \in Requests : IsOngoing(y)' <=> IsOngoing(y)
      /\ \A d \in Clients, i \in RequestIds : InHand(d, i)' <=> InHand(d, i)
      /\ \A y \in Requests : Over(y)' <=> Over(y)
      /\ \A d \in Clients, y \in Requests : /\ Answers(d, y)' <=> Answers(d, y)
                                            /\ Forgets(d, y)' <=> Forgets(d, y)
  <2>1. \A d \in Clients : \A y : /\ Answers(d, y)' <=> Answers(d, y)
                                  /\ Forgets(d, y)' <=> Forgets(d, y)
    BY <1>2, AnsweringKept
  <2> QED
    BY <1>2, <2>1, HandKept, OngoingKept DEF Here
<1>4. sweep'.pc = "visit" /\ sweep'.todo = snapshot
  BY <1>1, <1>2 DEF TypeOK
<1>5. \A r \in overdue : LET x == RequestOf(ongoing_query_requests[r]) IN
         x \in Requests /\ x[2] = r /\ IsOngoing(x) /\ ongoing_query_requests[r].request_id = r
  BY <1>1, EntryIsOngoing DEF RoutingInv, TableIsGenuine
<1>6. SweptApart'
  BY <1>4, <1>5 DEF SweptApart
<1>7. \A y \in Requests : WillSweep(y)' <=> y[2] \in overdue /\ IsOngoing(y)
  <2>1. \A y : WillSweep(y)' <=> \E r \in overdue : RequestOf(ongoing_query_requests[r]) = y
    BY <1>4 DEF WillSweep, RequestOf
  <2>2. ASSUME NEW y \in Requests, y[2] \in overdue, IsOngoing(y)
        PROVE  RequestOf(ongoing_query_requests[y[2]]) = y
    BY <2>2 DEF IsOngoing
  <2> QED
    BY <1>5, <2>1, <2>2
<1>8. \A y : ~Sweeps(y) /\ ~Sweeps(y)'
  BY <1>1, <1>4 DEF Sweeps
<1>9. \A y \in Requests : y \in contested' <=>
         y \in contested \/ (y[2] \in overdue /\ IsOngoing(y) /\ BeingEnded(y))
  BY <1>2 DEF AlreadyEnded
<1>10. \A y \in Requests : BeingEnded(y)' => BeingEnded(y) \/ IsOngoing(y)
  BY <1>3, <1>7, <1>8, Enders
<1>11. \A i : Disturbed(i) => Disturbed(i)'
  BY <1>2 DEF Disturbed
<1>12. OverFirst'
  BY <1>2, <1>3, <1>9, <1>10 DEF RequestInv, OverFirst
<1>13. UncontestedIsSingle'
  <2>1. ASSUME NEW y \in Requests, y \notin contested'
        PROVE  Single(y)'
    <3>1. Single(y) /\ told[y] \in Nat
      BY <1>1, <1>9, <2>1 DEF RequestInv, UncontestedIsSingle, TypeOK
    <3>2. CASE WillSweep(y)'
      <4>1. IsOngoing(y) /\ ~BeingEnded(y)
        BY <1>7, <1>9, <2>1, <3>2
      <4>2. \A d \in Clients : ~Answers(d, y) /\ ~Forgets(d, y)
        BY <4>1, Enders
      <4>3. told[y] = 0
        BY <1>8, <3>1, <4>1, <4>2 DEF Single
      <4> QED
        BY <1>2, <1>3, <1>8, <4>2, <4>3 DEF Single
    <3>3. CASE ~WillSweep(y)'
      BY <1>2, <1>3, <1>8, <3>1, <3>3 DEF Single
    <3> QED
      BY <3>2, <3>3
  <2> QED
    BY <2>1 DEF UncontestedIsSingle
<1>14. Undisturbed'
  BY <1>2, <1>3, <1>10, <1>11, RequestIsTriple DEF RequestInv, Undisturbed
<1>15. ForgottenIsTold' /\ Accounted'
  BY <1>2, <1>3, <1>8, <1>11, RequestIsTriple DEF RequestInv, ForgottenIsTold, Accounted
<1> QED
  BY <1>6, <1>12, <1>13, <1>14, <1>15 DEF RequestInv

\* The sweep tells an overdue request, and is about to remove it.
LEMMA SweepTellsLives ==
  ASSUME RoutingInv, RequestInv, NEW entry \in sweep.todo, SweepTells(entry)
  PROVE  RequestInv'
<1>1. TypeOK /\ entry \in OngoingQueryRequest /\ sweep.pc = "visit"
  BY DEF RoutingInv, TypeOK, SweepTells
<1>2. PICK x \in Requests : /\ x = RequestOf(entry)
                            /\ x[1] = entry.requester /\ x[2] = entry.request_id
  BY <1>1, EntryIsRequest
<1>3. /\ UNCHANGED <<pc, request, answered, rx, connected_clients, ongoing_query_requests,
                     sent, dropped, raced, contested>>
      /\ IF x[1] \in connected_clients THEN Tell(x) ELSE UNCHANGED told
      /\ sweep' = [sweep EXCEPT !.pc = "forget", !.todo = @ \ {entry}, !.entry = entry]
  BY <1>2 DEF SweepTells, handling, registry, ongoing, marks
<1>4. /\ \A d \in Clients : Here(d)' <=> Here(d)
      /\ \A y \in Requests : IsOngoing(y)' <=> IsOngoing(y)
      /\ \A d \in Clients, i \in RequestIds : InHand(d, i)' <=> InHand(d, i)
      /\ \A y \in Requests : Over(y)' <=> Over(y)
      /\ \A i : Disturbed(i)' <=> Disturbed(i)
      /\ \A d \in Clients, y \in Requests : /\ Answers(d, y)' <=> Answers(d, y)
                                            /\ Forgets(d, y)' <=> Forgets(d, y)
  <2>1. \A d \in Clients : \A y : /\ Answers(d, y)' <=> Answers(d, y)
                                  /\ Forgets(d, y)' <=> Forgets(d, y)
    BY <1>3, AnsweringKept
  <2> QED
    BY <1>3, <2>1, HandKept, OngoingKept DEF Here, Disturbed
<1>5. sweep'.pc = "forget" /\ sweep'.todo = sweep.todo \ {entry} /\ sweep'.entry = entry
  BY <1>1, <1>3 DEF TypeOK
<1>6. SweptApart'
  BY <1>1, <1>5 DEF RequestInv, SweptApart
<1>7. \A e \in sweep.todo : RequestOf(e) = x => e = entry
  <2>1. \A e \in sweep.todo : RequestOf(e)[2] = e.request_id
    BY <1>1, EntryIsRequest DEF TypeOK
  <2> QED
    BY <1>2, <2>1 DEF RequestInv, SweptApart
<1>8. \A y \in Requests : WillSweep(y)' <=> WillSweep(y) /\ y # x
  BY <1>2, <1>5, <1>7 DEF WillSweep, RequestOf
<1>9. \A y : ~Sweeps(y) /\ (Sweeps(y)' <=> y = x)
  BY <1>1, <1>2, <1>5 DEF Sweeps, RequestOf
<1>10. WillSweep(x) /\ BeingEnded(x)
  BY <1>2, Enders DEF WillSweep
<1>11. \A y \in Requests : BeingEnded(y)' <=> BeingEnded(y)
  BY <1>4, <1>8, <1>9, <1>10, Enders
<1>12. \A y \in Requests : /\ told[y] \in Nat /\ told'[y] \in Nat
                           /\ y # x => told'[y] = told[y]
                           /\ told[y] <= told'[y] /\ told'[y] <= told[y] + 1
  BY <1>1, <1>3, TellCounts DEF TypeOK
<1>13. Here(x[1]) => told'[x] > 0
  BY <1>1, <1>3, TellCounts DEF Here
<1>14. OverFirst'
  BY <1>3, <1>4, <1>10, <1>11, <1>12 DEF RequestInv, OverFirst
<1>15. UncontestedIsSingle'
  <2>1. ASSUME NEW y \in Requests \ contested
        PROVE  Single(y)'
    <3>1. Single(y)
      BY <2>1 DEF RequestInv, UncontestedIsSingle
    <3>2. CASE y # x
      BY <1>4, <1>8, <1>9, <1>12, <3>1, <3>2 DEF Single
    <3>3. CASE y = x
      <4>1. told[x] = 0 /\ \A d \in Clients : ~Answers(d, x) /\ ~Forgets(d, x)
        BY <1>10, <3>1, <3>3 DEF Single
      <4>2. told'[x] <= 1
        BY <1>12, <4>1
      <4> QED
        BY <1>4, <1>8, <1>9, <3>3, <4>1, <4>2 DEF Single
    <3> QED
      BY <3>2, <3>3
  <2> QED
    BY <1>3, <2>1 DEF UncontestedIsSingle
<1>16. Undisturbed'
  BY <1>3, <1>4, <1>11, RequestIsTriple DEF RequestInv, Undisturbed
<1>17. ForgottenIsTold'
  BY <1>4, <1>9, <1>12, <1>13, RequestIsTriple DEF RequestInv, ForgottenIsTold
<1>18. Accounted'
  BY <1>3, <1>4, <1>12, RequestIsTriple DEF RequestInv, Accounted
<1> QED
  BY <1>6, <1>14, <1>15, <1>16, <1>17, <1>18 DEF RequestInv

\* The sweep removes what it told.
LEMMA SweepForgetsLives ==
  ASSUME RoutingInv, RequestInv, SweepForgets
  PROVE  RequestInv'
<1>1. TypeOK /\ sweep.pc = "forget" /\ sweep.entry \in OngoingQueryRequest
  BY DEF RoutingInv, TypeOK, SweepForgets
<1>2. PICK x \in Requests : x = RequestOf(sweep.entry) /\ x[2] = sweep.entry.request_id
  BY <1>1, EntryIsRequest
<1>3. /\ UNCHANGED <<pc, request, answered, rx, connected_clients, sent, told, dropped,
                     raced, contested>>
      /\ RemoveOngoingRequest(x[2])
      /\ sweep' = [sweep EXCEPT !.pc = "visit", !.entry = None]
  BY <1>2 DEF SweepForgets, handling, registry, marks
<1>4. /\ \A d \in Clients, i \in RequestIds : InHand(d, i)' <=> InHand(d, i)
      /\ \A y \in Requests : Over(y)' <=> Over(y)
      /\ \A d \in Clients : \A y : /\ Answers(d, y)' <=> Answers(d, y)
                                   /\ Forgets(d, y)' <=> Forgets(d, y)
  BY <1>3, HandKept, AnsweringKept
<1>5. sweep'.pc = "visit" /\ sweep'.todo = sweep.todo
  BY <1>1, <1>3 DEF TypeOK
<1>6. SweptApart'
  BY <1>5 DEF RequestInv, SweptApart
<1>7. \A y : /\ WillSweep(y)' <=> WillSweep(y)
             /\ ~Sweeps(y)' /\ (Sweeps(y) <=> y = x)
  BY <1>1, <1>2, <1>5 DEF WillSweep, Sweeps, RequestOf
<1>8. \A y \in Requests : IsOngoing(y)' <=> IsOngoing(y) /\ y[2] # x[2]
  BY <1>1, <1>3, OngoingRemoved, RequestIsTriple
<1>9. BeingEnded(x) /\ (Here(x[1]) => told[x] > 0)
  BY <1>7, Enders DEF RequestInv, ForgottenIsTold
<1>10. x \notin contested => ~BeingEnded(x)'
  <2>1. ~WillSweep(x)
    <3>1. \A e \in sweep.todo : RequestOf(e)[2] = e.request_id
      BY <1>1, EntryIsRequest DEF TypeOK
    <3> QED
      BY <1>1, <1>2, <3>1 DEF RequestInv, SweptApart, WillSweep
  <2>2. x \notin contested => Single(x)
    BY DEF RequestInv, UncontestedIsSingle
  <2>3. x \notin contested => \A d \in Clients : ~Answers(d, x) /\ ~Forgets(d, x)
    BY <1>7, <2>2 DEF Single
  <2> QED
    BY <1>4, <1>7, <2>1, <2>3, Enders
<1> QED
  BY <1>3, <1>4, <1>6, <1>7, <1>8, <1>9, <1>10, RequestForgotten

-----------------------------------------------------------------------------
(* Every step of the broker.                                               *)

LEMMA InitLives == Init => RequestInv
<1> SUFFICES ASSUME Init PROVE RequestInv
  OBVIOUS
<1> USE DEF Init
<1>1. \A x \in Requests : /\ x[1] \in Clients /\ x[2] \in RequestIds /\ x[3] \in 1..MaxSends
                          /\ told[x] = 0
  BY RequestIsTriple
<1>2. \A x \in Requests : ~Over(x) /\ ~IsOngoing(x)
  BY <1>1, BoundsTyped DEF Over, IsOngoing
<1>3. \A x \in Requests, s \in Clients :
         ~Answers(s, x) /\ ~Forgets(s, x) /\ ~WillSweep(x) /\ ~Sweeps(x)
  BY DEF Answers, Forgets, WillSweep, Sweeps
<1>4. \A x \in Requests : ~BeingEnded(x)
  BY DEF BeingEnded
<1>5. \A c \in Clients : \A r : ~InHand(c, r)
  BY DEF InHand
<1>6. OverFirst /\ Undisturbed /\ Accounted /\ ForgottenIsTold
  BY <1>1, <1>2, <1>3, <1>4, <1>5 DEF OverFirst, Undisturbed, Accounted, ForgottenIsTold, Sweeps
<1>7. UncontestedIsSingle
  BY <1>1, <1>2, <1>3, <1>4, Enders DEF UncontestedIsSingle, Single, Sweeps, WillSweep
<1>8. SweptApart
  BY DEF SweptApart
<1> QED
  BY <1>6, <1>7, <1>8 DEF RequestInv

\* The life of the requests is an inductive invariant.
LEMMA RequestStep == RoutingInv /\ RequestInv /\ [Next]_vars => RequestInv'
<1> SUFFICES ASSUME RoutingInv, RequestInv, [Next]_vars
             PROVE  RequestInv'
  OBVIOUS
<1>1. ASSUME NEW c \in Clients, Session(c)
      PROVE  RequestInv'
  BY <1>1, ReceiveQueryRequestLives, SelectResponderLives, LookUpResponderLives,
     SendQueryRequestedLives, RecordOngoingRequestLives, ReceiveAnswerLives,
     DeliverAnswerLives, ForgetAnsweredLives, LeaveLives, OthersLive DEF Session
<1>2. CASE Heartbeat
  BY <1>2, OthersLive, SweepBeginsLives, SweepTellsLives, SweepForgetsLives DEF Heartbeat
<1> QED
  BY <1>1, <1>2, OthersLive DEF Next

\* So every request lives as described.
LEMMA RequestAlways == Spec => [](RoutingInv /\ RequestInv)
BY InitRouting, RoutingStep, InitLives, RequestStep, PTL DEF Spec

\* handle_query_response_message, handle_query_handling_error_message and the sweep
\* between them tell no requester twice about a request, unless two of them were at
\* it at the same time.
THEOREM NoSecondAnswer == Spec => []AnsweredAtMostOnce
<1>1. RequestInv => AnsweredAtMostOnce
  BY DEF RequestInv, UncontestedIsSingle, Single, AnsweredAtMostOnce
<1> QED
  BY <1>1, RequestAlways, PTL

\* handle_query_request_message, the answers to it and the sweep lose no request: it
\* is in hand, in the table or told, unless its responder left in between, or its id
\* was disturbed.
THEOREM NoRequestIsForgotten == Spec => []NoAskForgotten
<1>1. RequestInv => NoAskForgotten
  BY DEF RequestInv, Accounted, Over, Here, NoAskForgotten
<1> QED
  BY <1>1, RequestAlways, PTL

-----------------------------------------------------------------------------
(* Which step moves a session, and which removes an entry.                 *)

\* An action of a session moves no other session.
LEMMA SessionAlone ==
  ASSUME TypeOK, NEW c \in Clients, Session(c), NEW d \in Clients, d # c
  PROVE  pc'[d] = pc[d] /\ request'[d] = request[d] /\ answered'[d] = answered[d]
<1>1. CASE \E r \in RequestIds, q \in QueryIds : ReceiveQueryRequest(c, r, q)
  BY <1>1 DEF ReceiveQueryRequest, GoTo, TypeOK
<1>2. CASE SelectResponder(c) \/ LookUpResponder(c) \/ SendQueryRequested(c)
  BY <1>2 DEF SelectResponder, LookUpResponder, SendQueryRequested, GoTo,
              ReturnFromHandler, handling, TypeOK
<1>3. CASE RecordOngoingRequest(c) \/ DeliverAnswer(c) \/ ForgetAnswered(c)
  BY <1>3 DEF RecordOngoingRequest, DeliverAnswer, ForgetAnswered, GoTo,
              ReturnFromHandler, handling, TypeOK
<1>4. CASE \E r \in RequestIds : ReceiveAnswer(c, r)
  BY <1>4 DEF ReceiveAnswer, GoTo, TypeOK
<1>5. CASE StreamEnds(c) \/ CloseRemove(c) \/ CloseRetract(c) \/ DropReceiver(c)
  BY <1>5 DEF StreamEnds, CloseRemove, CloseRetract, DropReceiver, GoTo, handling, TypeOK
<1> QED
  BY <1>1, <1>2, <1>3, <1>4, <1>5 DEF Session

\* The clock and the heartbeat task move no session.
LEMMA TasksAlone ==
  ASSUME (\E r \in RequestIds : Expire(r)) \/ Heartbeat \/ UNCHANGED vars
  PROVE  UNCHANGED <<pc, request, answered, inbox, sent, dropped>>
BY DEF Expire, Heartbeat, ExpelRemove, ExpelRetract, SweepBegins, SweepTells,
       SweepForgets, SweepEnds, handling, marks, vars

\* A session in the hands of which a request is had it before, or has just taken it.
LEMMA HandStep ==
  ASSUME TypeOK, NEW c \in Clients, Session(c)
  PROVE  LET hands == {"select", "lookup", "send", "record"}
             r == request'[c].request_id IN
         /\ \/ pc'[c] \notin hands /\ \A i \in RequestIds : sent[c][i] <= sent'[c][i]
            \/ /\ pc[c] \in hands /\ pc'[c] \in hands /\ r = request[c].request_id
               /\ pc[c] # "record" /\ UNCHANGED sent
            \/ /\ pc'[c] \in hands /\ r \in RequestIds /\ sent'[c][r] = sent[c][r] + 1
               /\ \A i \in RequestIds : sent[c][i] <= sent'[c][i]
            \/ pc[c] = pc'[c] /\ UNCHANGED <<request, sent>>
         /\ \A d \in Clients \ {c} : sent'[d] = sent[d]
         /\ \/ UNCHANGED dropped
            \/ dropped' = dropped \cup {CurrentRequest(c)} /\ pc[c] = "lookup"
<1>1. \A d \in Clients, i \in RequestIds : sent[d][i] \in Nat
  BY BoundsTyped DEF TypeOK
<1>2. ASSUME NEW r \in RequestIds, NEW q \in QueryIds, ReceiveQueryRequest(c, r, q)
      PROVE  \/ pc[c] = pc'[c] /\ UNCHANGED <<request, sent, dropped>>
             \/ /\ sent' = [sent EXCEPT ![c][r] = @ + 1] /\ UNCHANGED dropped
                /\ pc'[c] = "loop" \/ (pc'[c] = "select" /\ request'[c].request_id = r)
  BY <1>2 DEF ReceiveQueryRequest, GoTo, TypeOK
<1>3. ASSUME NEW r \in RequestIds, sent' = [sent EXCEPT ![c][r] = @ + 1]
      PROVE  /\ sent'[c][r] = sent[c][r] + 1
             /\ \A i \in RequestIds : sent[c][i] <= sent'[c][i]
             /\ \A d \in Clients \ {c} : sent'[d] = sent[d]
  BY <1>1, <1>3 DEF TypeOK
<1>4. CASE \E r \in RequestIds, q \in QueryIds : ReceiveQueryRequest(c, r, q)
  BY <1>2, <1>3, <1>4
<1>5. CASE SelectResponder(c) \/ LookUpResponder(c) \/ SendQueryRequested(c)
  BY <1>1, <1>5 DEF SelectResponder, LookUpResponder, SendQueryRequested, GoTo,
              ReturnFromHandler, handling, marks, TypeOK
<1>6. CASE RecordOngoingRequest(c) \/ DeliverAnswer(c) \/ ForgetAnswered(c)
  BY <1>1, <1>6 DEF RecordOngoingRequest, DeliverAnswer, ForgetAnswered, GoTo,
              ReturnFromHandler, handling, marks, TypeOK
<1>7. CASE \E r \in RequestIds : ReceiveAnswer(c, r)
  BY <1>1, <1>7 DEF ReceiveAnswer, GoTo, TypeOK
<1>8. CASE StreamEnds(c) \/ CloseRemove(c) \/ CloseRetract(c) \/ DropReceiver(c)
  BY <1>1, <1>8 DEF StreamEnds, CloseRemove, CloseRetract, DropReceiver, GoTo, handling, marks,
              TypeOK
<1> QED
  BY <1>4, <1>5, <1>6, <1>7, <1>8 DEF Session

\* Only its own session takes an answer to its requester.
LEMMA WhoDelivers ==
  ASSUME TypeOK, [Next]_vars, NEW s \in Clients, pc[s] = "deliver", pc'[s] # "deliver"
  PROVE  DeliverAnswer(s)
<1>1. Session(s)
  BY SessionAlone, TasksAlone DEF Next
<1> QED
  BY <1>1 DEF Session, ReceiveQueryRequest, SelectResponder, LookUpResponder,
     SendQueryRequested, RecordOngoingRequest, ReceiveAnswer, ForgetAnswered, StreamEnds,
     CloseRemove, CloseRetract, DropReceiver

\* A session that records a request removes none.
LEMMA RecordFills ==
  ASSUME RoutingInv, NEW c \in Clients, RecordOngoingRequest(c)
  PROVE  \A i \in RequestIds :
            ongoing_query_requests[i] # None => ongoing_query_requests'[i] # None
<1> DEFINE r == request[c].request_id
           entry == [request_id |-> r, query_id |-> request[c].query_id, requester |-> c,
                     responder |-> request[c].responder, created_at |-> sent[c][r]]
<1>1. TypeOK /\ request[c] \in QueryRequest /\ request[c].responder \in Clients /\ Asked(c, r)
  BY DEF RoutingInv, RecordOngoingRequest, TypeOK, HandledIsAsked, HandledWell
<1>2. sent[c][r] \in 1..MaxSends
  BY <1>1, BoundsTyped DEF TypeOK, QueryRequest, Asked
<1>3. entry # None
  BY <1>1, <1>2, NoneIsNoRequest DEF OngoingQueryRequest, QueryRequest
<1>4. ongoing_query_requests' = [ongoing_query_requests EXCEPT ![r] = entry]
  BY DEF RecordOngoingRequest
<1> HIDE DEF entry
<1> QED
  BY <1>1, <1>3, <1>4 DEF TypeOK

\* Only an answer or the sweep removes an entry.
LEMMA WhoRemoves ==
  ASSUME RoutingInv, [Next]_vars, NEW r \in RequestIds,
         ongoing_query_requests[r] # None, ongoing_query_requests'[r] = None
  PROVE  (\E s \in Clients : ForgetAnswered(s)) \/ SweepForgets
<1>1. ASSUME NEW c \in Clients, Session(c)
      PROVE  ForgetAnswered(c)
  <2>1. ~RecordOngoingRequest(c)
    BY RecordFills
  <2>2. ~UNCHANGED ongoing_query_requests
    OBVIOUS
  <2> QED
    BY <1>1, <2>1, <2>2 DEF Session, ReceiveQueryRequest, SelectResponder, LookUpResponder,
       SendQueryRequested, ReceiveAnswer, DeliverAnswer, StreamEnds, CloseRemove,
       CloseRetract, DropReceiver, ongoing
<1>2. CASE Heartbeat
  BY <1>2 DEF Heartbeat, ExpelRemove, ExpelRetract, SweepBegins, SweepTells, SweepEnds, ongoing
<1> QED
  BY <1>1, <1>2 DEF Next, Expire, vars

\* An answer and the sweep go by request id alone, and after they told the requester:
\* still they remove the entry they were about, and no request issued again under
\* its id, unless the id was disturbed.
THEOREM RemovalsAreOwn == Spec => OnlyOwnEntryRemoved
<1>1. ASSUME RoutingInv, RequestInv, [Next]_vars, NEW r \in RequestIds,
             ongoing_query_requests[r] # None, ongoing_query_requests'[r] = None,
             ~Disturbed(r)
      PROVE  LET x == RequestOf(ongoing_query_requests[r]) IN
             \/ \E s \in Clients : /\ pc[s] = "forget" /\ pc'[s] = "loop"
                                   /\ RequestOf(answered[s].entry) = x
             \/ /\ sweep.pc = "forget" /\ sweep'.pc = "visit"
                /\ RequestOf(sweep.entry) = x
  <2> DEFINE x == RequestOf(ongoing_query_requests[r])
  <2>1. x \in Requests /\ x[2] = r /\ IsOngoing(x) /\ TypeOK
    BY <1>1, EntryIsOngoing DEF RoutingInv
  <2>2. ASSUME NEW y \in Requests, BeingEnded(y), RemoveOngoingRequest(y[2])
        PROVE  y = x
    <3>1. y[2] = r
      BY <1>1, <2>1, <2>2, RequestIsTriple DEF RemoveOngoingRequest, TypeOK
    <3>2. IsOngoing(y)
      BY <1>1, <2>2, <3>1 DEF RequestInv, Undisturbed
    <3> HIDE DEF x
    <3> QED
      BY <2>1, <3>1, <3>2, OngoingIsOne
  <2>3. ASSUME NEW s \in Clients, ForgetAnswered(s)
        PROVE  /\ pc[s] = "forget" /\ pc'[s] = "loop"
               /\ RequestOf(answered[s].entry) = x
    <3>1. answered[s].entry \in OngoingQueryRequest
      BY <2>1, <2>3 DEF ForgetAnswered, TypeOK, Answer
    <3>2. pc[s] = "forget" /\ pc'[s] = "loop"
      BY <2>1, <2>3 DEF ForgetAnswered, ReturnFromHandler, GoTo, TypeOK
    <3>3. BeingEnded(RequestOf(answered[s].entry))
      BY <3>2 DEF BeingEnded
    <3>4. RemoveOngoingRequest(RequestOf(answered[s].entry)[2])
      BY <2>3, <3>1, EntryIsRequest DEF ForgetAnswered
    <3> QED
      BY <2>2, <3>1, <3>2, <3>3, <3>4, EntryIsRequest
  <2>4. ASSUME SweepForgets
        PROVE  /\ sweep.pc = "forget" /\ sweep'.pc = "visit"
               /\ RequestOf(sweep.entry) = x
    <3>1. sweep.entry \in OngoingQueryRequest
      BY <2>1, <2>4 DEF SweepForgets, TypeOK
    <3>2. sweep.pc = "forget" /\ sweep'.pc = "visit"
      BY <2>1, <2>4 DEF SweepForgets, TypeOK
    <3>3. BeingEnded(RequestOf(sweep.entry))
      BY <3>2 DEF BeingEnded
    <3>4. RemoveOngoingRequest(RequestOf(sweep.entry)[2])
      BY <2>4, <3>1, EntryIsRequest DEF SweepForgets
    <3> QED
      BY <2>2, <3>1, <3>2, <3>3, <3>4, EntryIsRequest
  <2> QED
    BY <1>1, <2>3, <2>4, WhoRemoves
<1>2. RoutingInv /\ RequestInv /\ [Next]_vars =>
         [\A r \in RequestIds :
             /\ ongoing_query_requests[r] # None /\ ongoing_query_requests'[r] = None
             /\ ~Disturbed(r)
             => \/ \E s \in Clients :
                      /\ pc[s] = "forget" /\ pc'[s] = "loop"
                      /\ RequestOf(answered[s].entry) = RequestOf(ongoing_query_requests[r])
                \/ /\ sweep.pc = "forget" /\ sweep'.pc = "visit"
                   /\ RequestOf(sweep.entry) = RequestOf(ongoing_query_requests[r])]_vars
  BY <1>1
<1> QED
  BY <1>2, RequestAlways, PTL DEF Spec, OnlyOwnEntryRemoved

-----------------------------------------------------------------------------
(* The questions put to responders.                                        *)

\* A question is about a request that was forwarded: it is over, or its session is
\* about to record it, and its responder was there.
Posed(y) ==
    /\ y[3] <= sent[y[1]][y[2]]
    /\ y \notin dropped
    /\ ~Over(y) => pc[y[1]] = "record"

Asks(s, y) == pc[s] = "deliver" /\ answered[s].asked = y

QuestionsInv ==
    \A s \in Clients, y \in Requests :
        /\ y \in inbox[s] \/ Asks(s, y) => Posed(y)
        /\ Asks(s, y) => y[2] = answered[s].entry.request_id

\* What was forwarded stays so.
LEMMA PosedStays ==
  ASSUME TypeOK, TypeOK', NEW c \in Clients, Session(c), NEW y \in Requests, Posed(y)
  PROVE  Posed(y)'
<1>1. /\ y[1] \in Clients /\ y[2] \in RequestIds /\ y[3] \in Nat
      /\ \A d \in Clients, i \in RequestIds : sent[d][i] \in Nat /\ sent'[d][i] \in Nat
  BY RequestIsTriple, BoundsTyped DEF TypeOK
<1>2. y[3] <= sent'[y[1]][y[2]] /\ sent[y[1]][y[2]] <= sent'[y[1]][y[2]]
  <2>1. sent[y[1]][y[2]] <= sent'[y[1]][y[2]]
    BY <1>1, HandStep
  <2> QED
    BY <1>1, <2>1, HandStep DEF Posed
<1>3. y \notin dropped'
  <2>1. pc[c] = "lookup" => y # CurrentRequest(c)
    <3>1. ASSUME pc[c] = "lookup", y = CurrentRequest(c)
          PROVE  FALSE
      <4>1. y[1] = c /\ y[2] = request[c].request_id
        BY <3>1 DEF CurrentRequest
      <4>2. ~Over(y)
        BY <3>1, <4>1 DEF Over, InHand
      <4> QED
        BY <3>1, <4>1, <4>2 DEF Posed
    <3> QED
      BY <3>1
  <2> QED
    BY <2>1, HandStep DEF Posed
<1>4. ASSUME ~Over(y)'
      PROVE  pc'[y[1]] = "record"
  <2>1. InHand(y[1], y[2])' /\ y = CurrentRequest(y[1])'
    BY <1>2, <1>4 DEF Over
  <2>2. /\ pc'[y[1]] \in {"select", "lookup", "send", "record"}
        /\ request'[y[1]].request_id = y[2]
        /\ y[3] = sent'[y[1]][y[2]]
    BY <2>1 DEF InHand, CurrentRequest
  <2>3. ASSUME pc[y[1]] \in {"select", "lookup", "send", "record"},
               request[y[1]].request_id = y[2], sent[y[1]][y[2]] = y[3]
        PROVE  pc[y[1]] = "record"
    <3>1. y = CurrentRequest(y[1])
      BY <2>3, RequestIsTriple DEF CurrentRequest
    <3> QED
      BY <2>3, <3>1 DEF Posed, Over, InHand
  <2>4. CASE y[1] = c
    <3>1. CASE sent'[c][y[2]] = sent[c][y[2]] + 1
      BY <1>1, <2>2, <2>4, <3>1 DEF Posed
    <3>2. CASE pc[c] = pc'[c] /\ UNCHANGED <<request, sent>>
      BY <2>2, <2>3, <2>4, <3>2
    <3>3. CASE pc[c] # "record" /\ pc[c] \in {"select", "lookup", "send", "record"}
               /\ request'[c].request_id = request[c].request_id /\ UNCHANGED sent
      BY <2>2, <2>3, <2>4, <3>3
    <3> QED
      BY <2>2, <2>4, <3>1, <3>2, <3>3, HandStep
  <2>5. CASE y[1] # c
    <3>1. /\ pc'[y[1]] = pc[y[1]] /\ request'[y[1]] = request[y[1]]
          /\ sent'[y[1]] = sent[y[1]]
      BY <1>1, <2>5, SessionAlone, HandStep
    <3> QED
      BY <2>2, <2>3, <3>1
  <2> QED
    BY <2>4, <2>5
<1> QED
  BY <1>2, <1>3, <1>4 DEF Posed

\* A question is put when a request is forwarded, and taken up by its responder.
LEMMA QuestionsMove ==
  ASSUME RoutingInv, NEW c \in Clients, Session(c), NEW s \in Clients, NEW y \in Requests
  PROVE  /\ y \in inbox'[s] => \/ y \in inbox[s]
                               \/ /\ pc[c] = "send" /\ pc'[c] = "record"
                                  /\ y = CurrentRequest(c)
                                  /\ UNCHANGED <<request, sent, dropped>>
         /\ Asks(s, y)' => \/ Asks(s, y) /\ answered'[s] = answered[s]
                           \/ y \in inbox[s] /\ y[2] = answered'[s].entry.request_id
<1>1. TypeOK
  BY DEF RoutingInv
<1>2. CASE \E r \in RequestIds : ReceiveAnswer(c, r)
  <2>1. PICK r \in RequestIds : ReceiveAnswer(c, r)
    BY <1>2
  <2>2. PICK asked \in inbox[c] \cup {None} :
           /\ asked # None => asked[2] = r
           /\ inbox' = [inbox EXCEPT ![c] = @ \ {asked}]
           /\ \/ UNCHANGED <<pc, answered>>
              \/ /\ ongoing_query_requests[r] # None
                 /\ GoTo(c, "deliver")
                 /\ answered' = [answered EXCEPT ![c] =
                       [entry |-> ongoing_query_requests[r], asked |-> asked]]
    BY <2>1 DEF ReceiveAnswer
  <2>3. y \in inbox'[s] => y \in inbox[s]
    BY <1>1, <2>2 DEF TypeOK
  <2>4. y # None
    BY NoneIsNoRequest
  <2>5. CASE UNCHANGED <<pc, answered>>
    BY <2>3, <2>5 DEF Asks
  <2>6. CASE /\ ongoing_query_requests[r] # None
             /\ GoTo(c, "deliver")
             /\ answered' = [answered EXCEPT ![c] =
                   [entry |-> ongoing_query_requests[r], asked |-> asked]]
    <3>1. ongoing_query_requests[r].request_id = r
      BY <2>6 DEF RoutingInv, TableIsGenuine
    <3>2. CASE s = c
      <4>1. /\ answered'[s].entry = ongoing_query_requests[r]
            /\ answered'[s].asked = asked
        BY <1>1, <2>6, <3>2 DEF TypeOK
      <4> QED
        BY <2>2, <2>3, <2>4, <3>1, <3>2, <4>1 DEF Asks
    <3>3. CASE s # c
      BY <1>1, <2>3, <2>6, <3>3 DEF Asks, GoTo, TypeOK
    <3> QED
      BY <3>2, <3>3
  <2> QED
    BY <2>2, <2>5, <2>6
<1>3. CASE SendQueryRequested(c)
  <2>1. /\ pc[c] = "send" /\ UNCHANGED <<sent, dropped>>
        /\ \/ /\ inbox' = [inbox EXCEPT ![request[c].responder] = @ \cup {CurrentRequest(c)}]
              /\ GoTo(c, "record") /\ UNCHANGED <<request, answered>>
           \/ UNCHANGED inbox /\ ReturnFromHandler(c)
    BY <1>3 DEF SendQueryRequested, handling, marks
  <2>2. Asks(s, y)' => Asks(s, y) /\ answered'[s] = answered[s]
    BY <1>1, <2>1 DEF Asks, GoTo, ReturnFromHandler, TypeOK
  <2>3. CASE UNCHANGED inbox
    BY <2>2, <2>3
  <2>4. CASE /\ inbox' = [inbox EXCEPT ![request[c].responder] = @ \cup {CurrentRequest(c)}]
             /\ GoTo(c, "record") /\ UNCHANGED <<request, answered>>
    <3>1. pc'[c] = "record"
      BY <1>1, <2>4 DEF GoTo, TypeOK
    <3>2. y \in inbox'[s] => y \in inbox[s] \/ y = CurrentRequest(c)
      BY <1>1, <2>4 DEF TypeOK
    <3> QED
      BY <2>1, <2>2, <2>4, <3>1, <3>2
  <2> QED
    BY <2>1, <2>3, <2>4
<1>4. CASE \E r \in RequestIds, q \in QueryIds : ReceiveQueryRequest(c, r, q)
  BY <1>1, <1>4 DEF ReceiveQueryRequest, Asks, GoTo, TypeOK
<1>5. CASE SelectResponder(c) \/ LookUpResponder(c) \/ RecordOngoingRequest(c)
  BY <1>1, <1>5 DEF SelectResponder, LookUpResponder, RecordOngoingRequest, Asks, GoTo,
              ReturnFromHandler, handling, TypeOK
<1>6. CASE DeliverAnswer(c) \/ ForgetAnswered(c)
  BY <1>1, <1>6 DEF DeliverAnswer, ForgetAnswered, Asks, GoTo, ReturnFromHandler, handling, TypeOK
<1>7. CASE StreamEnds(c) \/ CloseRemove(c) \/ CloseRetract(c) \/ DropReceiver(c)
  BY <1>1, <1>7 DEF StreamEnds, CloseRemove, CloseRetract, DropReceiver, Asks, GoTo, handling,
              TypeOK
<1> QED
  BY <1>2, <1>3, <1>4, <1>5, <1>6, <1>7 DEF Session

LEMMA InitQuestions == Init => QuestionsInv
BY DEF Init, QuestionsInv, Asks

\* No step asks a responder about a request that was not forwarded.
LEMMA QuestionsStep == RoutingInv /\ RequestInv /\ QuestionsInv /\ [Next]_vars => QuestionsInv'
<1> SUFFICES ASSUME RoutingInv, RequestInv, QuestionsInv, [Next]_vars
             PROVE  QuestionsInv'
  OBVIOUS
<1>1. TypeOK /\ TypeOK'
  BY RoutingStep DEF RoutingInv
<1>2. ASSUME NEW c \in Clients, Session(c), NEW s \in Clients, NEW y \in Requests
      PROVE  /\ y \in inbox'[s] \/ Asks(s, y)' => Posed(y)'
             /\ Asks(s, y)' => y[2] = answered'[s].entry.request_id
  <2>1. Posed(y) => Posed(y)'
    BY <1>1, <1>2, PosedStays
  <2>2. ASSUME y = CurrentRequest(c), pc[c] = "send", pc'[c] = "record",
               UNCHANGED <<request, sent, dropped>>
        PROVE  Posed(y)'
    <3>1. y[1] = c /\ y[2] = request[c].request_id /\ y[3] = sent[c][y[2]]
      BY <2>2 DEF CurrentRequest
    <3>2. y[3] <= sent'[y[1]][y[2]]
      BY <1>1, <2>2, <3>1, RequestIsTriple, BoundsTyped DEF TypeOK
    <3>3. ~Over(y)
      BY <2>2, <3>1 DEF Over, InHand
    <3>4. y \notin dropped
      BY <3>3 DEF RequestInv, OverFirst
    <3> QED
      BY <2>2, <3>1, <3>2, <3>4 DEF Posed
  <2>3. /\ y \in inbox[s] \/ Asks(s, y) => Posed(y)
        /\ Asks(s, y) => y[2] = answered[s].entry.request_id
    BY DEF QuestionsInv
  <2> QED
    BY <1>2, <2>1, <2>2, <2>3, QuestionsMove
<1>3. CASE (\E r \in RequestIds : Expire(r)) \/ Heartbeat \/ UNCHANGED vars
  <2>1. UNCHANGED <<pc, request, answered, inbox, sent, dropped>>
    BY <1>3, TasksAlone
  <2> QED
    BY <2>1 DEF QuestionsInv, Asks, Posed, Over, InHand, CurrentRequest
<1> QED
  BY <1>2, <1>3 DEF Next, QuestionsInv

\* handle_query_response_message takes the requester from the table alone, whoever
\* answers: still an answer reaches the request it was given for, unless that had
\* been answered before or the id was disturbed.
THEOREM AnswersReachTheirAsker == Spec => AnswersOnlyToAsker
<1>1. ASSUME RoutingInv, RequestInv, QuestionsInv, [Next]_vars,
             NEW s \in Clients, NEW x \in Requests,
             pc[s] = "deliver", pc'[s] # "deliver", told'[x] # told[x],
             answered[s].asked \in Requests, ~Disturbed(x[2])
      PROVE  LET asked == answered[s].asked IN
             \/ x = asked
             \/ told[asked] > 0 \/ asked[1] \notin connected_clients \cap rx
  <2> DEFINE y == answered[s].asked
  <2>1. TypeOK /\ y \in Requests /\ DeliverAnswer(s)
    BY <1>1, WhoDelivers DEF RoutingInv
  <2>2. /\ answered[s].entry \in OngoingQueryRequest
        /\ RequestOf(answered[s].entry) \in Requests
        /\ RequestOf(answered[s].entry)[2] = answered[s].entry.request_id
    BY <1>1, <2>1, EntryIsRequest DEF TypeOK, Answer
  <2>3. x = RequestOf(answered[s].entry)
    <3>1. Tell(RequestOf(answered[s].entry))
      BY <1>1, <2>1 DEF DeliverAnswer
    <3> QED
      BY <1>1, <2>1, <2>2, <3>1, TellCounts
  <2>4. BeingEnded(x) /\ IsOngoing(x)
    BY <1>1, <2>3 DEF BeingEnded, RequestInv, Undisturbed
  <2>5. Posed(y) /\ y[2] = x[2]
    BY <1>1, <2>1, <2>2, <2>3 DEF QuestionsInv, Asks
  <2> HIDE DEF y
  <2>6. CASE ~Over(y)
    <3>1. InHand(y[1], y[2]) /\ y[1] \in Clients
      BY <2>1, <2>5, <2>6, RequestIsTriple DEF Posed, Over
    <3> QED
      BY <1>1, <2>4, <2>5, <3>1 DEF RequestInv, Undisturbed
  <2>7. CASE Over(y)
    <3>1. Here(y[1]) => IsOngoing(y) \/ told[y] > 0
      BY <1>1, <2>1, <2>5, <2>7 DEF RequestInv, Accounted, Posed
    <3>2. IsOngoing(y) => y = x
      BY <2>1, <2>4, <2>5, OngoingIsOne
    <3> QED
      BY <3>1, <3>2 DEF Here, y
  <2> QED
    BY <2>6, <2>7
<1>2. RoutingInv /\ RequestInv /\ QuestionsInv /\ [Next]_vars =>
         [\A s \in Clients, x \in Requests :
             /\ pc[s] = "deliver" /\ pc'[s] # "deliver"
             /\ told'[x] # told[x]
             /\ answered[s].asked \in Requests
             => LET asked == answered[s].asked IN
                \/ x = asked
                \/ told[asked] > 0 \/ asked[1] \notin connected_clients \cap rx
                \/ Disturbed(x[2])]_vars
  BY <1>1
<1>3. Spec => []QuestionsInv
  BY RequestAlways, InitQuestions, QuestionsStep, PTL DEF Spec
<1> QED
  BY <1>2, <1>3, RequestAlways, PTL DEF Spec, AnswersOnlyToAsker
=============================================================================

---------------------------- MODULE QueryRouting ----------------------------
(***************************************************************************)
(* How the broker routes a query: the handlers of QueryRequest,            *)
(* QueryResponse and QueryHandlingFailed and the sweep of expired requests *)
(* (state.rs), over the table of ongoing requests (query_handlers.rs).     *)
(*                                                                         *)
(* Every client has one session, a task that handles one message at a      *)
(* time; an action is one of its critical sections.  Clients have          *)
(* registered at the start and may leave: ClientRegistry has the           *)
(* registrations themselves.  What a request carries and what the answer   *)
(* says are abstracted away; an answer is whatever the requester is told   *)
(* about the request: QueryResponded or any QueryRequestedFailed.          *)
(***************************************************************************)
EXTENDS RoundRobin, FiniteSets

CONSTANTS
    Clients,        \* the registered clients, naturals
    QueryIds,       \* the queries
    RequestIds,     \* the request ids (uuids chosen by the requesters)
    None,           \* no request, no client
    Serves,         \* [Clients -> SUBSET QueryIds]: the handlers registered
    MayAsk,         \* [Clients -> SUBSET RequestIds]: the ids a client uses
    MayLeave,       \* the clients that may close their stream
    MayAnswer,      \* the clients that also answer what they were not asked
    MaxSends        \* bound: the QueryRequests of a client under one id, without
                    \* repetitions

ASSUME ClientsAreOrdered == Clients \subseteq Nat /\ None \notin Clients
ASSUME ServesTyped == Serves \in [Clients -> SUBSET QueryIds]
ASSUME MayAskTyped == MayAsk \in [Clients -> SUBSET RequestIds]
ASSUME BoundsTyped == MayLeave \subseteq Clients /\ MayAnswer \subseteq Clients /\ MaxSends \in Nat

VARIABLES
    pc,                      \* where the task of each session stands
    request,                 \* the QueryRequest a session is routing
    answered,                \* what a session answers: the entry and the request
                             \* the client was asked, if it was
    rx,                      \* clients whose channel still has its receiver
    connected_clients,       \* the registered clients
    query_handlers,          \* the clients that answer each query
    last_selected,           \* the client the strategy returned last
    ongoing_query_requests,  \* the request forwarded under each request id
    overdue,                 \* ids of ongoing requests older than the timeout
    sweep,                   \* the heartbeat task: pc, client, snapshot, entry
    inbox,                   \* the requests each client was asked and has not answered
    sent,                    \* history: QueryRequests by client and id, without
                             \* the repetitions of one that is ongoing
    told,                    \* history: the answers sent about each request
    dropped,                 \* history: requests whose responder had gone by the lookup
    raced,                   \* history: ids two clients had in hand at the same time
    contested                \* history: requests that two tasks set out to end at once

handling == <<request, answered>>
registry == <<rx, connected_clients, query_handlers>>
ongoing == <<ongoing_query_requests, overdue>>
marks == <<dropped, raced, contested>>
vars == <<pc, request, answered, rx, connected_clients, query_handlers, last_selected,
          ongoing_query_requests, overdue, sweep, inbox, sent, told, dropped, raced, contested>>

\* The first, second ... request of a client under an id.
Requests == Clients \X RequestIds \X (1..MaxSends)

QueryRequest ==
    [request_id: RequestIds, query_id: QueryIds, responder: Clients \cup {None}]

\* `created_at` is what tells two entries under one request id apart.
OngoingQueryRequest ==
    [request_id: RequestIds, query_id: QueryIds, requester: Clients,
     responder: Clients, created_at: 1..MaxSends]

Answer == [entry: OngoingQueryRequest, asked: Requests \cup {None}]

ASSUME NoneIsNoRequest == None \notin QueryRequest \cup OngoingQueryRequest \cup Answer \cup Requests

PCs == {"loop", "select", "lookup", "send", "record", "deliver", "forget",
        "remove", "retract", "done"}

TypeOK ==
    /\ pc \in [Clients -> PCs]
    /\ request \in [Clients -> QueryRequest \cup {None}]
    /\ answered \in [Clients -> Answer \cup {None}]
    /\ \A c \in Clients :
          /\ pc[c] \in {"select", "lookup", "send", "record"} => request[c] \in QueryRequest
          /\ pc[c] \in {"lookup", "send", "record"} => request[c].responder \in Clients
          /\ pc[c] \in {"deliver", "forget"} => answered[c] \in Answer
    /\ rx \in SUBSET Clients
    /\ connected_clients \in SUBSET Clients
    /\ query_handlers \in [QueryIds -> SUBSET Clients]
    /\ last_selected \in Clients \cup {None}
    /\ ongoing_query_requests \in [RequestIds -> OngoingQueryRequest \cup {None}]
    /\ overdue \in SUBSET RequestIds
    /\ sweep \in [pc: {"wait", "retract", "visit", "forget"}, client: Clients \cup {None},
                  todo: SUBSET OngoingQueryRequest, entry: OngoingQueryRequest \cup {None}]
    /\ sweep.pc = "retract" => sweep.client \in Clients
    /\ sweep.pc = "forget" => sweep.entry \in OngoingQueryRequest
    /\ inbox \in [Clients -> SUBSET Requests]
    /\ sent \in [Clients -> [RequestIds -> 0..MaxSends]]
    /\ told \in [Requests -> Nat]
    /\ dropped \in SUBSET Requests /\ raced \in SUBSET RequestIds /\ contested \in SUBSET Requests

Init ==
    /\ pc = [c \in Clients |-> "loop"]
    /\ request = [c \in Clients |-> None]
    /\ answered = [c \in Clients |-> None]
    /\ rx = Clients
    /\ connected_clients = Clients
    /\ query_handlers = [q \in QueryIds |-> {c \in Clients : q \in Serves[c]}]
    /\ last_selected = None
    /\ ongoing_query_requests = [r \in RequestIds |-> None]
    /\ overdue = {}
    /\ sweep = [pc |-> "wait", client |-> None, todo |-> {}, entry |-> None]
    /\ inbox = [c \in Clients |-> {}]
    /\ sent = [c \in Clients |-> [r \in RequestIds |-> 0]]
    /\ told = [x \in Requests |-> 0]
    /\ dropped = {} /\ raced = {} /\ contested = {}

-----------------------------------------------------------------------------
(* Pieces of the handlers.                                                 *)

GoTo(c, where) == pc' = [pc EXCEPT ![c] = where]
ReturnFromHandler(c) ==
    /\ GoTo(c, "loop")
    /\ request' = [request EXCEPT ![c] = None]
    /\ answered' = [answered EXCEPT ![c] = None]

RequestOf(entry) == <<entry.requester, entry.request_id, entry.created_at>>

InHand(c, r) ==
    pc[c] \in {"select", "lookup", "send", "record"} /\ request[c].request_id = r

IsOngoing(x) ==
    ongoing_query_requests[x[2]] # None /\ RequestOf(ongoing_query_requests[x[2]]) = x

CurrentRequest(c) == <<c, request[c].request_id, sent[c][request[c].request_id]>>

\* A session that answers the request, or the sweep, is about to end it.
BeingEnded(x) ==
    \/ \E s \in Clients : pc[s] \in {"deliver", "forget"} /\ RequestOf(answered[s].entry) = x
    \/ \E entry \in sweep.todo : RequestOf(entry) = x
    \/ sweep.pc = "forget" /\ RequestOf(sweep.entry) = x

AlreadyEnded(ids) == {x \in Requests : x[2] \in ids /\ IsOngoing(x) /\ BeingEnded(x)}

\* Tx::send of an answer about a request to its client: lost without a receiver.
Tell(x) == told' = IF x[1] \in rx THEN [told EXCEPT ![x] = @ + 1] ELSE told

\* Mutant: the timer of a removed entry is not dropped with it.
RemoveOngoingRequestOnly(r) ==
    /\ ongoing_query_requests' = [ongoing_query_requests EXCEPT ![r] = None]
    /\ UNCHANGED overdue

\* QueryHandler::remove_ongoing_request, whatever the entry is by now.
RemoveOngoingRequest(r) ==
    /\ ongoing_query_requests' = [ongoing_query_requests EXCEPT ![r] = None]
    /\ overdue' = overdue \ {r}

\* OngoingQueryRequest::is_same
IsSame(entry, c, q) == entry.requester = c /\ entry.query_id = q

Retracted(c) == query_handlers' = [q \in QueryIds |-> query_handlers[q] \ {c}]

-----------------------------------------------------------------------------
(* handle_query_request_message, run by the session of the requester c.    *)

\* Mutant: a request id that is in use is not looked for.
ReceiveQueryRequestUnchecked(c, r, q) ==
    /\ pc[c] = "loop"
    /\ r \in MayAsk[c]
    /\ sent[c][r] < MaxSends
    /\ sent' = [sent EXCEPT ![c][r] = @ + 1]
    /\ GoTo(c, "select")
    /\ request' = [request EXCEPT ![c] = [request_id |-> r, query_id |-> q,
                                          responder |-> None]]
    /\ UNCHANGED <<answered, registry, last_selected, ongoing, sweep, inbox, told, marks>>

\* The check for a duplicate: an unknown id goes on, the same request again is
\* ignored, another request under a used id is refused.
ReceiveQueryRequest(c, r, q) ==
    /\ pc[c] = "loop"
    /\ r \in MayAsk[c]
    /\ sent[c][r] < MaxSends
    /\ LET entry == ongoing_query_requests[r] IN
        \/ /\ entry = None
           /\ sent' = [sent EXCEPT ![c][r] = @ + 1]
           /\ GoTo(c, "select")
           /\ request' = [request EXCEPT ![c] = [request_id |-> r, query_id |-> q,
                                                 responder |-> None]]
           /\ raced' = IF \E d \in Clients : InHand(d, r) THEN raced \cup {r} ELSE raced
           /\ UNCHANGED told
        \/ /\ entry # None
           /\ IsSame(entry, c, q)
           /\ UNCHANGED <<pc, request, sent, told, raced>>
        \/ /\ entry # None
           /\ ~IsSame(entry, c, q)
           /\ sent' = [sent EXCEPT ![c][r] = @ + 1]
           /\ Tell(<<c, r, sent[c][r] + 1>>)
           /\ UNCHANGED <<pc, request, raced>>
    /\ UNCHANGED <<answered, registry, last_selected, ongoing, sweep, inbox, dropped, contested>>

\* QueryHandler::get_client_id_for_query_id, or QueryHandlerNotFound.
SelectResponder(c) ==
    /\ pc[c] = "select"
    /\ LET candidates == query_handlers[request[c].query_id]
           selected == NextClient(last_selected, candidates) IN
        \/ /\ candidates = {}
           /\ Tell(CurrentRequest(c))
           /\ ReturnFromHandler(c)
           /\ UNCHANGED last_selected
        \/ /\ candidates # {}
           /\ last_selected' = selected
           /\ GoTo(c, "lookup")
           /\ request' = [request EXCEPT ![c] =
                 [request_id |-> request[c].request_id, query_id |-> request[c].query_id,
                  responder |-> selected]]
           /\ UNCHANGED <<answered, told>>
    /\ UNCHANGED <<registry, ongoing, sweep, inbox, sent, marks>>

\* A responder that is no longer connected ends the handler, and nobody is told.
LookUpResponder(c) ==
    /\ pc[c] = "lookup"
    /\ IF request[c].responder \in connected_clients
         THEN GoTo(c, "send") /\ UNCHANGED <<handling, dropped>>
         ELSE ReturnFromHandler(c) /\ dropped' = dropped \cup {CurrentRequest(c)}
    /\ UNCHANGED <<registry, last_selected, ongoing, sweep, inbox, sent, told, raced, contested>>

\* Mutant: a failure to forward is reported and another responder is tried.
SendQueryRequestedOrRetry(c) ==
    /\ pc[c] = "send"
    /\ \/ /\ request[c].responder \in rx
          /\ inbox' = [inbox EXCEPT ![request[c].responder] = @ \cup {CurrentRequest(c)}]
          /\ GoTo(c, "record")
          /\ UNCHANGED told
       \/ /\ request[c].responder \notin rx
          /\ Tell(CurrentRequest(c))
          /\ GoTo(c, "select")
          /\ UNCHANGED inbox
    /\ UNCHANGED <<handling, registry, last_selected, ongoing, sweep, sent, marks>>

\* QueryRequested to the responder, or QueryHandlerNotFound to the requester.
SendQueryRequested(c) ==
    /\ pc[c] = "send"
    /\ \/ /\ request[c].responder \in rx
          /\ inbox' = [inbox EXCEPT ![request[c].responder] = @ \cup {CurrentRequest(c)}]
          /\ GoTo(c, "record")
          /\ UNCHANGED <<handling, told>>
       \/ /\ request[c].responder \notin rx
          /\ Tell(CurrentRequest(c))
          /\ ReturnFromHandler(c)
          /\ UNCHANGED inbox
    /\ UNCHANGED <<registry, last_selected, ongoing, sweep, sent, marks>>

\* Mutant: the requester is recorded as the responder.
RecordRequesterAsResponder(c) ==
    /\ pc[c] = "record"
    /\ LET r == request[c].request_id IN
        /\ ongoing_query_requests' = [ongoing_query_requests EXCEPT ![r] =
              [request_id |-> r, query_id |-> request[c].query_id, requester |-> c,
               responder |-> c, created_at |-> sent[c][r]]]
        /\ overdue' = overdue \ {r}
    /\ ReturnFromHandler(c)
    /\ UNCHANGED <<registry, last_selected, sweep, inbox, sent, told, marks>>

\* Only now is the request ongoing; whatever was under its id is overwritten.
RecordOngoingRequest(c) ==
    /\ pc[c] = "record"
    /\ LET r == request[c].request_id IN
        /\ ongoing_query_requests' = [ongoing_query_requests EXCEPT ![r] =
              [request_id |-> r, query_id |-> request[c].query_id, requester |-> c,
               responder |-> request[c].responder, created_at |-> sent[c][r]]]
        /\ overdue' = overdue \ {r}
    /\ ReturnFromHandler(c)
    /\ UNCHANGED <<registry, last_selected, sweep, inbox, sent, told, marks>>

-----------------------------------------------------------------------------
(* handle_query_response_message and handle_query_handling_error_message,  *)
(* run by the session of the responder s: they differ in the answer alone. *)

\* Whoever answers, asked or not, answers whatever is ongoing under the id; an
\* answer to something that is not ongoing is dropped.
ReceiveAnswer(s, r) ==
    /\ pc[s] = "loop"
    /\ \E asked \in inbox[s] \cup {None} :
        /\ IF asked = None THEN s \in MayAnswer ELSE asked[2] = r
        /\ inbox' = [inbox EXCEPT ![s] = @ \ {asked}]
        /\ LET entry == ongoing_query_requests[r] IN
            \/ entry = None /\ UNCHANGED <<pc, answered, contested>>
            \/ /\ entry # None
               /\ GoTo(s, "deliver")
               /\ answered' = [answered EXCEPT ![s] = [entry |-> entry, asked |-> asked]]
               /\ contested' = contested \cup AlreadyEnded({r})
    /\ UNCHANGED <<request, registry, last_selected, ongoing, sweep, sent, told, dropped, raced>>

\* Mutant: the answer goes back to the client it came from.
DeliverAnswerToResponder(s) ==
    /\ pc[s] = "deliver"
    /\ Tell(<<s, answered[s].entry.request_id, 1>>)
    /\ GoTo(s, "forget")
    /\ UNCHANGED <<handling, registry, last_selected, ongoing, sweep, inbox, sent, marks>>

\* When the requester is not connected or cannot be reached the entry stays.
DeliverAnswer(s) ==
    /\ pc[s] = "deliver"
    /\ LET c == answered[s].entry.requester IN
        \/ /\ c \in connected_clients /\ c \in rx
           /\ Tell(RequestOf(answered[s].entry))
           /\ GoTo(s, "forget")
           /\ UNCHANGED handling
        \/ /\ ~(c \in connected_clients /\ c \in rx)
           /\ ReturnFromHandler(s)
           /\ UNCHANGED told
    /\ UNCHANGED <<registry, last_selected, ongoing, sweep, inbox, sent, marks>>

ForgetAnswered(s) ==
    /\ pc[s] = "forget"
    /\ RemoveOngoingRequest(answered[s].entry.request_id)
    /\ ReturnFromHandler(s)
    /\ UNCHANGED <<registry, last_selected, sweep, inbox, sent, told, marks>>

-----------------------------------------------------------------------------
(* Clients that leave.                                                     *)

StreamEnds(c) ==
    /\ c \in MayLeave
    /\ pc[c] = "loop"
    /\ GoTo(c, "remove")
    /\ UNCHANGED <<handling, registry, last_selected, ongoing, sweep, inbox, sent, told, marks>>

CloseRemove(c) ==
    /\ pc[c] = "remove"
    /\ connected_clients' = connected_clients \ {c}
    /\ GoTo(c, "retract")
    /\ UNCHANGED <<handling, rx, query_handlers, last_selected, ongoing, sweep, inbox, sent, told, marks>>

CloseRetract(c) ==
    /\ pc[c] = "retract"
    /\ Retracted(c)
    /\ GoTo(c, "done")
    /\ UNCHANGED <<handling, rx, connected_clients, last_selected, ongoing, sweep, inbox, sent, told, marks>>

DropReceiver(c) ==
    /\ c \in MayLeave \cap rx
    /\ rx' = rx \ {c}
    /\ UNCHANGED <<pc, handling, connected_clients, query_handlers, last_selected,
                   ongoing, sweep, inbox, sent, told, marks>>

Session(c) ==
    \/ \E r \in RequestIds, q \in QueryIds : ReceiveQueryRequest(c, r, q)
    \/ SelectResponder(c) \/ LookUpResponder(c)
    \/ SendQueryRequested(c) \/ RecordOngoingRequest(c)
    \/ \E r \in RequestIds : ReceiveAnswer(c, r)
    \/ DeliverAnswer(c) \/ ForgetAnswered(c)
    \/ StreamEnds(c) \/ CloseRemove(c) \/ CloseRetract(c)
    \/ DropReceiver(c)

-----------------------------------------------------------------------------
(* Time and the heartbeat task.                                            *)

\* server_query_response_timeout passes since the request was recorded.
Expire(r) ==
    /\ ongoing_query_requests[r] # None
    /\ r \notin overdue
    /\ overdue' = overdue \cup {r}
    /\ UNCHANGED <<pc, handling, registry, last_selected, ongoing_query_requests,
                   sweep, inbox, sent, told, marks>>

\* The first half of a tick: clients whose channel is dead are disconnected.
ExpelRemove(c) ==
    /\ sweep.pc = "wait"
    /\ c \in connected_clients \ rx
    /\ connected_clients' = connected_clients \ {c}
    /\ sweep' = [sweep EXCEPT !.pc = "retract", !.client = c]
    /\ UNCHANGED <<pc, handling, rx, query_handlers, last_selected, ongoing, inbox, sent, told, marks>>

ExpelRetract ==
    /\ sweep.pc = "retract"
    /\ Retracted(sweep.client)
    /\ sweep' = [sweep EXCEPT !.pc = "wait", !.client = None]
    /\ UNCHANGED <<pc, handling, rx, connected_clients, last_selected, ongoing, inbox, sent, told, marks>>

\* The second half: a snapshot of the overdue requests ...
SweepBegins ==
    /\ sweep.pc = "wait"
    /\ overdue # {}
    /\ sweep' = [sweep EXCEPT !.pc = "visit",
                              !.todo = {ongoing_query_requests[r] : r \in overdue}]
    /\ contested' = contested \cup AlreadyEnded(overdue)
    /\ UNCHANGED <<pc, handling, registry, last_selected, ongoing, inbox, sent, told, dropped, raced>>

\* Mutant: requests time out without a word.
SweepTellsNobody(entry) ==
    /\ sweep.pc = "visit"
    /\ entry \in sweep.todo
    /\ sweep' = [sweep EXCEPT !.pc = "forget", !.todo = @ \ {entry}, !.entry = entry]
    /\ UNCHANGED <<pc, handling, registry, last_selected, ongoing, inbox, sent, told, marks>>

\* ... whose requesters, if connected, are told QueryTimedOut ...
SweepTells(entry) ==
    /\ sweep.pc = "visit"
    /\ entry \in sweep.todo
    /\ IF entry.requester \in connected_clients
         THEN Tell(RequestOf(entry))
         ELSE UNCHANGED told
    /\ sweep' = [sweep EXCEPT !.pc = "forget", !.todo = @ \ {entry}, !.entry = entry]
    /\ UNCHANGED <<pc, handling, registry, last_selected, ongoing, inbox, sent, marks>>

\* Mutant: what timed out stays in the table.
SweepForgetsNothing ==
    /\ sweep.pc = "forget"
    /\ sweep' = [sweep EXCEPT !.pc = "visit", !.entry = None]
    /\ UNCHANGED <<pc, handling, registry, last_selected, ongoing, inbox, sent, told, marks>>

\* ... and which are removed by id (handle_query_timed_out).
SweepForgets ==
    /\ sweep.pc = "forget"
    /\ RemoveOngoingRequest(sweep.entry.request_id)
    /\ sweep' = [sweep EXCEPT !.pc = "visit", !.entry = None]
    /\ UNCHANGED <<pc, handling, registry, last_selected, inbox, sent, told, marks>>

SweepEnds ==
    /\ sweep.pc = "visit"
    /\ sweep.todo = {}
    /\ sweep' = [sweep EXCEPT !.pc = "wait"]
    /\ UNCHANGED <<pc, handling, registry, last_selected, ongoing, inbox, sent, told, marks>>

Heartbeat ==
    \/ \E c \in Clients : ExpelRemove(c)
    \/ ExpelRetract
    \/ SweepBegins
    \/ \E entry \in sweep.todo : SweepTells(entry)
    \/ SweepForgets \/ SweepEnds

Next ==
    \/ \E c \in Clients : Session(c)
    \/ \E r \in RequestIds : Expire(r)
    \/ Heartbeat

Spec == Init /\ [][Next]_vars

-----------------------------------------------------------------------------
(* Safety, whatever the clients do.  The broker goes by request id alone,  *)
(* so two requests under one id can be mixed up.  The properties say when  *)
(* that is possible, and that nothing else goes wrong.                     *)

\* Two clients were past the check for a duplicate with this id at the same time, or
\* two tasks were ending a request under it, so that the second removal came late.
Disturbed(r) == r \in raced \/ \E x \in contested : x[2] = r

\* An answer is told to the client whose request the responder was asked, and is
\* taken for the answer to that very request.  Another request under the id, of the
\* same or another client, gets it only if the one asked had been answered before
\* (it timed out, or a stranger answered), its client is gone, or the id was
\* disturbed.
AnswersOnlyToAsker ==
    [][\A s \in Clients, x \in Requests :
          /\ pc[s] = "deliver" /\ pc'[s] # "deliver"
          /\ told'[x] # told[x]
          /\ answered[s].asked \in Requests
          => LET asked == answered[s].asked IN
             \/ x = asked
             \/ told[asked] > 0 \/ asked[1] \notin connected_clients \cap rx
             \/ Disturbed(x[2])]_vars

\* What is ongoing was forwarded to a client that had declared the query, on
\* behalf of a client that asked: the strategy returns one of the candidates
\* (ResponderNotFound is, as query_handlers.rs says, impossible).
OngoingIsServed ==
    \A r \in RequestIds : ongoing_query_requests[r] # None =>
        LET entry == ongoing_query_requests[r] IN
        /\ entry.request_id = r
        /\ entry.query_id \in Serves[entry.responder]
        /\ entry.created_at <= sent[entry.requester][r]

-----------------------------------------------------------------------------
(* Safety of each request.                                                 *)

\* No request is lost silently: it is in hand, it is ongoing, or its requester, if
\* still there, has been told about it.  The exceptions are a responder that left
\* between its selection and the lookup, and ids that were mixed up.
NoAskForgotten ==
    \A x \in Requests : x[3] <= sent[x[1]][x[2]] /\ x[1] \in connected_clients \cap rx =>
        \/ InHand(x[1], x[2]) /\ x = CurrentRequest(x[1])
        \/ IsOngoing(x)
        \/ told[x] > 0
        \/ x \in dropped
        \/ Disturbed(x[2])

\* No request gets two answers unless two tasks set out to end it at once: it is
\* repeated without effect while it is ongoing, a failure to forward it ends it, and
\* an answer or a timeout that comes when it is no longer ongoing is not told.
AnsweredAtMostOnce == \A x \in Requests \ contested : told[x] <= 1

\* What an answer or a timeout removes is the entry it was about, though the
\* removal goes by id alone and comes after the answer was sent: a request issued
\* again under the id is not taken away with the one before it, unless the id was
\* disturbed.
OnlyOwnEntryRemoved ==
    [][\A r \in RequestIds :
          /\ ongoing_query_requests[r] # None /\ ongoing_query_requests'[r] = None
          /\ ~Disturbed(r)
          => \/ \E s \in Clients : /\ pc[s] = "forget" /\ pc'[s] = "loop"
                                   /\ RequestOf(answered[s].entry) = RequestOf(ongoing_query_requests[r])
             \/ /\ sweep.pc = "forget" /\ sweep'.pc = "visit"
                /\ RequestOf(sweep.entry) = RequestOf(ongoing_query_requests[r])]_vars

-----------------------------------------------------------------------------
(* Progress.                                                               *)

\* The runtime keeps polling the session tasks and the heartbeat task, and time
\* passes.  Nobody has to ask, to answer, to leave or to stay.
Fairness ==
    /\ \A c \in Clients :
          /\ WF_vars(SelectResponder(c) \/ LookUpResponder(c) \/ SendQueryRequested(c)
                     \/ RecordOngoingRequest(c))
          /\ WF_vars(DeliverAnswer(c) \/ ForgetAnswered(c))
          /\ WF_vars(CloseRemove(c) \/ CloseRetract(c))
    /\ \A r \in RequestIds : WF_vars(Expire(r))
    /\ WF_vars(Heartbeat)

FairSpec == Spec /\ Fairness

\* No entry stays for ever, even when its responder never answers or its
\* requester is gone and answers to it return early: the sweep removes it.
RequestResolved ==
    \A r \in RequestIds :
        ongoing_query_requests[r] # None ~> ongoing_query_requests[r] = None

\* Every requester is told something about each of its requests in the end, with
\* the same exceptions: also when the answer came before the request was
\* recorded, or the responder left before it answered.
AskAnswered ==
    \A x \in Requests :
        x[3] <= sent[x[1]][x[2]] ~>
            \/ told[x] > 0
            \/ x[1] \notin connected_clients \cap rx
            \/ x \in dropped
            \/ Disturbed(x[2])
=============================================================================

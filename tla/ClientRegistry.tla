--------------------------- MODULE ClientRegistry ---------------------------
(***************************************************************************)
(* The client registry of the broker: the gRPC sessions that register and  *)
(* drop clients (control.rs), the two tables those steps write             *)
(* (connected_clients in state.rs, query_handlers in query_handlers.rs),   *)
(* and the heartbeat task that expels clients whose transport is gone.     *)
(*                                                                         *)
(* Every session is a task of its own and so is the heartbeat; the tables  *)
(* are behind separate RwLocks, so each action below is one critical       *)
(* section together with the local steps around it.  A ClientInfo is       *)
(* represented by the session whose channel it holds (its `tx`), and a     *)
(* vector of handlers by the set of clients it contains; HandlerVectors    *)
(* models the vectors themselves.                                          *)
(***************************************************************************)
EXTENDS Naturals, FiniteSets

CONSTANTS
    Sessions,       \* the streams opened during a behaviour, each used once
    ClientIds,      \* the names clients register under
    QueryIds,       \* the queries clients declare
    None,           \* no session, no client, no registration in progress
    MayRegister     \* [Sessions -> SUBSET ClientIds]: the names a stream may send

ASSUME NoneIsApart == None \notin Sessions \cup ClientIds
ASSUME MayRegisterTyped == MayRegister \in [Sessions -> SUBSET ClientIds]

VARIABLES
    pc,                 \* where the task of each session stands
    rx,                 \* sessions whose receiving half is still alive
    client_id_option,   \* the id the session believes to be
    job,                \* the registration the session is working on
    connected_clients,  \* the session behind each registered client
    expired,            \* clients with last_seen older than the expiration
    query_handlers,     \* the clients that answer each query
    heartbeat,          \* the heartbeat task: its pc, its snapshot, its client
    acked,              \* history: the ClientRegistered messages sent
    sole                \* history: the registrations nobody else has interfered with

tables == <<connected_clients, expired, query_handlers>>
session == <<pc, client_id_option, job>>
history == <<acked, sole>>
vars == <<pc, rx, client_id_option, job, connected_clients, expired, query_handlers,
          heartbeat, acked, sole>>

Registration == [client_id: ClientIds, query_handlers: SUBSET QueryIds]

PCs == {"none", "loop", "insert", "announce", "remove", "retract", "done", "panicked"}

TypeOK ==
    /\ pc \in [Sessions -> PCs]
    /\ rx \in SUBSET Sessions
    /\ client_id_option \in [Sessions -> ClientIds \cup {None}]
    /\ job \in [Sessions -> Registration \cup {None}]
    /\ connected_clients \in [ClientIds -> Sessions \cup {None}]
    /\ expired \in SUBSET ClientIds
    /\ query_handlers \in [QueryIds -> SUBSET ClientIds]
    /\ heartbeat \in [pc: {"wait", "visit", "touch", "remove", "retract"},
                      todo: SUBSET (ClientIds \X Sessions),
                      cur: (ClientIds \X Sessions) \cup {None}]
    /\ acked \in SUBSET (Sessions \X ClientIds)
    /\ sole \in [ClientIds -> [session: Sessions, query_handlers: SUBSET QueryIds] \cup {None}]

Init ==
    /\ pc = [s \in Sessions |-> "none"]
    /\ rx = {}
    /\ client_id_option = [s \in Sessions |-> None]
    /\ job = [s \in Sessions |-> None]
    /\ connected_clients = [c \in ClientIds |-> None]
    /\ expired = {}
    /\ query_handlers = [q \in QueryIds |-> {}]
    /\ heartbeat = [pc |-> "wait", todo |-> {}, cur |-> None]
    /\ acked = {}
    /\ sole = [c \in ClientIds |-> None]

-----------------------------------------------------------------------------
(* What handle_message and the tables do to a client.                      *)

\* State::handle_message refreshes last_seen of the message's source.
Touched(c) == expired' = expired \ {c}

\* Mutant: last_seen outlives the client it belongs to.
RemovedNotExpired(c) ==
    /\ connected_clients' = [connected_clients EXCEPT ![c] = None]
    /\ UNCHANGED expired

\* connected_clients.remove
Removed(c) ==
    /\ connected_clients' = [connected_clients EXCEPT ![c] = None]
    /\ expired' = expired \ {c}

\* Mutant: retain keeps the client instead of the others.
RetractedOthers(c) == query_handlers' = [q \in QueryIds |-> query_handlers[q] \cap {c}]

\* QueryHandler::disconnect_client drops the client from every query.
Retracted(c) == query_handlers' = [q \in QueryIds |-> query_handlers[q] \ {c}]

\* QueryHandler::add_client_query_handler adds it to the queries it declared.
Announced(c, queries) ==
    query_handlers' =
        [q \in QueryIds |-> IF q \in queries THEN query_handlers[q] \cup {c}
                                             ELSE query_handlers[q]]

\* The sessions and the heartbeat visits that still may act on client c.
Names(s, c) ==
    \/ client_id_option[s] = c
    \/ pc[s] \in {"insert", "announce"} /\ job[s].client_id = c

HeartbeatHolds(c) ==
    \/ \E p \in heartbeat.todo : p[1] = c
    \/ heartbeat.pc \in {"touch", "remove", "retract"} /\ heartbeat.cur[1] = c

\* Nobody but s has anything left to do under the name c.
Unused(s, c) ==
    /\ ~HeartbeatHolds(c)
    /\ \A t \in Sessions \ {s} : Names(t, c) => pc[t] \in {"done", "panicked"}

\* Whoever else sends a RegisterClient for c interferes with its sole user.
Interferes(s, c) ==
    sole' = IF sole[c] # None /\ sole[c].session # s THEN [sole EXCEPT ![c] = None]
                                                     ELSE sole

-----------------------------------------------------------------------------
(* Sessions.                                                               *)

OpenSession(s) ==
    /\ pc[s] = "none"
    /\ pc' = [pc EXCEPT ![s] = "loop"]
    /\ rx' = rx \cup {s}
    /\ UNCHANGED <<client_id_option, job, tables, heartbeat, history>>

\* A RegisterClient for an id that is connected is answered with
\* ClientRegistrationFailed; the session takes the id as its own all the same.
RejectDuplicate(s, c) ==
    /\ connected_clients[c] # None
    /\ client_id_option' = [client_id_option EXCEPT ![s] = c]
    /\ Interferes(s, c)
    /\ UNCHANGED <<pc, job, acked>>

\* Mutant: the result of sending ClientRegistered is ignored.
RegisterUnacknowledged(s, c) ==
    /\ connected_clients[c] = None
    /\ s \notin rx
    /\ pc' = [pc EXCEPT ![s] = "insert"]
    /\ job' = [job EXCEPT ![s] = [client_id |-> c, query_handlers |-> {}]]
    /\ Interferes(s, c)
    /\ UNCHANGED <<client_id_option, acked>>

\* The id is free but ClientRegistered cannot be sent: nothing is registered.
FailToAcknowledge(s, c) ==
    /\ connected_clients[c] = None
    /\ s \notin rx
    /\ client_id_option' = [client_id_option EXCEPT ![s] = c]
    /\ Interferes(s, c)
    /\ UNCHANGED <<pc, job, acked>>

\* The id is free and ClientRegistered goes out, before the client is inserted.
Acknowledge(s, c, queries) ==
    /\ connected_clients[c] = None
    /\ s \in rx
    /\ acked' = acked \cup {<<s, c>>}
    /\ pc' = [pc EXCEPT ![s] = "insert"]
    /\ job' = [job EXCEPT ![s] = [client_id |-> c, query_handlers |-> queries]]
    /\ sole' = [sole EXCEPT ![c] = IF Unused(s, c)
                                     THEN [session |-> s, query_handlers |-> queries]
                                     ELSE None]
    /\ UNCHANGED client_id_option

RegisterClient(s, c, queries) ==
    /\ pc[s] = "loop"
    /\ c \in MayRegister[s]
    /\ \/ RejectDuplicate(s, c)
       \/ FailToAcknowledge(s, c)
       \/ Acknowledge(s, c, queries)
    /\ UNCHANGED <<rx, tables, heartbeat>>

\* HashMap::insert: whoever was there is overwritten.
InsertClient(s) ==
    /\ pc[s] = "insert"
    /\ pc' = [pc EXCEPT ![s] = "announce"]
    /\ connected_clients' = [connected_clients EXCEPT ![job[s].client_id] = s]
    /\ expired' = expired \ {job[s].client_id}
    /\ UNCHANGED <<rx, client_id_option, job, query_handlers, heartbeat, history>>

AnnounceHandlers(s) ==
    /\ pc[s] = "announce"
    /\ pc' = [pc EXCEPT ![s] = "loop"]
    /\ Announced(job[s].client_id, job[s].query_handlers)
    /\ client_id_option' = [client_id_option EXCEPT ![s] = job[s].client_id]
    /\ job' = [job EXCEPT ![s] = None]
    /\ UNCHANGED <<rx, connected_clients, expired, heartbeat, history>>

\* Any other message of a session that has an id: here only the touch counts.
ReceiveMessage(s) ==
    /\ pc[s] = "loop"
    /\ client_id_option[s] # None
    /\ Touched(client_id_option[s])
    /\ UNCHANGED <<session, rx, connected_clients, query_handlers, heartbeat, history>>

\* End of stream, stream error, invalid message or shutdown: the loop is left.
\* With an id, DisconnectClient follows, whose touch belongs to this step.
StreamEnds(s) ==
    /\ pc[s] = "loop"
    /\ IF client_id_option[s] = None
         THEN pc' = [pc EXCEPT ![s] = "done"] /\ UNCHANGED expired
         ELSE pc' = [pc EXCEPT ![s] = "remove"] /\ Touched(client_id_option[s])
    /\ UNCHANGED <<rx, client_id_option, job, connected_clients, query_handlers,
                   heartbeat, history>>

\* An id that is not a UUID panics the task, which skips the disconnection.
Panic(s) ==
    /\ pc[s] = "loop"
    /\ client_id_option[s] # None
    /\ pc' = [pc EXCEPT ![s] = "panicked"]
    /\ UNCHANGED <<rx, client_id_option, job, tables, heartbeat, history>>

\* Mutant: a client that expired is left for the heartbeat to remove.
CloseRemoveUnlessExpired(s) ==
    /\ pc[s] = "remove"
    /\ pc' = [pc EXCEPT ![s] = "retract"]
    /\ IF client_id_option[s] \in expired THEN UNCHANGED <<connected_clients, expired>>
                                          ELSE Removed(client_id_option[s])
    /\ UNCHANGED <<rx, client_id_option, job, query_handlers, heartbeat, history>>

\* Mutant: the two halves of a disconnection are swapped.
CloseRetractsFirst(s) ==
    /\ pc[s] = "remove"
    /\ pc' = [pc EXCEPT ![s] = "retract"]
    /\ Retracted(client_id_option[s])
    /\ UNCHANGED <<rx, client_id_option, job, connected_clients, expired, heartbeat, history>>

CloseRemove(s) ==
    /\ pc[s] = "remove"
    /\ pc' = [pc EXCEPT ![s] = "retract"]
    /\ Removed(client_id_option[s])
    /\ UNCHANGED <<rx, client_id_option, job, query_handlers, heartbeat, history>>

\* Mutant: the client stays in the vectors of its queries.
CloseWithoutRetracting(s) ==
    /\ pc[s] = "retract"
    /\ pc' = [pc EXCEPT ![s] = "done"]
    /\ UNCHANGED <<rx, client_id_option, job, tables, heartbeat, history>>

CloseRetract(s) ==
    /\ pc[s] = "retract"
    /\ pc' = [pc EXCEPT ![s] = "done"]
    /\ Retracted(client_id_option[s])
    /\ UNCHANGED <<rx, client_id_option, job, connected_clients, expired,
                   heartbeat, history>>

\* The transport drops the response stream, and with it the receiver.
DropReceiver(s) ==
    /\ s \in rx
    /\ rx' = rx \ {s}
    /\ UNCHANGED <<session, tables, heartbeat, history>>

Session(s) ==
    \/ OpenSession(s)
    \/ \E c \in ClientIds, queries \in SUBSET QueryIds : RegisterClient(s, c, queries)
    \/ InsertClient(s) \/ AnnounceHandlers(s)
    \/ ReceiveMessage(s)
    \/ StreamEnds(s) \/ Panic(s)
    \/ CloseRemove(s) \/ CloseRetract(s)
    \/ DropReceiver(s)

-----------------------------------------------------------------------------
(* Time and the heartbeat task.                                            *)

\* server_expiration_client passes since the client was last seen.
Expire(c) ==
    /\ connected_clients[c] # None
    /\ c \notin expired
    /\ expired' = expired \cup {c}
    /\ UNCHANGED <<session, rx, connected_clients, query_handlers, heartbeat, history>>

\* A tick takes the ids and the channels of the expired clients, under one
\* read lock.
HeartbeatTick ==
    /\ heartbeat.pc = "wait"
    /\ expired # {}
    /\ heartbeat' = [pc |-> "visit",
                     todo |-> {<<c, connected_clients[c]>> : c \in expired},
                     cur |-> None]
    /\ UNCHANGED <<session, rx, tables, history>>

\* The heartbeat is put in the channel of the snapshot.
HeartbeatSent(p) ==
    /\ heartbeat.pc = "visit"
    /\ p \in heartbeat.todo
    /\ p[2] \in rx
    /\ heartbeat' = [pc |-> "touch", todo |-> heartbeat.todo \ {p}, cur |-> p]
    /\ UNCHANGED <<session, rx, tables, history>>

\* handle_message(Heartbeat) touches whoever has the id now.
HeartbeatTouch ==
    /\ heartbeat.pc = "touch"
    /\ Touched(heartbeat.cur[1])
    /\ heartbeat' = [heartbeat EXCEPT !.pc = "visit", !.cur = None]
    /\ UNCHANGED <<session, rx, connected_clients, query_handlers, history>>

\* Mutant: a channel that takes no message just now counts as closed.
HeartbeatFailsWhenBusy(p) ==
    /\ heartbeat.pc = "visit"
    /\ p \in heartbeat.todo
    /\ Touched(p[1])
    /\ heartbeat' = [pc |-> "remove", todo |-> heartbeat.todo \ {p}, cur |-> p]
    /\ UNCHANGED <<session, rx, connected_clients, query_handlers, history>>

\* Mutant: a heartbeat that could not be sent is taken for one that was.
HeartbeatFailureIgnored(p) ==
    /\ heartbeat.pc = "visit"
    /\ p \in heartbeat.todo
    /\ p[2] \notin rx
    /\ heartbeat' = [pc |-> "touch", todo |-> heartbeat.todo \ {p}, cur |-> p]
    /\ UNCHANGED <<session, rx, tables, history>>

\* The send fails: DisconnectClient for the id, beginning with its touch.
HeartbeatFails(p) ==
    /\ heartbeat.pc = "visit"
    /\ p \in heartbeat.todo
    /\ p[2] \notin rx
    /\ Touched(p[1])
    /\ heartbeat' = [pc |-> "remove", todo |-> heartbeat.todo \ {p}, cur |-> p]
    /\ UNCHANGED <<session, rx, connected_clients, query_handlers, history>>

\* It removes whoever has the id now.
HeartbeatRemove ==
    /\ heartbeat.pc = "remove"
    /\ Removed(heartbeat.cur[1])
    /\ heartbeat' = [heartbeat EXCEPT !.pc = "retract"]
    /\ UNCHANGED <<session, rx, query_handlers, history>>

\* Mutant: an expelled client stays in the vectors of its queries.
HeartbeatForgetsToRetract ==
    /\ heartbeat.pc = "retract"
    /\ heartbeat' = [heartbeat EXCEPT !.pc = "visit", !.cur = None]
    /\ UNCHANGED <<session, rx, tables, history>>

HeartbeatRetract ==
    /\ heartbeat.pc = "retract"
    /\ Retracted(heartbeat.cur[1])
    /\ heartbeat' = [heartbeat EXCEPT !.pc = "visit", !.cur = None]
    /\ UNCHANGED <<session, rx, connected_clients, expired, history>>

HeartbeatDone ==
    /\ heartbeat.pc = "visit"
    /\ heartbeat.todo = {}
    /\ heartbeat' = [heartbeat EXCEPT !.pc = "wait"]
    /\ UNCHANGED <<session, rx, tables, history>>

Heartbeat ==
    \/ HeartbeatTick
    \/ \E p \in heartbeat.todo : HeartbeatSent(p) \/ HeartbeatFails(p)
    \/ HeartbeatTouch \/ HeartbeatRemove \/ HeartbeatRetract
    \/ HeartbeatDone

Next ==
    \/ \E s \in Sessions : Session(s)
    \/ \E c \in ClientIds : Expire(c)
    \/ Heartbeat

Spec == Init /\ [][Next]_vars

-----------------------------------------------------------------------------
(* Safety, whatever the clients do.                                        *)

\* Nobody is registered, nor offers a query through a registration, whose
\* ClientRegistered was not sent first on its own stream
\* (handle_register_client_message sends before it inserts).
RegisteredWasAcked ==
    \A c \in ClientIds : connected_clients[c] # None =>
        <<connected_clients[c], c>> \in acked

\* A session that ran to its end left nothing registered under the id it
\* believed to be: its last DisconnectClient cannot be overtaken by its own
\* registration, however the heartbeat and other sessions interleave.
EndedSessionNotRegistered ==
    \A s \in Sessions : pc[s] \in {"retract", "done"} /\ client_id_option[s] # None =>
        connected_clients[client_id_option[s]] # s

-----------------------------------------------------------------------------
(* Names that several streams use.  The broker acts by name, so what is    *)
(* done for one stream may hit another one of the same name: the           *)
(* properties say that nothing else can.                                   *)

BeingRetracted(c) ==
    \/ \E s \in Sessions : pc[s] = "retract" /\ client_id_option[s] = c
    \/ heartbeat.pc = "retract" /\ heartbeat.cur[1] = c

Orphan(c) ==
    /\ \E q \in QueryIds : c \in query_handlers[q]
    /\ connected_clients[c] = None
    /\ ~BeingRetracted(c)

\* A client that left is listed for a query no longer than the two steps of its
\* disconnection take, unless it was disconnected in the middle of its own
\* registration and announces its queries after that
\* (handle_disconnected_client_message, handle_register_client_message).
NoOrphanHandlers ==
    [][\A c \in ClientIds : ~Orphan(c) /\ Orphan(c)' =>
          \E s \in Sessions : /\ pc[s] = "announce" /\ pc'[s] = "loop"
                             /\ job[s].client_id = c
                             /\ connected_clients[c] # s]_vars

\* A stream that holds its registration, can be reached and is not closing.
Live(s, c) == connected_clients[c] = s /\ s \in rx /\ pc[s] # "remove"

\* A stream that can be reached loses its registration only on account of another
\* stream of that name: one that was acknowledged as well, one that ends, or a
\* dead one the heartbeat found.  A heartbeat to itself never costs it its place.
LiveClientKept ==
    [][\A c \in ClientIds : \A s \in Sessions :
          Live(s, c) /\ connected_clients'[c] # s =>
              \E t \in Sessions \ {s} :
                  \/ connected_clients'[c] = t
                  \/ pc[t] = "remove" /\ client_id_option[t] = c
                  \/ heartbeat.pc = "remove" /\ heartbeat.cur = <<c, t>> /\ t \notin rx]_vars

\* So with the queries it is listed for: they are retracted while it stays
\* connected only by the late retraction of another stream of that name.
HandlersStay ==
    [][\A c \in ClientIds, q \in QueryIds : \A s \in Sessions :
          /\ Live(s, c) /\ connected_clients'[c] = s
          /\ c \in query_handlers[q] /\ c \notin query_handlers'[q]
          => \E t \in Sessions \ {s} :
                  \/ pc[t] = "retract" /\ client_id_option[t] = c
                  \/ heartbeat.pc = "retract" /\ heartbeat.cur = <<c, t>> /\ t \notin rx]_vars

Completing(s, c) == pc[s] \in {"insert", "announce"} /\ job[s].client_id = c

\* A client that registered when everything about its earlier streams was over,
\* and whose name no other stream has registered since, is connected and listed
\* for all it declared while its stream is open: whatever the broker still does
\* for other clients, or did for earlier streams of this one, does not reach it.
SoleUserServed ==
    \A c \in ClientIds : \A s \in Sessions :
        /\ sole[c] # None /\ sole[c].session = s
        /\ pc[s] \in {"loop", "insert", "announce"} /\ s \in rx
        /\ ~Completing(s, c)
        => /\ connected_clients[c] = s
           /\ \A q \in sole[c].query_handlers : c \in query_handlers[q]

\* A RegisterClient for an id that another reachable stream holds is refused:
\* no two of them are told ClientRegistered.
Holds(s, c) ==
    /\ <<s, c>> \in acked
    /\ s \in rx
    /\ \/ pc[s] \in {"insert", "announce"} /\ job[s].client_id = c
       \/ pc[s] = "loop" /\ client_id_option[s] = c
OneHolder ==
    \A c \in ClientIds : \A s, t \in Sessions : Holds(s, c) /\ Holds(t, c) => s = t

-----------------------------------------------------------------------------
(* Progress.                                                               *)

\* The runtime keeps polling tasks: a session that is past its message loop or
\* in the middle of a registration goes on, the heartbeat interval keeps
\* ticking, and time passes for a client that nobody touches.  A stream whose
\* transport is gone delivers what was buffered and then ends.
Fairness ==
    /\ \A s \in Sessions :
          /\ WF_vars(InsertClient(s) \/ AnnounceHandlers(s))
          /\ WF_vars(CloseRemove(s) \/ CloseRetract(s))
          /\ SF_vars(s \notin rx /\ StreamEnds(s))
    /\ \A c \in ClientIds : WF_vars(Expire(c))
    /\ WF_vars(Heartbeat)

FairSpec == Spec /\ Fairness

\* Another stream that took the name refreshes last_seen time and again.
KeptAlive(s, c) ==
    \E t \in Sessions \ {s} : []<><<client_id_option[t] = c /\ ReceiveMessage(t)>>_vars

\* A client whose receiver is gone does not stay registered, even when its
\* task panicked and will never disconnect it: the heartbeat finds it, unless
\* the messages of a stream that was refused the name keep it alive for ever.
DeadClientForgotten ==
    \A s \in Sessions, c \in ClientIds :
        \/ KeptAlive(s, c)
        \/ (connected_clients[c] = s /\ s \notin rx) ~> connected_clients[c] # s

\* And then no query is routed to it any more, unless it registered anew.
DeadClientRetracted ==
    \A s \in Sessions, c \in ClientIds :
        \/ KeptAlive(s, c)
        \/ (connected_clients[c] = s /\ s \notin rx) ~>
               \/ \A q \in QueryIds : c \notin query_handlers[q]
               \/ connected_clients[c] \notin {s, None}
=============================================================================

----------------------------- MODULE SourceEvents -----------------------------
(***************************************************************************)
(* Source events: the handler of RegisterSourceEvent (state.rs), the       *)
(* transaction that stores an event with the next clock (db/mod.rs), the   *)
(* acknowledgement to its source and the broadcast, a task of its own for  *)
(* every event that keeps a read lock on connected_clients to its end.     *)
(*                                                                         *)
(* An event is what its source sent, under the source's own event id; the  *)
(* id the database makes up for it is represented by the clock, which is   *)
(* as unique, and the table's source is a history, which the code does not *)
(* keep.  A stream may register several names, and each of them leads to   *)
(* its channel.  A send waits for a free slot: it is a step of its own,    *)
(* which may come late or never, while a broadcast keeps its lock.         *)
(* Registration and disconnection are one step each here: ClientRegistry   *)
(* has theirs.  SQLite is external: its transactions write one after the   *)
(* other and may fail at any statement.                                    *)
(***************************************************************************)
EXTENDS Naturals, Sequences, FiniteSets

CONSTANTS
    Sessions,       \* the streams, each used once
    ClientIds,      \* the names of the clients
    EventIds,       \* what clients send
    None,
    MayRegister,    \* [Sessions -> SUBSET ClientIds]: the names a stream asks for
    MaxEvents       \* bound: events stored

ASSUME SessionsTyped == IsFiniteSet(Sessions) /\ None \notin Sessions
ASSUME ClientIdsTyped == None \notin ClientIds
ASSUME MayRegisterTyped == MayRegister \in [Sessions -> SUBSET ClientIds]
ASSUME MaxEventsTyped == MaxEvents \in Nat

VARIABLES
    pc,                 \* where the task of each session stands
    rx,                 \* sessions whose receiving half is still alive
    client_id_option,   \* the name a session registered last
    connected_clients,  \* the session behind each registered client
    saving,             \* the event a session handles, its clock, whom to tell
    writer,             \* the session whose transaction has written
    source_event,       \* the table: committed events, in the order of commit
    broadcasts,         \* the broadcast of every clock: its pc and who is left
    acked,              \* history: the acknowledgements, and whether they came
    delivered           \* history: SourceEvent by stream, name and clock

registry == <<rx, client_id_option, connected_clients>>
store == <<writer, source_event>>
sent == <<acked, delivered>>
vars == <<pc, rx, client_id_option, connected_clients, saving, writer, source_event, broadcasts, acked, delivered>>

Clocks == 1..MaxEvents
SourceEvent == [source: ClientIds, event: EventIds, clock: Clocks]
Saving == [event: EventIds \cup {None}, clock: Clocks \cup {0}, tx: Sessions \cup {None}]
Broadcast == [pc: {"none", "skipped", "spawned", "sending", "done"}, todo: SUBSET ClientIds]
Acknowledgement == [to: Sessions, source: ClientIds, clock: Clocks, came: BOOLEAN]

TypeOK ==
    /\ pc \in [Sessions -> {"none", "loop", "save", "commit", "find", "acknowledge", "done"}]
    /\ rx \in SUBSET Sessions
    /\ client_id_option \in [Sessions -> ClientIds \cup {None}]
    /\ connected_clients \in [ClientIds -> Sessions \cup {None}]
    /\ saving \in [Sessions -> Saving]
    /\ writer \in Sessions \cup {None}
    /\ source_event \in Seq(SourceEvent)
    /\ broadcasts \in [Clocks -> Broadcast]
    /\ acked \in SUBSET Acknowledgement
    /\ delivered \in [Sessions \X ClientIds \X Clocks -> Nat]

Nothing == [event |-> None, clock |-> 0, tx |-> None]

Init ==
    /\ pc = [s \in Sessions |-> "none"]
    /\ rx = {}
    /\ client_id_option = [s \in Sessions |-> None]
    /\ connected_clients = [c \in ClientIds |-> None]
    /\ saving = [s \in Sessions |-> Nothing]
    /\ writer = None
    /\ source_event = <<>>
    /\ broadcasts = [k \in Clocks |-> [pc |-> "none", todo |-> {}]]
    /\ acked = {}
    /\ delivered = [x \in Sessions \X ClientIds \X Clocks |-> 0]

-----------------------------------------------------------------------------
GoTo(s, where) == pc' = [pc EXCEPT ![s] = where]

\* A write lock on connected_clients is to be had: no broadcast reads it.
Writable == \A k \in Clocks : broadcasts[k].pc # "sending"

Registered == {c \in ClientIds : connected_clients[c] # None}

-----------------------------------------------------------------------------
(* Clients that come and go.                                               *)

OpenSession(s) ==
    /\ pc[s] = "none"
    /\ GoTo(s, "loop")
    /\ rx' = rx \cup {s}
    /\ UNCHANGED <<client_id_option, connected_clients, saving, store, broadcasts, sent>>

\* A stream whose name is taken is refused, but keeps the name as its own; so
\* does one that cannot be told of its registration.
RegisterClient(s, c) ==
    /\ pc[s] = "loop"
    /\ c \in MayRegister[s]
    /\ Writable
    /\ client_id_option' = [client_id_option EXCEPT ![s] = c]
    /\ connected_clients' =
          [connected_clients EXCEPT ![c] = IF @ = None /\ s \in rx THEN s ELSE @]
    /\ UNCHANGED <<pc, rx, saving, store, broadcasts, sent>>

\* The end of a stream removes whoever has its last name.
DisconnectClient(s) ==
    /\ pc[s] = "loop"
    /\ Writable
    /\ GoTo(s, "done")
    /\ connected_clients' = [c \in ClientIds |->
          IF c = client_id_option[s] THEN None ELSE connected_clients[c]]
    /\ UNCHANGED <<rx, client_id_option, saving, store, broadcasts, sent>>

DropReceiver(s) ==
    /\ s \in rx
    /\ rx' = rx \ {s}
    /\ UNCHANGED <<pc, client_id_option, connected_clients, saving, store, broadcasts, sent>>

\* The heartbeat finds the channel dead, whatever the session is doing.
ExpelClient(c) ==
    /\ connected_clients[c] \notin rx \cup {None}
    /\ Writable
    /\ connected_clients' = [connected_clients EXCEPT ![c] = None]
    /\ UNCHANGED <<pc, rx, client_id_option, saving, store, broadcasts, sent>>

-----------------------------------------------------------------------------
(* handle_register_source_event_message and save_source_event.             *)

\* Streams that still need a clock for the event they handle.
Storing == {s \in Sessions : pc[s] \in {"save", "commit"}}

\* The message needs a name, and touches last_seen under the write lock.
ReceiveSourceEvent(s, e) ==
    /\ pc[s] = "loop"
    /\ client_id_option[s] # None
    /\ Writable
    /\ Len(source_event) + Cardinality(Storing) < MaxEvents
    /\ GoTo(s, "save")
    /\ saving' = [saving EXCEPT ![s] = [Nothing EXCEPT !.event = e]]
    /\ UNCHANGED <<registry, store, broadcasts, sent>>

\* Mutants: the clock is read before the transaction writes, ...
InsertSourceEventUnlocked(s) ==
    /\ pc[s] = "save"
    /\ writer' = s
    /\ GoTo(s, "commit")
    /\ saving' = [saving EXCEPT ![s].clock = Len(source_event) + 1]
    /\ UNCHANGED <<registry, source_event, broadcasts, sent>>

\* ... or the new event takes the clock of the last one.
InsertSourceEventAtMax(s) ==
    /\ pc[s] = "save"
    /\ writer = None
    /\ writer' = s
    /\ GoTo(s, "commit")
    /\ saving' = [saving EXCEPT ![s].clock = Len(source_event)]
    /\ UNCHANGED <<registry, source_event, broadcasts, sent>>

\* INSERT ... SELECT MAX(monotonic_clock) + 1, which waits for other writers.
InsertSourceEvent(s) ==
    /\ pc[s] = "save"
    /\ writer = None
    /\ writer' = s
    /\ GoTo(s, "commit")
    /\ saving' = [saving EXCEPT ![s].clock = Len(source_event) + 1]
    /\ UNCHANGED <<registry, source_event, broadcasts, sent>>

NewEvent(s) ==
    [source |-> client_id_option[s], event |-> saving[s].event, clock |-> saving[s].clock]

\* Mutant: the broadcast is spawned as soon as the event is stored.
CommitAndBroadcast(s) ==
    /\ pc[s] = "commit"
    /\ writer' = None
    /\ source_event' = Append(source_event, NewEvent(s))
    /\ broadcasts' = [broadcasts EXCEPT ![saving[s].clock].pc = "spawned"]
    /\ GoTo(s, "find")
    /\ UNCHANGED <<registry, saving, sent>>

CommitSourceEvent(s) ==
    /\ pc[s] = "commit"
    /\ writer' = None
    /\ source_event' = Append(source_event, NewEvent(s))
    /\ GoTo(s, "find")
    /\ UNCHANGED <<registry, saving, broadcasts, sent>>

\* A statement fails, the transaction is rolled back and nobody is told.
SaveFails(s) ==
    /\ pc[s] \in {"save", "commit"}
    /\ writer' = IF pc[s] = "commit" THEN None ELSE writer
    /\ GoTo(s, "loop")
    /\ saving' = [saving EXCEPT ![s] = Nothing]
    /\ UNCHANGED <<registry, source_event, broadcasts, sent>>

\* The channel of whoever has the name of the source now.
FindSource(s) ==
    /\ pc[s] = "find"
    /\ connected_clients[client_id_option[s]] # None
    /\ GoTo(s, "acknowledge")
    /\ saving' = [saving EXCEPT ![s].tx = connected_clients[client_id_option[s]]]
    /\ UNCHANGED <<registry, store, broadcasts, sent>>

\* Without such a client the event is stored, but not announced to anybody.
SourceNotFound(s) ==
    /\ pc[s] = "find"
    /\ connected_clients[client_id_option[s]] = None
    /\ broadcasts' = [broadcasts EXCEPT ![saving[s].clock].pc = "skipped"]
    /\ GoTo(s, "loop")
    /\ saving' = [saving EXCEPT ![s] = Nothing]
    /\ UNCHANGED <<registry, store, sent>>

Acknowledge(s, k) ==
    acked' = acked \cup {[to |-> saving[s].tx, source |-> client_id_option[s], clock |-> k,
                          came |-> saving[s].tx \in rx]}

\* Mutant: the clock is read from the table again.
AcknowledgeLastEvent(s) ==
    /\ pc[s] = "acknowledge"
    /\ Acknowledge(s, Len(source_event))
    /\ broadcasts' = [broadcasts EXCEPT ![saving[s].clock].pc = "spawned"]
    /\ GoTo(s, "loop")
    /\ saving' = [saving EXCEPT ![s] = Nothing]
    /\ UNCHANGED <<registry, store, delivered>>

\* SourceEventRegistered into the channel found, whoever has the name by now.
\* That the send fails is ignored, and the broadcast is spawned.
AcknowledgeSourceEvent(s) ==
    /\ pc[s] = "acknowledge"
    /\ Acknowledge(s, saving[s].clock)
    /\ broadcasts' = [broadcasts EXCEPT ![saving[s].clock].pc = "spawned"]
    /\ GoTo(s, "loop")
    /\ saving' = [saving EXCEPT ![s] = Nothing]
    /\ UNCHANGED <<registry, store, delivered>>

-----------------------------------------------------------------------------
(* The task that broadcasts the event with clock k.                        *)

StartBroadcast(k) ==
    /\ broadcasts[k].pc = "spawned"
    /\ broadcasts' = [broadcasts EXCEPT ![k] = [pc |-> "sending", todo |-> Registered]]
    /\ UNCHANGED <<pc, registry, saving, store, sent>>

\* The event goes into the channel a name leads to, if somebody receives it.
Send(k, c) ==
    delivered' = IF connected_clients[c] \in rx
                 THEN [delivered EXCEPT ![<<connected_clients[c], c, k>>] = @ + 1]
                 ELSE delivered

\* Mutants: a send that fails ends the broadcast, ...
SendToClientOrStop(k, c) ==
    /\ broadcasts[k].pc = "sending"
    /\ c \in broadcasts[k].todo
    /\ Send(k, c)
    /\ broadcasts' = [broadcasts EXCEPT ![k].todo =
                         IF connected_clients[c] \in rx THEN @ \ {c} ELSE {}]
    /\ UNCHANGED <<pc, registry, saving, store, acked>>

\* ... or lets it begin again with the others.
SendToClientOrRestart(k, c) ==
    /\ broadcasts[k].pc = "sending"
    /\ c \in broadcasts[k].todo
    /\ Send(k, c)
    /\ broadcasts' = [broadcasts EXCEPT ![k].todo =
                         IF connected_clients[c] \in rx THEN @ \ {c} ELSE Registered \ {c}]
    /\ UNCHANGED <<pc, registry, saving, store, acked>>

\* A send that fails is only logged.
SendToClient(k, c) ==
    /\ broadcasts[k].pc = "sending"
    /\ c \in broadcasts[k].todo
    /\ Send(k, c)
    /\ broadcasts' = [broadcasts EXCEPT ![k].todo = @ \ {c}]
    /\ UNCHANGED <<pc, registry, saving, store, acked>>

EndBroadcast(k) ==
    /\ broadcasts[k].pc = "sending"
    /\ broadcasts[k].todo = {}
    /\ broadcasts' = [broadcasts EXCEPT ![k].pc = "done"]
    /\ UNCHANGED <<pc, registry, saving, store, sent>>

-----------------------------------------------------------------------------
Session(s) ==
    \/ OpenSession(s) \/ DisconnectClient(s) \/ DropReceiver(s)
    \/ \E c \in ClientIds : RegisterClient(s, c)
    \/ \E e \in EventIds : ReceiveSourceEvent(s, e)
    \/ InsertSourceEvent(s) \/ CommitSourceEvent(s) \/ SaveFails(s)
    \/ FindSource(s) \/ SourceNotFound(s) \/ AcknowledgeSourceEvent(s)

Broadcasts(k) ==
    \/ StartBroadcast(k)
    \/ \E c \in ClientIds : SendToClient(k, c)
    \/ EndBroadcast(k)

Next ==
    \/ \E s \in Sessions : Session(s)
    \/ \E c \in ClientIds : ExpelClient(c)
    \/ \E k \in Clocks : Broadcasts(k)

Spec == Init /\ [][Next]_vars

-----------------------------------------------------------------------------
(* Safety.                                                                 *)

\* The transactions, the acknowledgements and the broadcasts amount to a log
\* that only grows, with consecutive clocks, and deliveries of logged events.
Promise == INSTANCE EventLog WITH log <- source_event

KeepsLog == Promise!Spec

\* An acknowledgement names an event that is stored and was sent under the
\* name it is acknowledged for, though other streams store events meanwhile
\* and the name may have passed to another stream.
AckIsTrue ==
    \A a \in acked :
        a.clock \in DOMAIN source_event /\ source_event[a.clock].source = a.source

\* No event is put in a channel twice under one name, whatever sends fail and
\* whoever leaves, reconnects or registers a second name meanwhile.  (A stream
\* with two names does get it twice, once under each.)
NoRepeat == \A x \in Sessions \X ClientIds \X Clocks : delivered[x] <= 1

\* A broadcast passes over nobody: a client that was registered when an event
\* was delivered to somebody first, and still is and can be reached at the
\* end, has it.  One send that fails does not keep it from the others.
NobodyPassedOver ==
    [][\A k \in Clocks :
          broadcasts[k].pc = "sending" /\ broadcasts'[k].pc # "sending" =>
             \A c \in ClientIds : connected_clients[c] \in rx =>
                delivered[<<connected_clients[c], c, k>>] > 0]_vars

\* The source hears that its event is stored before anybody gets the event: it
\* was acknowledged to the stream that had its name, unless that was dead.
AckComesFirst ==
    \A t \in Sessions, c \in ClientIds, k \in Clocks : delivered[<<t, c, k>>] > 0 =>
        \E a \in acked :
            /\ a.source = source_event[k].source /\ a.clock = k
            /\ a.came \/ a.to \notin rx

-----------------------------------------------------------------------------
(* Progress.                                                               *)

\* The runtime keeps polling the tasks, the database answers and, which the
\* broker cannot enforce, clients read what is in their channels.
Fairness ==
    /\ \A s \in Sessions :
          /\ WF_vars(InsertSourceEvent(s) \/ CommitSourceEvent(s) \/ SaveFails(s))
          /\ WF_vars(FindSource(s) \/ SourceNotFound(s) \/ AcknowledgeSourceEvent(s))
    /\ \A k \in Clocks : WF_vars(Broadcasts(k))

FairSpec == Spec /\ Fairness

\* Every event that is stored is broadcast to the connected clients.
StoredIsBroadcast ==
    \A k \in Clocks : k \in DOMAIN source_event ~> broadcasts[k].pc = "done"
=============================================================================

-------------------------- MODULE SourceEventsProofs --------------------------
(***************************************************************************)
(* Proofs about SourceEvents, for any streams, clients and events.         *)
(***************************************************************************)
EXTENDS SourceEvents, FiniteSetTheorems, TLAPS

-----------------------------------------------------------------------------
(* Types, and the clocks that are given.                                   *)

\* There is a clock left for every event that is being stored.
RoomLeft == Len(source_event) + Cardinality(Storing) <= MaxEvents

Handling == {"save", "commit", "find", "acknowledge"}

\* One transaction writes at a time, and has the clock after the last.
OneWriter ==
    \A s \in Sessions :
        /\ pc[s] \in Handling => client_id_option[s] # None
        /\ pc[s] \in {"save", "commit"} => saving[s].event \in EventIds
        /\ pc[s] = "commit" => writer = s /\ saving[s].clock = Len(source_event) + 1

\* Only events of the log are acknowledged and announced.
OnlyLogged ==
    /\ \A s \in Sessions :
          /\ pc[s] \in {"find", "acknowledge"} => saving[s].clock \in 1..Len(source_event)
          /\ pc[s] = "acknowledge" => saving[s].tx # None
    /\ \A k \in Clocks : broadcasts[k].pc # "none" => k <= Len(source_event)

LogInv ==
    /\ TypeOK
    /\ RoomLeft
    /\ OneWriter
    /\ OnlyLogged

\* The invariant holds before any stream is opened.
LEMMA InitLog == Init => LogInv
<1> SUFFICES ASSUME Init PROVE LogInv
  OBVIOUS
<1> USE DEF Init
<1>1. TypeOK
  BY DEF TypeOK, Nothing, Broadcast, Saving
<1>2. RoomLeft
  <2>1. Storing = {}
    BY DEF Storing
  <2> QED BY <2>1, FS_EmptySet, MaxEventsTyped DEF RoomLeft
<1>3. OneWriter /\ OnlyLogged
  BY DEF OneWriter, OnlyLogged, Handling
<1> QED BY <1>1, <1>2, <1>3 DEF LogInv

\* Sessions that store are finitely many, and one more or less counts as such.
LEMMA StoringCounted ==
  ASSUME TypeOK
  PROVE  /\ IsFiniteSet(Storing)
         /\ Cardinality(Storing) \in Nat
         /\ \A s \in Storing : Cardinality(Storing \ {s}) = Cardinality(Storing) - 1
         /\ \A s \in Storing : Cardinality(Storing) >= 1
         /\ \A s \in Sessions \ Storing : Cardinality(Storing \cup {s}) = Cardinality(Storing) + 1
<1>1. Storing \subseteq Sessions /\ IsFiniteSet(Storing)
  BY SessionsTyped, FS_Subset DEF Storing
<1>2. \A s \in Storing : Cardinality(Storing) # 0
  BY <1>1, FS_EmptySet
<1> QED BY <1>1, <1>2, FS_CardinalityType, FS_RemoveElement, FS_AddElement

\* A step that leaves the sessions that store alone, and the table, keeps the
\* room for them.
LEMMA RoomKept ==
  ASSUME RoomLeft, Storing' = Storing, UNCHANGED source_event
  PROVE  RoomLeft'
  BY DEF RoomLeft

\* The streams and the heartbeat give no clocks.
LEMMA ConnectionLog ==
  ASSUME LogInv,
         \/ \E s \in Sessions : \/ OpenSession(s) \/ DisconnectClient(s) \/ DropReceiver(s)
                                \/ \E c \in ClientIds : RegisterClient(s, c)
         \/ \E c \in ClientIds : ExpelClient(c)
  PROVE  LogInv'
<1> USE ClientIdsTyped DEF LogInv, TypeOK, OneWriter, OnlyLogged, Handling, GoTo, store, sent
<1>1. ASSUME NEW s \in Sessions, OpenSession(s) PROVE LogInv'
  <2>1. Storing' = Storing BY <1>1 DEF OpenSession, Storing
  <2>2. RoomLeft' BY <1>1, <2>1, RoomKept DEF OpenSession
  <2> QED BY <1>1, <2>2 DEF OpenSession
<1>2. ASSUME NEW s \in Sessions, NEW c \in ClientIds, RegisterClient(s, c) PROVE LogInv'
  <2>1. Storing' = Storing BY <1>2 DEF RegisterClient, Storing
  <2>2. RoomLeft' BY <1>2, <2>1, RoomKept DEF RegisterClient
  <2> QED BY <1>2, <2>2 DEF RegisterClient
<1>3. ASSUME NEW s \in Sessions, DisconnectClient(s) PROVE LogInv'
  <2>1. Storing' = Storing BY <1>3 DEF DisconnectClient, Storing
  <2>2. RoomLeft' BY <1>3, <2>1, RoomKept DEF DisconnectClient
  <2> QED BY <1>3, <2>2 DEF DisconnectClient
<1>4. ASSUME NEW s \in Sessions, DropReceiver(s) PROVE LogInv'
  <2>1. Storing' = Storing BY <1>4 DEF DropReceiver, Storing
  <2>2. RoomLeft' BY <1>4, <2>1, RoomKept DEF DropReceiver
  <2> QED BY <1>4, <2>2 DEF DropReceiver
<1>5. ASSUME NEW c \in ClientIds, ExpelClient(c) PROVE LogInv'
  <2>1. Storing' = Storing BY <1>5 DEF ExpelClient, Storing
  <2>2. RoomLeft' BY <1>5, <2>1, RoomKept DEF ExpelClient
  <2> QED BY <1>5, <2>2 DEF ExpelClient
<1> QED BY <1>1, <1>2, <1>3, <1>4, <1>5

\* What a send into the channel of a client counts.
LEMMA SendCounts ==
  ASSUME TypeOK, NEW k \in Clocks, NEW c \in ClientIds, Send(k, c)
  PROVE  /\ delivered' \in [Sessions \X ClientIds \X Clocks -> Nat]
         /\ connected_clients[c] \notin rx => UNCHANGED delivered
         /\ connected_clients[c] \in rx =>
               /\ <<connected_clients[c], c, k>> \in Sessions \X ClientIds \X Clocks
               /\ delivered'[<<connected_clients[c], c, k>>]
                     = delivered[<<connected_clients[c], c, k>>] + 1
         /\ \A x \in Sessions \X ClientIds \X Clocks :
               x # <<connected_clients[c], c, k>> => delivered'[x] = delivered[x]
<1> DEFINE x0 == <<connected_clients[c], c, k>>
<1>1. CASE connected_clients[c] \in rx
  <2>1. x0 \in Sessions \X ClientIds \X Clocks
    BY <1>1 DEF TypeOK
  <2>2. delivered' = [delivered EXCEPT ![x0] = @ + 1]
    BY <1>1 DEF Send
  <2>3. delivered \in [Sessions \X ClientIds \X Clocks -> Nat]
    BY DEF TypeOK
  <2> HIDE DEF x0
  <2>4. /\ delivered' \in [Sessions \X ClientIds \X Clocks -> Nat]
        /\ delivered'[x0] = delivered[x0] + 1
        /\ \A x \in Sessions \X ClientIds \X Clocks : x # x0 => delivered'[x] = delivered[x]
    BY <2>1, <2>2, <2>3
  <2> QED BY <1>1, <2>1, <2>4 DEF x0
<1>2. CASE connected_clients[c] \notin rx
  BY <1>2 DEF Send, TypeOK
<1> QED BY <1>1, <1>2

\* Neither do the broadcasts.
LEMMA BroadcastLog ==
  ASSUME LogInv, NEW k \in Clocks, Broadcasts(k)
  PROVE  LogInv'
<1> USE ClientIdsTyped
        DEF LogInv, TypeOK, OneWriter, OnlyLogged, Handling, Broadcast, registry, store, sent
<1>1. CASE StartBroadcast(k)
  <2>1. Storing' = Storing BY <1>1 DEF StartBroadcast, Storing
  <2>2. RoomLeft' BY <1>1, <2>1, RoomKept DEF StartBroadcast
  <2> QED BY <1>1, <2>2 DEF StartBroadcast, Registered
<1>2. ASSUME NEW c \in ClientIds, SendToClient(k, c) PROVE LogInv'
  <2>1. Storing' = Storing BY <1>2 DEF SendToClient, Storing
  <2>2. RoomLeft' BY <1>2, <2>1, RoomKept DEF SendToClient
  <2>3. delivered' \in [Sessions \X ClientIds \X Clocks -> Nat]
    BY <1>2, SendCounts DEF SendToClient
  <2> QED BY <1>2, <2>2, <2>3 DEF SendToClient
<1>3. CASE EndBroadcast(k)
  <2>1. Storing' = Storing BY <1>3 DEF EndBroadcast, Storing
  <2>2. RoomLeft' BY <1>3, <2>1, RoomKept DEF EndBroadcast
  <2> QED BY <1>3, <2>2 DEF EndBroadcast
<1> QED BY <1>1, <1>2, <1>3 DEF Broadcasts

\* A session that stores an event takes the next clock, alone.
LEMMA SavingLog ==
  ASSUME LogInv, NEW s \in Sessions,
         \/ \E e \in EventIds : ReceiveSourceEvent(s, e)
         \/ InsertSourceEvent(s) \/ CommitSourceEvent(s) \/ SaveFails(s)
  PROVE  LogInv'
<1> USE SessionsTyped, ClientIdsTyped, MaxEventsTyped
        DEF LogInv, TypeOK, OneWriter, OnlyLogged, Handling, GoTo, registry, store, sent, Clocks,
            Saving
<1>0. Len(source_event) \in Nat
  OBVIOUS
<1>1. ASSUME NEW e \in EventIds, ReceiveSourceEvent(s, e) PROVE LogInv'
  <2>1. s \notin Storing /\ Storing' = Storing \cup {s}
    BY <1>1 DEF ReceiveSourceEvent, Storing
  <2>2. Len(source_event) + Cardinality(Storing) < MaxEvents
    BY <1>1 DEF ReceiveSourceEvent
  <2>3. RoomLeft'
    <3>1. Cardinality(Storing') = Cardinality(Storing) + 1 /\ Cardinality(Storing) \in Nat
      BY <2>1, StoringCounted
    <3>2. UNCHANGED source_event
      BY <1>1 DEF ReceiveSourceEvent
    <3> HIDE DEF LogInv
    <3> QED BY <1>0, <2>2, <3>1, <3>2 DEF RoomLeft
  <2>4. [Nothing EXCEPT !.event = e] = [event |-> e, clock |-> 0, tx |-> None]
    BY DEF Nothing
  <2>5. saving' \in [Sessions -> Saving] /\ saving'[s].event = e
        /\ \A t \in Sessions \ {s} : saving'[t] = saving[t]
    BY <1>1, <2>4 DEF ReceiveSourceEvent
  <2> QED BY <1>1, <2>3, <2>5 DEF ReceiveSourceEvent
<1>2. CASE InsertSourceEvent(s)
  <2>1. s \in Storing /\ Storing' = Storing
    BY <1>2 DEF InsertSourceEvent, Storing
  <2>2. Len(source_event) + 1 \in Clocks
    BY <1>0, <2>1, StoringCounted DEF RoomLeft
  <2>3. RoomLeft'
    BY <1>2, <2>1, RoomKept DEF InsertSourceEvent
  <2>4. [saving[s] EXCEPT !.clock = Len(source_event) + 1]
           = [event |-> saving[s].event, clock |-> Len(source_event) + 1, tx |-> saving[s].tx]
    OBVIOUS
  <2>5. /\ saving' \in [Sessions -> Saving]
        /\ saving'[s].event = saving[s].event
        /\ saving'[s].clock = Len(source_event) + 1
        /\ \A t \in Sessions \ {s} : saving'[t] = saving[t]
    BY <1>2, <2>2, <2>4 DEF InsertSourceEvent
  <2> QED BY <1>2, <2>2, <2>3, <2>5 DEF InsertSourceEvent
<1>3. CASE CommitSourceEvent(s)
  <2>1. s \in Storing /\ Storing' = Storing \ {s}
    BY <1>3 DEF CommitSourceEvent, Storing
  <2>2. Len(source_event) + 1 \in Clocks /\ saving[s].clock = Len(source_event) + 1
    BY <1>0, <1>3, <2>1, StoringCounted DEF RoomLeft, CommitSourceEvent
  <2>3. NewEvent(s) \in SourceEvent
    BY <1>3, <2>2 DEF CommitSourceEvent, SourceEvent, NewEvent
  <2>4. source_event' \in Seq(SourceEvent) /\ Len(source_event') = Len(source_event) + 1
    BY <1>3, <2>3 DEF CommitSourceEvent
  <2>5. RoomLeft'
    <3>1. Cardinality(Storing') = Cardinality(Storing) - 1 /\ Cardinality(Storing) \in Nat
      BY <2>1, StoringCounted
    <3> QED BY <1>0, <2>4, <3>1 DEF RoomLeft
  <2>6. \A t \in Sessions : pc[t] = "commit" => t = s
    BY <1>3 DEF CommitSourceEvent
  <2> QED BY <1>0, <1>3, <2>2, <2>4, <2>5, <2>6 DEF CommitSourceEvent
<1>4. CASE SaveFails(s)
  <2>1. s \in Storing /\ Storing' = Storing \ {s}
    BY <1>4 DEF SaveFails, Storing
  <2>2. RoomLeft'
    <3>1. Cardinality(Storing') = Cardinality(Storing) - 1 /\ Cardinality(Storing) \in Nat
      BY <2>1, StoringCounted
    <3> QED BY <1>0, <1>4, <3>1 DEF RoomLeft, SaveFails
  <2> QED BY <1>4, <2>2 DEF SaveFails, Nothing
<1> QED BY <1>1, <1>2, <1>3, <1>4

\* Neither does an acknowledgement, or that nobody is there to be told.
LEMMA AcknowledgeLog ==
  ASSUME LogInv, NEW s \in Sessions,
         FindSource(s) \/ SourceNotFound(s) \/ AcknowledgeSourceEvent(s)
  PROVE  LogInv'
<1> USE SessionsTyped, ClientIdsTyped, MaxEventsTyped
        DEF LogInv, TypeOK, OneWriter, OnlyLogged, Handling, GoTo, registry, store, sent, Clocks,
            Saving
<1>0. Len(source_event) \in Nat
  OBVIOUS
<1>1. Storing' = Storing
  BY DEF FindSource, SourceNotFound, AcknowledgeSourceEvent, Storing
<1>2. RoomLeft'
  BY <1>1, RoomKept DEF FindSource, SourceNotFound, AcknowledgeSourceEvent
<1>3. saving[s].clock \in Clocks /\ saving[s].clock \in 1..Len(source_event)
  BY <1>0 DEF FindSource, SourceNotFound, AcknowledgeSourceEvent
<1>4. \A p \in {"spawned", "skipped"} : [broadcasts[saving[s].clock] EXCEPT !.pc = p] \in Broadcast
  <2>1. broadcasts[saving[s].clock] \in Broadcast
    BY <1>3
  <2> HIDE DEF LogInv, TypeOK, OneWriter, OnlyLogged
  <2> QED BY <2>1 DEF Broadcast
<1>5. CASE FindSource(s)
  <2>1. connected_clients[client_id_option[s]] \in Sessions
    BY <1>5 DEF FindSource
  <2>2. [saving[s] EXCEPT !.tx = connected_clients[client_id_option[s]]]
           = [event |-> saving[s].event, clock |-> saving[s].clock,
              tx |-> connected_clients[client_id_option[s]]]
    OBVIOUS
  <2>3. /\ saving' \in [Sessions -> Saving]
        /\ saving'[s].clock = saving[s].clock
        /\ saving'[s].tx = connected_clients[client_id_option[s]]
        /\ \A t \in Sessions \ {s} : saving'[t] = saving[t]
    BY <1>5, <2>1, <2>2 DEF FindSource
  <2> QED BY <1>2, <1>3, <1>5, <2>1, <2>3 DEF FindSource
<1>6. CASE SourceNotFound(s)
  <2>1. broadcasts' \in [Clocks -> Broadcast]
    BY <1>3, <1>4, <1>6 DEF SourceNotFound
  <2> QED BY <1>2, <1>3, <1>6, <2>1 DEF SourceNotFound, Nothing
<1>7. CASE AcknowledgeSourceEvent(s)
  <2>1. broadcasts' \in [Clocks -> Broadcast]
    BY <1>3, <1>4, <1>7 DEF AcknowledgeSourceEvent
  <2>2. saving[s].tx \in Sessions /\ client_id_option[s] \in ClientIds
    BY <1>7 DEF AcknowledgeSourceEvent
  <2>3. acked' \in SUBSET Acknowledgement
    <3> DEFINE came == saving[s].tx \in rx
    <3>1. acked' = acked \cup {[to |-> saving[s].tx, source |-> client_id_option[s],
                                clock |-> saving[s].clock, came |-> came]}
      BY <1>7 DEF AcknowledgeSourceEvent, Acknowledge
    <3>2. came \in BOOLEAN
      OBVIOUS
    <3>3. acked \in SUBSET Acknowledgement
      OBVIOUS
    <3> HIDE DEF came, LogInv, TypeOK, OneWriter, OnlyLogged
    <3> QED BY <1>3, <2>2, <3>1, <3>2, <3>3 DEF Acknowledgement
  <2> QED BY <1>2, <1>3, <1>7, <2>1, <2>3 DEF AcknowledgeSourceEvent, Nothing
<1> QED BY <1>5, <1>6, <1>7

\* Every step keeps the log in order.
LEMMA LogStep ==
  ASSUME LogInv, [Next]_vars
  PROVE  LogInv'
<1>1. ASSUME NEW s \in Sessions, Session(s) PROVE LogInv'
  BY <1>1, ConnectionLog, SavingLog, AcknowledgeLog DEF Session
<1>2. ASSUME NEW c \in ClientIds, ExpelClient(c) PROVE LogInv'
  BY <1>2, ConnectionLog
<1>3. ASSUME NEW k \in Clocks, Broadcasts(k) PROVE LogInv'
  BY <1>3, BroadcastLog
<1>4. CASE UNCHANGED vars
  BY <1>4 DEF vars, LogInv, TypeOK, RoomLeft, Storing, OneWriter, OnlyLogged
<1> QED BY <1>1, <1>2, <1>3, <1>4 DEF Next

\* SourceEvents keeps its types: the tables, the clocks and the histories.
THEOREM EventsTypeCorrect == Spec => []TypeOK
<1>1. LogInv => TypeOK
  BY DEF LogInv
<1> QED BY <1>1, InitLog, LogStep, PTL DEF Spec

-----------------------------------------------------------------------------
(* Acknowledgements and broadcasts.                                        *)

\* Streams that are registered, are being told or were told are open by then.
Opened ==
    /\ \A c \in ClientIds : connected_clients[c] # None => pc[connected_clients[c]] # "none"
    /\ \A s \in Sessions : saving[s].tx # None => pc[saving[s].tx] # "none"
    /\ \A a \in acked : pc[a.to] # "none"

\* An event to be acknowledged is one session's and not announced yet.
Pending ==
    \A s \in Sessions : pc[s] \in {"find", "acknowledge"} =>
        /\ source_event[saving[s].clock].source = client_id_option[s]
        /\ broadcasts[saving[s].clock].pc = "none"
        /\ \A t \in Sessions :
              pc[t] \in {"find", "acknowledge"} /\ saving[t].clock = saving[s].clock => t = s

\* Nobody has got an event before its broadcast, nor under a name that is left
\* to visit.
Unvisited ==
    \A k \in Clocks :
        /\ broadcasts[k].pc # "sending" => broadcasts[k].todo = {}
        /\ broadcasts[k].pc \notin {"sending", "done"} =>
              \A s \in Sessions, c \in ClientIds : delivered[<<s, c, k>>] = 0
        /\ \A c \in broadcasts[k].todo :
              \A s \in Sessions : delivered[<<s, c, k>>] = 0

\* During a broadcast, whoever can be reached and is not left to visit has it.
Visited ==
    \A k \in Clocks : broadcasts[k].pc = "sending" =>
        \A c \in ClientIds : connected_clients[c] \in rx =>
            c \in broadcasts[k].todo \/ delivered[<<connected_clients[c], c, k>>] > 0

\* The source of an announced event was told, or could not be reached.
Informed ==
    \A k \in Clocks : broadcasts[k].pc \in {"spawned", "sending", "done"} =>
        \E a \in acked :
            /\ a.source = source_event[k].source /\ a.clock = k
            /\ a.came \/ a.to \notin rx

OnceInv ==
    /\ LogInv
    /\ Opened
    /\ Pending
    /\ Unvisited
    /\ Visited
    /\ Informed
    /\ NoRepeat
    /\ AckIsTrue

\* The invariant holds before any stream is opened.
LEMMA InitOnce == Init => OnceInv
<1> SUFFICES ASSUME Init PROVE OnceInv
  OBVIOUS
<1>1. LogInv
  BY InitLog
<1>2. Opened /\ Pending /\ Informed /\ AckIsTrue
  BY DEF Init, Opened, Pending, Informed, AckIsTrue, Nothing
<1>3. Unvisited /\ Visited /\ NoRepeat
  <2>1. \A s \in Sessions, c \in ClientIds, k \in Clocks :
           <<s, c, k>> \in Sessions \X ClientIds \X Clocks
    OBVIOUS
  <2>2. \A x \in Sessions \X ClientIds \X Clocks : delivered[x] = 0
    BY DEF Init
  <2>3. \A s \in Sessions, c \in ClientIds, k \in Clocks : delivered[<<s, c, k>>] = 0
    BY <2>1, <2>2
  <2>4. \A k \in Clocks : broadcasts[k] = [pc |-> "none", todo |-> {}]
    BY DEF Init
  <2> QED BY <2>2, <2>3, <2>4 DEF Unvisited, Visited, NoRepeat
<1> QED BY <1>1, <1>2, <1>3 DEF OnceInv

\* Streams that open and close and channels that die leave events alone: no
\* broadcast is under way when a registration changes.
LEMMA ConnectionOnce ==
  ASSUME OnceInv, LogInv',
         \/ \E s \in Sessions : \/ OpenSession(s) \/ DisconnectClient(s) \/ DropReceiver(s)
                                \/ \E c \in ClientIds : RegisterClient(s, c)
         \/ \E c \in ClientIds : ExpelClient(c)
  PROVE  OnceInv'
<1> USE SessionsTyped, ClientIdsTyped DEF OnceInv, GoTo, store, sent
<1>0. TypeOK /\ TypeOK'
  BY DEF LogInv
<1>1. UNCHANGED <<saving, source_event, broadcasts, acked, delivered>>
  BY DEF OpenSession, RegisterClient, DisconnectClient, DropReceiver, ExpelClient
<1>2. Unvisited' /\ NoRepeat' /\ AckIsTrue'
  BY <1>1 DEF Unvisited, NoRepeat, AckIsTrue
<1>3. \A s \in Sessions : pc[s] # "none" => pc'[s] # "none"
  <2>1. ASSUME NEW s \in Sessions, OpenSession(s) \/ DisconnectClient(s)
        PROVE  \A t \in Sessions : pc[t] # "none" => pc'[t] # "none"
    BY <1>0, <2>1 DEF OpenSession, DisconnectClient, TypeOK
  <2> QED BY <2>1 DEF RegisterClient, DropReceiver, ExpelClient
<1>4. \A c \in ClientIds : connected_clients'[c] # None => pc'[connected_clients'[c]] # "none"
  <2>1. ASSUME NEW s \in Sessions, NEW c \in ClientIds, RegisterClient(s, c)
        PROVE  \A d \in ClientIds : connected_clients'[d] = s \/ connected_clients'[d] = connected_clients[d]
    BY <1>0, <2>1 DEF RegisterClient, TypeOK
  <2>2. ASSUME NEW s \in Sessions, NEW c \in ClientIds, RegisterClient(s, c)
        PROVE  pc'[s] # "none"
    BY <2>2 DEF RegisterClient
  <2>3. CASE \E s \in Sessions, c \in ClientIds : RegisterClient(s, c)
    BY <1>0, <1>3, <2>1, <2>2, <2>3 DEF Opened, TypeOK
  <2>4. CASE ~ \E s \in Sessions, c \in ClientIds : RegisterClient(s, c)
    <3>1. \A d \in ClientIds : connected_clients'[d] \in {None, connected_clients[d]}
      BY <1>0, <2>4 DEF OpenSession, DisconnectClient, DropReceiver, ExpelClient, TypeOK
    <3> QED BY <1>0, <1>3, <3>1 DEF Opened, TypeOK
  <2> QED BY <2>3, <2>4
<1>5. Opened'
  <2>1. \A s \in Sessions : saving[s].tx \in Sessions \cup {None}
    BY <1>0 DEF TypeOK, Saving
  <2>2. \A a \in acked : a.to \in Sessions
    BY <1>0 DEF TypeOK, Acknowledgement
  <2> QED BY <1>1, <1>3, <1>4, <2>1, <2>2 DEF Opened
<1>6. Pending'
  <2>1. \A s \in Sessions : pc'[s] \in {"find", "acknowledge"} =>
           pc[s] \in {"find", "acknowledge"} /\ client_id_option'[s] = client_id_option[s]
    <3>1. ASSUME NEW s \in Sessions, OpenSession(s) \/ DisconnectClient(s) \/ DropReceiver(s)
          PROVE  \A t \in Sessions : pc'[t] \in {"find", "acknowledge"} =>
                    pc[t] \in {"find", "acknowledge"} /\ client_id_option'[t] = client_id_option[t]
      BY <1>0, <3>1 DEF OpenSession, DisconnectClient, DropReceiver, TypeOK
    <3>2. ASSUME NEW s \in Sessions, NEW c \in ClientIds, RegisterClient(s, c)
          PROVE  \A t \in Sessions : pc'[t] \in {"find", "acknowledge"} =>
                    pc[t] \in {"find", "acknowledge"} /\ client_id_option'[t] = client_id_option[t]
      BY <1>0, <3>2 DEF RegisterClient, TypeOK
    <3>3. ASSUME NEW c \in ClientIds, ExpelClient(c)
          PROVE  \A t \in Sessions : pc'[t] \in {"find", "acknowledge"} =>
                    pc[t] \in {"find", "acknowledge"} /\ client_id_option'[t] = client_id_option[t]
      BY <3>3 DEF ExpelClient
    <3> QED BY <3>1, <3>2, <3>3
  <2> QED BY <1>1, <2>1 DEF Pending
<1>7. Visited'
  <2>1. CASE \E s \in Sessions : OpenSession(s)
    <3>1. PICK s \in Sessions : OpenSession(s)
      BY <2>1
    <3>2. UNCHANGED connected_clients /\ rx' = rx \cup {s} /\ pc[s] = "none"
      BY <3>1 DEF OpenSession
    <3>3. \A c \in ClientIds : connected_clients[c] # s
      BY <3>2 DEF Opened
    <3> QED BY <1>1, <3>2, <3>3 DEF Visited
  <2>2. CASE \E s \in Sessions : DropReceiver(s)
    BY <1>1, <2>2 DEF DropReceiver, Visited
  <2>3. CASE \/ \E s \in Sessions : DisconnectClient(s) \/ \E c \in ClientIds : RegisterClient(s, c)
             \/ \E c \in ClientIds : ExpelClient(c)
    <3>1. \A k \in Clocks : broadcasts[k].pc # "sending"
      BY <2>3 DEF DisconnectClient, RegisterClient, ExpelClient, Writable
    <3> QED BY <1>1, <3>1 DEF Visited
  <2> QED BY <2>1, <2>2, <2>3
<1>8. Informed'
  <2>1. \A a \in acked : a.to \notin rx => a.to \notin rx'
    <3>1. \A a \in acked : pc[a.to] # "none"
      BY DEF Opened
    <3>2. ASSUME NEW s \in Sessions, OpenSession(s) PROVE rx' = rx \cup {s} /\ pc[s] = "none"
      BY <3>2 DEF OpenSession
    <3>3. (~ \E s \in Sessions : OpenSession(s)) => rx' \subseteq rx
      BY DEF DisconnectClient, DropReceiver, RegisterClient, ExpelClient
    <3> QED BY <3>1, <3>2, <3>3
  <2> QED BY <1>1, <2>1 DEF Informed
<1> QED BY <1>2, <1>5, <1>6, <1>7, <1>8

\* A send reaches the stream of one client, and that one is then done with.
LEMMA BroadcastOnce ==
  ASSUME OnceInv, LogInv', NEW k \in Clocks, Broadcasts(k)
  PROVE  OnceInv'
<1> USE DEF OnceInv
<1>0. /\ broadcasts \in [Clocks -> Broadcast] /\ broadcasts[k] \in Broadcast
      /\ TypeOK
  BY DEF LogInv, TypeOK
<1>1. UNCHANGED <<pc, rx, client_id_option, connected_clients, saving, source_event, acked>>
  BY DEF Broadcasts, StartBroadcast, SendToClient, EndBroadcast, registry, store, sent
<1>2. \A i \in Clocks \ {k} : broadcasts'[i] = broadcasts[i]
  BY <1>0 DEF Broadcasts, StartBroadcast, SendToClient, EndBroadcast
<1>3. /\ broadcasts[k].pc \in {"spawned", "sending"}
      /\ broadcasts'[k].pc \in {"sending", "done"}
  BY <1>0 DEF Broadcasts, StartBroadcast, SendToClient, EndBroadcast, Broadcast
<1>4. Opened' /\ AckIsTrue'
  BY <1>1 DEF Opened, AckIsTrue
<1>5. Pending'
  <2>1. \A s \in Sessions : pc[s] \in {"find", "acknowledge"} =>
           saving[s].clock \in Clocks /\ saving[s].clock # k
    BY <1>0, <1>3 DEF Pending, LogInv, TypeOK, OnlyLogged, Saving
  <2> QED BY <1>1, <1>2, <2>1 DEF Pending
<1>6. Informed'
  BY <1>1, <1>2, <1>3 DEF Informed
<1>7. CASE StartBroadcast(k)
  <2>1. UNCHANGED delivered
    BY <1>7 DEF StartBroadcast, sent
  <2>2. broadcasts'[k] = [pc |-> "sending", todo |-> Registered] /\ broadcasts[k].pc = "spawned"
    BY <1>0, <1>7 DEF StartBroadcast
  <2>3. broadcasts'[k].pc = "sending" /\ broadcasts'[k].todo = Registered
    BY <2>2
  <2>4. \A s \in Sessions, c \in ClientIds : delivered[<<s, c, k>>] = 0
    BY <2>2 DEF Unvisited
  <2>5. Unvisited'
    BY <1>2, <2>1, <2>3, <2>4 DEF Unvisited, Registered
  <2>6. Visited'
    <3>1. \A c \in ClientIds : connected_clients[c] \in rx => c \in Registered
      BY <1>0, SessionsTyped DEF Registered, TypeOK
    <3> QED BY <1>1, <1>2, <2>1, <2>3, <3>1 DEF Visited
  <2>7. NoRepeat'
    BY <2>1 DEF NoRepeat
  <2> QED BY <1>4, <1>5, <1>6, <2>5, <2>6, <2>7
<1>8. ASSUME NEW c \in ClientIds, SendToClient(k, c) PROVE OnceInv'
  <2> DEFINE u == connected_clients[c]
  <2>1. broadcasts[k].pc = "sending" /\ c \in broadcasts[k].todo /\ Send(k, c)
    BY <1>8 DEF SendToClient
  <2>2. broadcasts'[k].pc = "sending" /\ broadcasts'[k].todo = broadcasts[k].todo \ {c}
    BY <1>0, <1>8 DEF SendToClient, Broadcast
  <2>3. \A s \in Sessions : delivered[<<s, c, k>>] = 0
    BY <2>1 DEF Unvisited
  <2>4. /\ delivered' \in [Sessions \X ClientIds \X Clocks -> Nat]
        /\ u \notin rx => UNCHANGED delivered
        /\ u \in rx => u \in Sessions /\ delivered'[<<u, c, k>>] = 1
        /\ \A x \in Sessions \X ClientIds \X Clocks : x # <<u, c, k>> => delivered'[x] = delivered[x]
    <3>1. u \in rx => u \in Sessions
      BY <1>0 DEF TypeOK
    <3>2. u \in rx => delivered'[<<u, c, k>>] = delivered[<<u, c, k>>] + 1
      BY <1>0, <2>1, SendCounts
    <3>3. u \in rx => delivered'[<<u, c, k>>] = 1
      BY <2>3, <3>1, <3>2
    <3>4. delivered' \in [Sessions \X ClientIds \X Clocks -> Nat]
      BY <1>0, <2>1, SendCounts
    <3>5. u \notin rx => UNCHANGED delivered
      BY <1>0, <2>1, SendCounts
    <3>6. \A x \in Sessions \X ClientIds \X Clocks : x # <<u, c, k>> => delivered'[x] = delivered[x]
      BY <1>0, <2>1, SendCounts
    <3> QED BY <3>1, <3>3, <3>4, <3>5, <3>6
  <2>5. \A s \in Sessions, d \in ClientIds, i \in Clocks :
           d # c \/ i # k => delivered'[<<s, d, i>>] = delivered[<<s, d, i>>]
    BY <2>4
  <2>6. Unvisited'
    <3>1. ASSUME NEW i \in Clocks, broadcasts'[i].pc \notin {"sending", "done"}
          PROVE  \A s \in Sessions, d \in ClientIds : delivered'[<<s, d, i>>] = 0
      BY <1>2, <2>2, <2>5, <3>1 DEF Unvisited
    <3>2. ASSUME NEW i \in Clocks, NEW d \in broadcasts'[i].todo, NEW s \in Sessions
          PROVE  delivered'[<<s, d, i>>] = 0
      <4>1. d \in broadcasts[i].todo /\ (i = k => d # c)
        BY <1>2, <2>2
      <4>2. d \in ClientIds
        BY <1>0, <4>1 DEF Broadcast
      <4> QED BY <2>5, <4>1, <4>2 DEF Unvisited
    <3> QED BY <1>2, <2>2, <3>1, <3>2 DEF Unvisited
  <2>7. Visited'
    <3>1. ASSUME NEW i \in Clocks, broadcasts'[i].pc = "sending",
                 NEW d \in ClientIds, connected_clients[d] \in rx
          PROVE  d \in broadcasts'[i].todo \/ delivered'[<<connected_clients[d], d, i>>] > 0
      <4>1. connected_clients[d] \in Sessions
        BY <1>0, <3>1 DEF TypeOK
      <4>2. broadcasts[i].pc = "sending"
        BY <1>2, <2>1, <3>1
      <4>3. d \in broadcasts[i].todo \/ delivered[<<connected_clients[d], d, i>>] > 0
        BY <3>1, <4>2 DEF Visited
      <4>4. CASE i = k /\ d = c
        BY <2>4, <3>1, <4>4
      <4>5. CASE i # k \/ d # c
        BY <1>2, <2>2, <2>5, <4>1, <4>3, <4>5
      <4> QED BY <4>4, <4>5
    <3> QED BY <1>1, <3>1 DEF Visited
  <2>8. NoRepeat'
    <3>1. ASSUME NEW x \in Sessions \X ClientIds \X Clocks PROVE delivered'[x] <= 1
      <4>1. CASE x = <<u, c, k>> /\ u \in rx
        BY <2>4, <4>1
      <4>2. CASE u \notin rx \/ x # <<u, c, k>>
        BY <2>4, <4>2 DEF NoRepeat
      <4> QED BY <4>1, <4>2
    <3> QED BY <3>1 DEF NoRepeat
  <2> QED BY <1>4, <1>5, <1>6, <2>6, <2>7, <2>8
<1>9. CASE EndBroadcast(k)
  <2>1. UNCHANGED delivered
    BY <1>9 DEF EndBroadcast, sent
  <2>2. /\ broadcasts[k].pc = "sending" /\ broadcasts[k].todo = {}
        /\ broadcasts'[k].pc = "done" /\ broadcasts'[k].todo = {}
    BY <1>0, <1>9 DEF EndBroadcast, Broadcast
  <2>3. Unvisited'
    BY <1>2, <2>1, <2>2 DEF Unvisited
  <2>4. Visited'
    BY <1>1, <1>2, <2>1, <2>2 DEF Visited
  <2>5. NoRepeat'
    BY <2>1 DEF NoRepeat
  <2> QED BY <1>4, <1>5, <1>6, <2>3, <2>4, <2>5
<1> QED BY <1>7, <1>8, <1>9 DEF Broadcasts

\* Storing gives no session another's clock.
LEMMA SavingOnce ==
  ASSUME OnceInv, LogInv', NEW s \in Sessions,
         \/ \E e \in EventIds : ReceiveSourceEvent(s, e)
         \/ InsertSourceEvent(s) \/ CommitSourceEvent(s) \/ SaveFails(s)
  PROVE  OnceInv'
<1> USE DEF OnceInv
<1>0. TypeOK
  BY DEF LogInv
<1>1. UNCHANGED <<rx, client_id_option, connected_clients, broadcasts, acked, delivered>>
  BY DEF ReceiveSourceEvent, InsertSourceEvent, CommitSourceEvent, SaveFails, registry, sent
<1>2. /\ \A t \in Sessions \ {s} : pc'[t] = pc[t] /\ saving'[t] = saving[t]
      /\ pc[s] \in {"loop", "save", "commit"} /\ pc'[s] # "none"
  <2>1. pc \in [Sessions -> {"none", "loop", "save", "commit", "find", "acknowledge", "done"}]
        /\ saving \in [Sessions -> Saving]
    BY <1>0 DEF TypeOK
  <2>2. CASE \E e \in EventIds : ReceiveSourceEvent(s, e)
    BY <2>1, <2>2 DEF ReceiveSourceEvent, GoTo
  <2>3. CASE InsertSourceEvent(s)
    BY <2>1, <2>3 DEF InsertSourceEvent, GoTo
  <2>4. CASE CommitSourceEvent(s)
    BY <2>1, <2>4 DEF CommitSourceEvent, GoTo
  <2>5. CASE SaveFails(s)
    BY <2>1, <2>5 DEF SaveFails, GoTo
  <2> QED BY <2>2, <2>3, <2>4, <2>5
<1>3. saving'[s].tx \in {None, saving[s].tx}
  <2>1. saving[s] \in Saving /\ saving \in [Sessions -> Saving]
    BY <1>0 DEF TypeOK
  <2>2. CASE \E e \in EventIds : ReceiveSourceEvent(s, e)
    BY <2>1, <2>2 DEF ReceiveSourceEvent, Nothing
  <2>3. CASE InsertSourceEvent(s)
    BY <2>1, <2>3 DEF InsertSourceEvent, Saving
  <2>4. CASE CommitSourceEvent(s)
    BY <2>4 DEF CommitSourceEvent
  <2>5. CASE SaveFails(s)
    BY <2>1, <2>5 DEF SaveFails, Nothing
  <2> QED BY <2>2, <2>3, <2>4, <2>5
<1>4. Opened'
  <2>1. \A t \in Sessions : pc[t] # "none" => pc'[t] # "none"
    BY <1>2
  <2>2. \A t \in Sessions : saving'[t].tx # None => saving'[t].tx = saving[t].tx
    BY <1>2, <1>3
  <2>3. \A t \in Sessions : saving[t].tx \in Sessions \cup {None}
    BY <1>0 DEF TypeOK, Saving
  <2>4. \A a \in acked : a.to \in Sessions
    BY <1>0 DEF TypeOK, Acknowledgement
  <2>5. \A c \in ClientIds : connected_clients[c] \in Sessions \cup {None}
    BY <1>0 DEF TypeOK
  <2> QED BY <1>1, <2>1, <2>2, <2>3, <2>4, <2>5 DEF Opened
<1>5. Unvisited' /\ Visited' /\ NoRepeat'
  BY <1>1 DEF Unvisited, Visited, NoRepeat
<1>6. CASE (\E e \in EventIds : ReceiveSourceEvent(s, e)) \/ InsertSourceEvent(s) \/ SaveFails(s)
  <2>1. UNCHANGED source_event
    BY <1>6 DEF ReceiveSourceEvent, InsertSourceEvent, SaveFails, store
  <2>2. pc'[s] \notin {"find", "acknowledge"}
    <3>1. pc \in [Sessions -> {"none", "loop", "save", "commit", "find", "acknowledge", "done"}]
      BY <1>0 DEF TypeOK
    <3> QED BY <1>6, <3>1 DEF ReceiveSourceEvent, InsertSourceEvent, SaveFails, GoTo
  <2>3. Pending'
    BY <1>1, <1>2, <2>1, <2>2 DEF Pending
  <2>4. AckIsTrue' /\ Informed'
    BY <1>1, <2>1 DEF AckIsTrue, Informed
  <2> QED BY <1>4, <1>5, <2>3, <2>4
<1>7. CASE CommitSourceEvent(s)
  <2> DEFINE next == Len(source_event) + 1
  <2>1. /\ next \in Nat /\ Len(source_event) \in Nat
        /\ Len(source_event') = next
        /\ source_event'[next].source = client_id_option[s]
        /\ \A i \in 1..Len(source_event) : source_event'[i] = source_event[i]
        /\ DOMAIN source_event = 1..Len(source_event)
        /\ DOMAIN source_event' = 1..next
    BY <1>0, <1>7 DEF CommitSourceEvent, NewEvent, TypeOK
  <2>2. pc'[s] = "find" /\ pc[s] = "commit" /\ saving'[s].clock = next
    BY <1>0, <1>7 DEF CommitSourceEvent, GoTo, LogInv, OneWriter, TypeOK
  <2>3. next \in Clocks /\ broadcasts[next].pc = "none"
    <3>1. next \in Clocks
      BY <1>7, <2>1, <2>2 DEF LogInv, OnlyLogged, Clocks, CommitSourceEvent, TypeOK, Saving
    <3> HIDE DEF next
    <3>2. broadcasts[next] \in Broadcast
      BY <1>0, <3>1 DEF TypeOK
    <3>3. ~(next <= Len(source_event))
      BY <2>1 DEF next
    <3> QED BY <3>1, <3>2, <3>3 DEF LogInv, OnlyLogged, Broadcast
  <2>4. \A t \in Sessions : pc[t] \in {"find", "acknowledge"} =>
           saving[t].clock \in 1..Len(source_event) /\ saving[t].clock # next
    BY <2>1 DEF LogInv, OnlyLogged
  <2>5. Pending'
    <3>1. Pending
      OBVIOUS
    <3>2. \A t \in Sessions : pc[t] \in {"find", "acknowledge"} =>
             source_event'[saving[t].clock] = source_event[saving[t].clock]
      BY <2>1, <2>4
    <3> HIDE DEF next, OnceInv
    <3> QED BY <1>1, <1>2, <2>1, <2>2, <2>3, <2>4, <3>1, <3>2 DEF Pending
  <2>6. AckIsTrue'
    <3>1. \A i \in DOMAIN source_event : i \in DOMAIN source_event' /\ source_event'[i] = source_event[i]
      BY <2>1
    <3> QED BY <1>1, <3>1 DEF AckIsTrue
  <2>7. Informed'
    <3>1. \A i \in Clocks : broadcasts[i].pc # "none" => i \in 1..Len(source_event)
      BY <2>1, MaxEventsTyped DEF LogInv, OnlyLogged, Clocks
    <3>2. \A i \in Clocks : broadcasts[i].pc # "none" => source_event'[i] = source_event[i]
      BY <2>1, <3>1
    <3> QED BY <1>1, <3>2 DEF Informed
  <2> QED BY <1>4, <1>5, <2>5, <2>6, <2>7
<1> QED BY <1>6, <1>7

\* An acknowledgement tells the source about its own event.
LEMMA AcknowledgeOnce ==
  ASSUME OnceInv, LogInv', NEW s \in Sessions,
         FindSource(s) \/ SourceNotFound(s) \/ AcknowledgeSourceEvent(s)
  PROVE  OnceInv'
<1> USE DEF OnceInv
<1> DEFINE k == saving[s].clock
<1>0. TypeOK
  BY DEF LogInv
<1>1. /\ pc[s] \in {"find", "acknowledge"} /\ pc'[s] # "none"
      /\ UNCHANGED <<rx, client_id_option, connected_clients, source_event, delivered>>
      /\ \A t \in Sessions \ {s} : pc'[t] = pc[t] /\ saving'[t] = saving[t]
      /\ acked \subseteq acked'
  <2>1. pc \in [Sessions -> {"none", "loop", "save", "commit", "find", "acknowledge", "done"}]
        /\ saving \in [Sessions -> Saving]
    BY <1>0 DEF TypeOK
  <2>2. CASE FindSource(s)
    BY <2>1, <2>2 DEF FindSource, GoTo, registry, store, sent
  <2>3. CASE SourceNotFound(s)
    BY <2>1, <2>3 DEF SourceNotFound, GoTo, registry, store, sent
  <2>4. CASE AcknowledgeSourceEvent(s)
    BY <2>1, <2>4 DEF AcknowledgeSourceEvent, Acknowledge, GoTo, registry, store
  <2> QED BY <2>2, <2>3, <2>4
<1>2. /\ k \in Clocks /\ k \in 1..Len(source_event) /\ broadcasts[k].pc = "none"
      /\ source_event[k].source = client_id_option[s] /\ broadcasts[k] \in Broadcast
      /\ broadcasts[k].todo = {}
  <2>1. k \in Clocks /\ k \in 1..Len(source_event)
    BY <1>0, <1>1 DEF LogInv, OnlyLogged, Clocks, TypeOK, Saving
  <2>2. broadcasts[k].pc = "none" /\ source_event[k].source = client_id_option[s]
    BY <1>1 DEF Pending
  <2>3. broadcasts[k] \in Broadcast
    BY <1>0, <2>1 DEF TypeOK
  <2>4. broadcasts[k].todo = {}
    BY <2>1, <2>2 DEF Unvisited
  <2> QED BY <2>1, <2>2, <2>3, <2>4
<1>3. /\ broadcasts'[k].pc \in {"none", "spawned", "skipped"} /\ broadcasts'[k].todo = {}
      /\ \A i \in Clocks \ {k} : broadcasts'[i] = broadcasts[i]
  <2>1. \/ broadcasts' = [broadcasts EXCEPT ![k].pc = "spawned"]
        \/ broadcasts' = [broadcasts EXCEPT ![k].pc = "skipped"]
        \/ broadcasts' = broadcasts
    BY DEF FindSource, AcknowledgeSourceEvent, SourceNotFound
  <2>2. broadcasts \in [Clocks -> Broadcast]
    BY <1>0 DEF TypeOK
  <2> HIDE DEF k
  <2> QED BY <1>2, <2>1, <2>2 DEF Broadcast
<1>4. \A t \in Sessions, c \in ClientIds : delivered[<<t, c, k>>] = 0
  BY <1>2 DEF Unvisited
<1> HIDE DEF k
<1>5. Unvisited' /\ Visited' /\ NoRepeat'
  <2>1. Unvisited'
    BY <1>1, <1>2, <1>3, <1>4 DEF Unvisited
  <2>2. Visited'
    BY <1>1, <1>2, <1>3 DEF Visited
  <2>3. NoRepeat'
    BY <1>1 DEF NoRepeat
  <2> QED BY <2>1, <2>2, <2>3
<1>6. \A c \in ClientIds : connected_clients'[c] # None => pc'[connected_clients'[c]] # "none"
  <2>1. \A t \in Sessions : pc[t] # "none" => pc'[t] # "none"
    BY <1>1
  <2>2. \A c \in ClientIds : connected_clients[c] \in Sessions \cup {None}
    BY <1>0 DEF TypeOK
  <2> QED BY <1>1, <2>1, <2>2 DEF Opened
<1>7. \A t \in Sessions : pc[t] # "none" => pc'[t] # "none"
  BY <1>1
<1>8. \A t \in Sessions : saving[t].tx \in Sessions \cup {None}
  BY <1>0 DEF TypeOK, Saving
<1>9. \A a \in acked : a.to \in Sessions
  BY <1>0 DEF TypeOK, Acknowledgement
<1>10. \A i \in Clocks : broadcasts[i].pc \in {"spawned", "sending", "done"} => i # k
  BY <1>2
<1>11. CASE FindSource(s)
  <2>1. saving'[s].clock = k /\ saving'[s].tx = connected_clients[client_id_option[s]]
    <3>1. saving \in [Sessions -> Saving] /\ saving[s] \in Saving
      BY <1>0 DEF TypeOK
    <3>2. saving' = [saving EXCEPT ![s].tx = connected_clients[client_id_option[s]]]
      BY <1>11 DEF FindSource
    <3> QED BY <3>1, <3>2 DEF Saving, k
  <2>2. client_id_option[s] \in ClientIds
    BY <1>0, <1>1 DEF TypeOK, LogInv, OneWriter, Handling
  <2>3. UNCHANGED <<broadcasts, acked>>
    BY <1>11 DEF FindSource, sent
  <2>4. Opened'
    <3>1. pc[saving'[s].tx] # "none" /\ saving'[s].tx \in Sessions
      BY <1>0, <1>11, <2>1, <2>2 DEF Opened, FindSource, TypeOK
    <3>2. \A a \in acked' : pc'[a.to] # "none"
      BY <1>7, <1>9, <2>3 DEF Opened
    <3>3. ASSUME NEW t \in Sessions, saving'[t].tx # None PROVE pc'[saving'[t].tx] # "none"
      BY <1>1, <1>7, <1>8, <3>1, <3>3 DEF Opened
    <3> QED BY <1>6, <3>2, <3>3 DEF Opened
  <2>5. Pending'
    <3>1. \A t \in Sessions : saving'[t].clock = saving[t].clock
      BY <1>1, <2>1 DEF k
    <3>2. \A t \in Sessions : pc'[t] \in {"find", "acknowledge"} => pc[t] \in {"find", "acknowledge"}
      BY <1>1
    <3> QED BY <1>1, <2>3, <3>1, <3>2 DEF Pending
  <2>6. AckIsTrue' /\ Informed'
    BY <1>1, <2>3 DEF AckIsTrue, Informed
  <2> QED BY <1>5, <2>4, <2>5, <2>6
<1>12. CASE SourceNotFound(s) \/ AcknowledgeSourceEvent(s)
  <2>1. pc'[s] = "loop" /\ saving'[s] = Nothing
    <3>1. pc \in [Sessions -> {"none", "loop", "save", "commit", "find", "acknowledge", "done"}]
          /\ saving \in [Sessions -> Saving]
      BY <1>0 DEF TypeOK
    <3> QED BY <1>12, <3>1 DEF SourceNotFound, AcknowledgeSourceEvent, GoTo
  <2>2. Pending'
    <3>1. \A t \in Sessions : pc'[t] \in {"find", "acknowledge"} =>
             t # s /\ pc[t] \in {"find", "acknowledge"} /\ saving'[t] = saving[t]
      BY <1>1, <2>1
    <3>2. \A t \in Sessions : t # s /\ pc[t] \in {"find", "acknowledge"} => saving[t].clock # k
      BY <1>1 DEF Pending, k
    <3>3. \A t \in Sessions : pc[t] \in {"find", "acknowledge"} => saving[t].clock \in Clocks
      BY <1>0 DEF LogInv, OnlyLogged, TypeOK, Saving, Clocks
    <3> QED BY <1>1, <1>3, <3>1, <3>2, <3>3 DEF Pending
  <2>3. \A t \in Sessions : saving'[t].tx # None => saving'[t] = saving[t]
    BY <1>1, <2>1 DEF Nothing
  <2>4. CASE SourceNotFound(s)
    <3>1. UNCHANGED acked
      BY <2>4 DEF SourceNotFound, sent
    <3>2. broadcasts'[k].pc = "skipped"
      <4>1. broadcasts \in [Clocks -> Broadcast]
        BY <1>0 DEF TypeOK
      <4>2. broadcasts' = [broadcasts EXCEPT ![k].pc = "skipped"]
        BY <2>4 DEF SourceNotFound, k
      <4> QED BY <1>2, <4>1, <4>2 DEF Broadcast
    <3>3. Opened'
      BY <1>6, <1>7, <1>8, <1>9, <2>3, <3>1 DEF Opened
    <3>4. AckIsTrue'
      BY <1>1, <3>1 DEF AckIsTrue
    <3>5. Informed'
      BY <1>1, <1>3, <3>1, <3>2 DEF Informed
    <3> QED BY <1>5, <2>2, <3>3, <3>4, <3>5
  <2>5. CASE AcknowledgeSourceEvent(s)
    <3> DEFINE came == saving[s].tx \in rx
               ack == [to |-> saving[s].tx, source |-> client_id_option[s], clock |-> k, came |-> came]
    <3>1. acked' = acked \cup {ack}
      BY <2>5 DEF AcknowledgeSourceEvent, Acknowledge, k
    <3>2. ack.to = saving[s].tx /\ ack.source = client_id_option[s] /\ ack.clock = k
      OBVIOUS
    <3>3. ack.came \/ ack.to \notin rx
      <4>1. ack.came = came
        BY Zenon
      <4> QED BY <3>2, <4>1
    <3> HIDE DEF ack, came
    <3>4. saving[s].tx \in Sessions /\ pc[saving[s].tx] # "none"
      BY <1>8, <2>5 DEF LogInv, OnlyLogged, AcknowledgeSourceEvent, Opened
    <3>5. Opened'
      <4>1. \A a \in acked' : a.to \in Sessions /\ pc[a.to] # "none"
        BY <1>9, <3>1, <3>2, <3>4 DEF Opened
      <4> QED BY <1>6, <1>7, <1>8, <2>3, <4>1 DEF Opened
    <3>6. AckIsTrue'
      <4>1. k \in DOMAIN source_event /\ source_event[k].source = client_id_option[s]
        BY <1>0, <1>2 DEF TypeOK
      <4> QED BY <1>1, <3>1, <3>2, <4>1 DEF AckIsTrue
    <3>7. Informed'
      <4>1. ASSUME NEW i \in Clocks \ {k}, broadcasts'[i].pc \in {"spawned", "sending", "done"}
            PROVE  \E a \in acked' : /\ a.source = source_event'[i].source /\ a.clock = i
                                     /\ a.came \/ a.to \notin rx'
        BY <1>1, <1>3, <4>1 DEF Informed
      <4>2. ack \in acked'
        BY <3>1
      <4>3. \E a \in acked' : /\ a.source = source_event'[k].source /\ a.clock = k
                              /\ a.came \/ a.to \notin rx'
        BY <1>1, <1>2, <3>2, <3>3, <4>2
      <4> QED BY <4>1, <4>3 DEF Informed
    <3> QED BY <1>5, <2>2, <3>5, <3>6, <3>7
  <2> QED BY <1>12, <2>4, <2>5
<1> QED BY <1>11, <1>12

\* Every step keeps who was told and who was sent what in order.
LEMMA OnceStep ==
  ASSUME OnceInv, [Next]_vars
  PROVE  OnceInv'
<1>1. LogInv'
  BY LogStep DEF OnceInv
<1>2. ASSUME NEW s \in Sessions, Session(s) PROVE OnceInv'
  BY <1>1, <1>2, ConnectionOnce, SavingOnce, AcknowledgeOnce DEF Session
<1>3. ASSUME NEW c \in ClientIds, ExpelClient(c) PROVE OnceInv'
  BY <1>1, <1>3, ConnectionOnce
<1>4. ASSUME NEW k \in Clocks, Broadcasts(k) PROVE OnceInv'
  BY <1>1, <1>4, BroadcastOnce
<1>5. CASE UNCHANGED vars
  BY <1>1, <1>5 DEF vars, OnceInv, Opened, Pending, Unvisited, Visited, Informed, NoRepeat, AckIsTrue
<1> QED BY <1>2, <1>3, <1>4, <1>5 DEF Next

\* The invariant holds in every state.
LEMMA OnceAlways == Spec => []OnceInv
  BY InitOnce, OnceStep, PTL DEF Spec

\* No event is put in a channel twice under one name, whoever leaves,
\* reconnects or registers a second name.
THEOREM SentOnce == Spec => []NoRepeat
<1>1. OnceInv => NoRepeat
  BY DEF OnceInv
<1> QED BY <1>1, OnceAlways, PTL

\* What is acknowledged is stored, and was sent under the name it is
\* acknowledged for.
THEOREM AcksAreTrue == Spec => []AckIsTrue
<1>1. OnceInv => AckIsTrue
  BY DEF OnceInv
<1> QED BY <1>1, OnceAlways, PTL

\* The source hears of its event before anybody gets it.
THEOREM AcksComeFirst == Spec => []AckComesFirst
<1>1. OnceInv => AckComesFirst
  <2> SUFFICES ASSUME OnceInv, NEW t \in Sessions, NEW c \in ClientIds, NEW k \in Clocks,
                      delivered[<<t, c, k>>] > 0
               PROVE  \E a \in acked :
                         /\ a.source = source_event[k].source /\ a.clock = k
                         /\ a.came \/ a.to \notin rx
    BY DEF AckComesFirst
  <2>1. broadcasts[k].pc \in {"sending", "done"}
    BY DEF OnceInv, Unvisited
  <2> QED BY <2>1 DEF OnceInv, Informed
<1> QED BY <1>1, OnceAlways, PTL

\* A broadcast that ends has been to everybody who can be reached.
THEOREM NobodyLeftOut == Spec => NobodyPassedOver
<1> DEFINE Done == \A k \in Clocks :
              broadcasts[k].pc = "sending" /\ broadcasts'[k].pc # "sending" =>
                 \A c \in ClientIds : connected_clients[c] \in rx =>
                    delivered[<<connected_clients[c], c, k>>] > 0
<1>1. OnceInv /\ [Next]_vars => [Done]_vars
  <2> SUFFICES ASSUME OnceInv, Next, NEW k \in Clocks,
                      broadcasts[k].pc = "sending", broadcasts'[k].pc # "sending"
               PROVE  \A c \in ClientIds : connected_clients[c] \in rx =>
                         delivered[<<connected_clients[c], c, k>>] > 0
    OBVIOUS
  <2>1. broadcasts[k] \in Broadcast /\ broadcasts \in [Clocks -> Broadcast]
    BY DEF OnceInv, LogInv, TypeOK
  <2>2. ASSUME NEW s \in Sessions, Session(s) PROVE FALSE
    <3>1. pc[s] \in {"find", "acknowledge"} => saving[s].clock # k
      BY DEF OnceInv, Pending
    <3> QED BY <2>1, <2>2, <3>1 DEF Session, OpenSession, RegisterClient, DisconnectClient,
            DropReceiver, ReceiveSourceEvent, InsertSourceEvent, CommitSourceEvent, SaveFails,
            FindSource, AcknowledgeSourceEvent, SourceNotFound
  <2>3. ASSUME NEW c \in ClientIds, ExpelClient(c) PROVE FALSE
    BY <2>3 DEF ExpelClient
  <2>4. ASSUME NEW i \in Clocks, Broadcasts(i) PROVE EndBroadcast(k)
    <3>1. ~StartBroadcast(i)
      BY <2>1 DEF StartBroadcast
    <3>2. ASSUME NEW c \in ClientIds, SendToClient(i, c) PROVE FALSE
      <4>1. broadcasts'[k].pc = broadcasts[k].pc
        BY <2>1, <3>2 DEF SendToClient, Broadcast
      <4> QED BY <4>1
    <3>3. CASE EndBroadcast(i)
      BY <2>1, <3>3 DEF EndBroadcast
    <3> QED BY <2>4, <3>1, <3>2, <3>3 DEF Broadcasts
  <2>5. EndBroadcast(k)
    BY <2>2, <2>3, <2>4 DEF Next
  <2>6. broadcasts[k].todo = {}
    BY <2>5 DEF EndBroadcast
  <2> QED BY <2>6 DEF OnceInv, Visited
<1> QED BY <1>1, OnceAlways, PTL DEF Spec, NobodyPassedOver

-----------------------------------------------------------------------------
(* The log is the one of EventLog.                                         *)

\* A commit stores the next entry of the log, a send that arrives delivers a
\* logged event for the first time, and all else leaves both alone.
LEMMA StepKeepsPromise ==
  ASSUME OnceInv, [Next]_vars
  PROVE  [Promise!Next]_<<source_event, delivered>>
<1>0. TypeOK
  BY DEF OnceInv, LogInv
<1>1. ASSUME NEW s \in Sessions, CommitSourceEvent(s) PROVE Promise!Next
  <2>1. client_id_option[s] \in ClientIds /\ saving[s].event \in EventIds
        /\ saving[s].clock = Len(source_event) + 1
    BY <1>0, <1>1 DEF CommitSourceEvent, OnceInv, LogInv, OneWriter, Handling, TypeOK
  <2>2. saving[s].clock \in Clocks
    BY <1>0, <2>1 DEF TypeOK, Saving
  <2>3. NewEvent(s) \in Promise!Stored /\ NewEvent(s).clock = Len(source_event) + 1
    BY <2>1, <2>2 DEF NewEvent, Promise!Stored
  <2>4. source_event' = Append(source_event, NewEvent(s)) /\ UNCHANGED delivered
    BY <1>1 DEF CommitSourceEvent, sent
  <2>5. Promise!Store(NewEvent(s))
    BY <2>3, <2>4 DEF Promise!Store
  <2> QED BY <2>3, <2>5 DEF Promise!Next
<1>2. ASSUME NEW k \in Clocks, NEW c \in ClientIds, SendToClient(k, c)
      PROVE  [Promise!Next]_<<source_event, delivered>>
  <2>1. UNCHANGED source_event /\ Send(k, c) /\ broadcasts[k].pc = "sending" /\ c \in broadcasts[k].todo
    BY <1>2 DEF SendToClient, store
  <2>2. CASE connected_clients[c] \in rx
    <3>1. connected_clients[c] \in Sessions
      BY <1>0, <2>2 DEF TypeOK
    <3>2. delivered[<<connected_clients[c], c, k>>] = 0
      BY <2>1, <3>1 DEF OnceInv, Unvisited
    <3>3. k \in 1..Len(source_event)
      BY <1>0, <2>1 DEF OnceInv, LogInv, OnlyLogged, Clocks, TypeOK
    <3>4. delivered' = [delivered EXCEPT ![<<connected_clients[c], c, k>>] = 1]
      <4>1. delivered' = [delivered EXCEPT ![<<connected_clients[c], c, k>>] = @ + 1]
        BY <2>1, <2>2 DEF Send
      <4>2. <<connected_clients[c], c, k>> \in DOMAIN delivered
        BY <1>0, <3>1 DEF TypeOK
      <4> QED BY <3>2, <4>1, <4>2
    <3>5. Promise!Deliver(connected_clients[c], c, k)
      BY <2>1, <3>2, <3>3, <3>4 DEF Promise!Deliver
    <3> QED BY <3>1, <3>5 DEF Promise!Next
  <2>3. CASE connected_clients[c] \notin rx
    BY <2>1, <2>3 DEF Send
  <2> QED BY <2>2, <2>3
<1>3. ASSUME NEW s \in Sessions, Session(s), ~CommitSourceEvent(s)
      PROVE  UNCHANGED <<source_event, delivered>>
  BY <1>3 DEF Session, OpenSession, RegisterClient, DisconnectClient, DropReceiver,
     ReceiveSourceEvent, InsertSourceEvent, SaveFails, FindSource, SourceNotFound,
     AcknowledgeSourceEvent, store, sent
<1>4. ASSUME NEW c \in ClientIds, ExpelClient(c) PROVE UNCHANGED <<source_event, delivered>>
  BY <1>4 DEF ExpelClient, store, sent
<1>5. ASSUME NEW k \in Clocks, StartBroadcast(k) \/ EndBroadcast(k)
      PROVE  UNCHANGED <<source_event, delivered>>
  BY <1>5 DEF StartBroadcast, EndBroadcast, store, sent
<1>6. CASE UNCHANGED vars
  BY <1>6 DEF vars
<1> QED BY <1>1, <1>2, <1>3, <1>4, <1>5, <1>6 DEF Next, Broadcasts

\* The transactions, acknowledgements and broadcasts implement EventLog: a log
\* that only grows, with consecutive clocks, and deliveries of its entries, at
\* most once each.
THEOREM LogKept == Spec => KeepsLog
<1>1. Init => Promise!Init
  BY DEF Init, Promise!Init
<1> QED BY <1>1, OnceAlways, StepKeepsPromise, PTL DEF Spec, KeepsLog, Promise!Spec
=============================================================================

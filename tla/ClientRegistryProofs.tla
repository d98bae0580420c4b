------------------------ MODULE ClientRegistryProofs ------------------------
(***************************************************************************)
(* Proofs about ClientRegistry, for any sessions, clients and queries.     *)
(***************************************************************************)
EXTENDS ClientRegistry, TLAPS

-----------------------------------------------------------------------------
(* Types, and what the acknowledgements tell of the tables.                *)

\* Which parts of the state are set at which program counter.
Shape ==
    /\ \A s \in Sessions :
          /\ pc[s] \in {"insert", "announce"} => job[s] \in Registration
          /\ pc[s] \notin {"insert", "announce"} => job[s] = None
          /\ pc[s] \in {"remove", "retract"} => client_id_option[s] \in ClientIds
    /\ \A c \in expired : connected_clients[c] \in Sessions
    /\ heartbeat.pc \in {"touch", "remove", "retract"} => heartbeat.cur \in ClientIds \X Sessions
    /\ heartbeat.pc \in {"wait", "visit"} => heartbeat.cur = None

\* A registration that is under way was acknowledged.
PendingWasAcked ==
    \A s \in Sessions : pc[s] \in {"insert", "announce"} =>
        <<s, job[s].client_id>> \in acked

\* A stream was opened before anything was sent on it.
AckedIsOpen == \A s \in Sessions, c \in ClientIds : <<s, c>> \in acked => pc[s] # "none"

BasicInv ==
    /\ TypeOK
    /\ Shape
    /\ PendingWasAcked
    /\ AckedIsOpen
    /\ RegisteredWasAcked
    /\ EndedSessionNotRegistered

\* The invariant holds before any stream is opened.
LEMMA InitBasic == Init => BasicInv
  BY NoneIsApart DEF Init, BasicInv, TypeOK, Shape, PendingWasAcked, AckedIsOpen,
     RegisteredWasAcked, EndedSessionNotRegistered, PCs

\* What a session does keeps the types and the shape.
LEMMA SessionShape ==
  ASSUME TypeOK, Shape, NEW s \in Sessions, Session(s)
  PROVE  TypeOK' /\ Shape'
<1> USE NoneIsApart DEF TypeOK, Shape, PCs, tables, session, history
<1>1. CASE OpenSession(s)
  BY <1>1 DEF OpenSession
<1>2. ASSUME NEW c \in ClientIds, NEW queries \in SUBSET QueryIds, RegisterClient(s, c, queries)
      PROVE  TypeOK' /\ Shape'
  <2>1. CASE RejectDuplicate(s, c)
    BY <1>2, <2>1 DEF RegisterClient, RejectDuplicate, Interferes
  <2>2. CASE FailToAcknowledge(s, c)
    BY <1>2, <2>2 DEF RegisterClient, FailToAcknowledge, Interferes
  <2>3. CASE Acknowledge(s, c, queries)
    <3>1. [client_id |-> c, query_handlers |-> queries] \in Registration
      BY DEF Registration
    <3> QED BY <1>2, <2>3, <3>1 DEF RegisterClient, Acknowledge
  <2> QED BY <1>2, <2>1, <2>2, <2>3 DEF RegisterClient
<1>3. CASE InsertClient(s)
  BY <1>3 DEF InsertClient, Registration
<1>4. CASE AnnounceHandlers(s)
  BY <1>4 DEF AnnounceHandlers, Announced, Registration
<1>5. CASE ReceiveMessage(s)
  BY <1>5 DEF ReceiveMessage, Touched
<1>6. CASE StreamEnds(s)
  BY <1>6 DEF StreamEnds, Touched
<1>7. CASE Panic(s)
  BY <1>7 DEF Panic
<1>8. CASE CloseRemove(s)
  BY <1>8 DEF CloseRemove, Removed
<1>9. CASE CloseRetract(s)
  BY <1>9 DEF CloseRetract, Retracted
<1>10. CASE DropReceiver(s)
  BY <1>10 DEF DropReceiver
<1> QED
  BY <1>1, <1>2, <1>3, <1>4, <1>5, <1>6, <1>7, <1>8, <1>9, <1>10 DEF Session

\* So do time and the heartbeat task.
LEMMA HeartbeatShape ==
  ASSUME TypeOK, Shape, Heartbeat \/ \E c \in ClientIds : Expire(c)
  PROVE  TypeOK' /\ Shape'
<1> USE NoneIsApart DEF TypeOK, Shape, PCs, tables, session, history
<1>1. ASSUME NEW c \in ClientIds, Expire(c) PROVE TypeOK' /\ Shape'
  BY <1>1 DEF Expire
<1>2. CASE HeartbeatTick
  BY <1>2 DEF HeartbeatTick
<1>3. ASSUME NEW p \in heartbeat.todo, HeartbeatSent(p) PROVE TypeOK' /\ Shape'
  BY <1>3 DEF HeartbeatSent
<1>4. ASSUME NEW p \in heartbeat.todo, HeartbeatFails(p) PROVE TypeOK' /\ Shape'
  BY <1>4 DEF HeartbeatFails, Touched
<1>5. CASE HeartbeatTouch
  BY <1>5 DEF HeartbeatTouch, Touched
<1>6. CASE HeartbeatRemove
  BY <1>6 DEF HeartbeatRemove, Removed
<1>7. CASE HeartbeatRetract
  BY <1>7 DEF HeartbeatRetract, Retracted
<1>8. CASE HeartbeatDone
  BY <1>8 DEF HeartbeatDone
<1> QED
  BY <1>1, <1>2, <1>3, <1>4, <1>5, <1>6, <1>7, <1>8 DEF Heartbeat

\* Every step leaves sessions and heartbeat in one of their shapes.
LEMMA ShapeStep ==
  ASSUME TypeOK, Shape, [Next]_vars
  PROVE  TypeOK' /\ Shape'
<1>1. CASE \E s \in Sessions : Session(s)
  BY <1>1, SessionShape
<1>2. CASE Heartbeat \/ \E c \in ClientIds : Expire(c)
  BY <1>2, HeartbeatShape
<1>3. CASE UNCHANGED vars
  BY <1>3 DEF vars, TypeOK, Shape
<1> QED
  BY <1>1, <1>2, <1>3 DEF Next

\* The heartbeat task registers nobody and leaves the sessions alone.
LEMMA HeartbeatEffect ==
  ASSUME TypeOK, Shape, Heartbeat
  PROVE  /\ UNCHANGED <<pc, client_id_option, job, acked, rx>>
         /\ \A c \in ClientIds : connected_clients'[c] \in {connected_clients[c], None}
<1>1. CASE HeartbeatRemove
  BY <1>1 DEF HeartbeatRemove, Removed, TypeOK, Shape, session, history
<1>2. CASE ~HeartbeatRemove
  BY <1>2 DEF Heartbeat, HeartbeatTick, HeartbeatSent, HeartbeatFails, HeartbeatTouch,
     HeartbeatRetract, HeartbeatDone, tables, session, history
<1> QED
  BY <1>1, <1>2

\* Only three actions can disturb the rest of BasicInv: the two that begin and
\* complete an insertion, and the removal a session makes when it ends.
LEMMA BasicStep ==
  ASSUME BasicInv, [Next]_vars
  PROVE  BasicInv'
<1> USE NoneIsApart DEF BasicInv, TypeOK, Shape, PendingWasAcked, AckedIsOpen,
                        RegisteredWasAcked, EndedSessionNotRegistered, PCs, tables, session, history
<1>1. TypeOK' /\ Shape'
  BY ShapeStep
<1>2. ASSUME NEW s \in Sessions, Session(s)
      PROVE  PendingWasAcked' /\ AckedIsOpen' /\ RegisteredWasAcked' /\ EndedSessionNotRegistered'
  <2>1. CASE OpenSession(s)
    BY <2>1 DEF OpenSession
  <2>2. ASSUME NEW c \in ClientIds, NEW queries \in SUBSET QueryIds,
               RegisterClient(s, c, queries)
        PROVE  PendingWasAcked' /\ AckedIsOpen' /\ RegisteredWasAcked' /\ EndedSessionNotRegistered'
    <3>1. CASE RejectDuplicate(s, c) \/ FailToAcknowledge(s, c)
      BY <2>2, <3>1 DEF RegisterClient, RejectDuplicate, FailToAcknowledge
    <3>2. CASE Acknowledge(s, c, queries)
      <4>1. /\ pc' = [pc EXCEPT ![s] = "insert"]
            /\ job'[s].client_id = c
            /\ \A t \in Sessions \ {s} : job'[t] = job[t]
            /\ acked' = acked \cup {<<s, c>>}
            /\ UNCHANGED <<client_id_option, connected_clients>>
        BY <2>2, <3>2 DEF RegisterClient, Acknowledge
      <4> QED BY <4>1
    <3> QED BY <2>2, <3>1, <3>2 DEF RegisterClient
  <2>3. CASE InsertClient(s)
    BY <2>3 DEF InsertClient, Registration
  <2>4. CASE AnnounceHandlers(s)
    BY <2>4 DEF AnnounceHandlers, Registration
  <2>5. CASE ReceiveMessage(s) \/ Panic(s) \/ DropReceiver(s) \/ CloseRetract(s)
    BY <2>5 DEF ReceiveMessage, Panic, DropReceiver, CloseRetract
  <2>6. CASE StreamEnds(s)
    BY <2>6 DEF StreamEnds
  <2>7. CASE CloseRemove(s)
    BY <2>7 DEF CloseRemove, Removed
  <2> QED
    BY <1>2, <2>1, <2>2, <2>3, <2>4, <2>5, <2>6, <2>7 DEF Session
<1>3. ASSUME NEW c \in ClientIds, Expire(c)
      PROVE  PendingWasAcked' /\ AckedIsOpen' /\ RegisteredWasAcked' /\ EndedSessionNotRegistered'
  BY <1>3 DEF Expire
<1>4. CASE Heartbeat
  <2>1. /\ UNCHANGED <<pc, client_id_option, job, acked>>
        /\ \A c \in ClientIds : connected_clients'[c] \in {connected_clients[c], None}
    BY <1>4, HeartbeatEffect
  <2>2. PendingWasAcked'
    BY <2>1
  <2>3. RegisteredWasAcked'
    <3> SUFFICES ASSUME NEW c \in ClientIds, connected_clients'[c] # None
                 PROVE  <<connected_clients'[c], c>> \in acked
      BY <2>1
    <3> QED BY <2>1
  <2>4. EndedSessionNotRegistered' /\ AckedIsOpen'
    BY <2>1
  <2> QED
    BY <1>1, <2>2, <2>3, <2>4
<1>5. CASE UNCHANGED vars
  BY <1>5 DEF vars
<1> QED
  BY <1>1, <1>2, <1>3, <1>4, <1>5 DEF Next

\* The variables keep their types, for any clients.
THEOREM TypeCorrect == Spec => []TypeOK
<1>1. Init => BasicInv
  BY InitBasic
<1>2. BasicInv /\ [Next]_vars => BasicInv'
  BY BasicStep
<1>3. BasicInv => TypeOK
  BY DEF BasicInv
<1> QED
  BY <1>1, <1>2, <1>3, PTL DEF Spec

\* A client is in the table only if its own stream was told ClientRegistered.
THEOREM RegistrationIsAcked == Spec => []RegisteredWasAcked
<1>1. Init => BasicInv
  BY InitBasic
<1>2. BasicInv /\ [Next]_vars => BasicInv'
  BY BasicStep
<1>3. BasicInv => RegisteredWasAcked
  BY DEF BasicInv
<1> QED
  BY <1>1, <1>2, <1>3, PTL DEF Spec

\* A session that ran to its end has left no registration of its own behind.
THEOREM EndedIsUnregistered == Spec => []EndedSessionNotRegistered
<1>1. Init => BasicInv
  BY InitBasic
<1>2. BasicInv /\ [Next]_vars => BasicInv'
  BY BasicStep
<1>3. BasicInv => EndedSessionNotRegistered
  BY DEF BasicInv
<1> QED
  BY <1>1, <1>2, <1>3, PTL DEF Spec

-----------------------------------------------------------------------------
(* What the heartbeat task is busy with.                                   *)

Held(p) ==
    \/ p \in heartbeat.todo
    \/ heartbeat.pc \in {"touch", "remove", "retract"} /\ heartbeat.cur = p

\* It holds streams that were registered once ...
HeldWasAcked == \A p \in ClientIds \X Sessions : Held(p) => <<p[2], p[1]>> \in acked

\* ... and expels those whose receiver is gone.
ExpelledIsDead == heartbeat.pc \in {"remove", "retract"} => heartbeat.cur[2] \notin rx

HeartbeatInv == BasicInv /\ HeldWasAcked /\ ExpelledIsDead

\* A visit is to a stream of the last snapshot, and only one to a dead stream
\* goes on to the removal.
LEMMA HeartbeatHeld ==
  ASSUME BasicInv, Heartbeat, NEW p \in ClientIds \X Sessions, Held(p)'
  PROVE  \/ Held(p)
         \/ HeartbeatTick /\ p[1] \in expired /\ p[2] = connected_clients[p[1]]
<1> USE DEF BasicInv, TypeOK, Shape, Held
<1>1. CASE HeartbeatTick
  <2>1. heartbeat' = [pc |-> "visit",
                      todo |-> {<<c, connected_clients[c]>> : c \in expired}, cur |-> None]
    BY <1>1 DEF HeartbeatTick
  <2>2. PICK c \in expired : p = <<c, connected_clients[c]>>
    BY <2>1
  <2> QED
    BY <1>1, <2>2
<1>2. CASE \E q \in heartbeat.todo : HeartbeatSent(q) \/ HeartbeatFails(q)
  BY <1>2 DEF HeartbeatSent, HeartbeatFails
<1>3. CASE HeartbeatTouch \/ HeartbeatRemove \/ HeartbeatRetract \/ HeartbeatDone
  BY <1>3 DEF HeartbeatTouch, HeartbeatRemove, HeartbeatRetract, HeartbeatDone
<1> QED
  BY <1>1, <1>2, <1>3 DEF Heartbeat

\* A session leaves the heartbeat alone and acknowledges at most one more name;
\* the receiver it opens with is new.
LEMMA SessionFrame ==
  ASSUME BasicInv, NEW s \in Sessions, Session(s)
  PROVE  /\ UNCHANGED heartbeat
         /\ acked \subseteq acked'
         /\ \A t \in Sessions \ {s} : /\ pc'[t] = pc[t]
                                     /\ job'[t] = job[t]
                                     /\ client_id_option'[t] = client_id_option[t]
         /\ \A t \in rx' : t \in rx \/ pc[t] = "none"
         /\ \A t \in rx : t \in rx' \/ DropReceiver(s)
<1> USE DEF BasicInv, TypeOK, tables, session, history
<1>1. ASSUME NEW c \in ClientIds, NEW queries \in SUBSET QueryIds, RegisterClient(s, c, queries)
      PROVE  /\ UNCHANGED <<heartbeat, rx>>
             /\ acked \subseteq acked'
             /\ \A t \in Sessions \ {s} : /\ pc'[t] = pc[t]
                                         /\ job'[t] = job[t]
                                         /\ client_id_option'[t] = client_id_option[t]
  BY <1>1 DEF RegisterClient, RejectDuplicate, FailToAcknowledge, Acknowledge
<1>2. CASE ~\E c \in ClientIds, queries \in SUBSET QueryIds : RegisterClient(s, c, queries)
  BY <1>2 DEF Session, OpenSession, InsertClient, AnnounceHandlers, ReceiveMessage, StreamEnds,
     Panic, CloseRemove, CloseRetract, DropReceiver
<1> QED
  BY <1>1, <1>2

\* No step lets the heartbeat expel a stream that lives.
LEMMA HeartbeatInvStep ==
  ASSUME HeartbeatInv, [Next]_vars
  PROVE  HeartbeatInv'
<1> USE NoneIsApart DEF HeartbeatInv
<1>1. BasicInv'
  BY BasicStep
<1>2. ASSUME NEW s \in Sessions, Session(s)
      PROVE  HeldWasAcked' /\ ExpelledIsDead'
  <2>1. /\ UNCHANGED heartbeat /\ acked \subseteq acked'
        /\ \A t \in rx' : t \in rx \/ pc[t] = "none"
    BY <1>2, SessionFrame
  <2>2. HeldWasAcked'
    BY <2>1 DEF HeldWasAcked, Held
  <2>3. ExpelledIsDead'
    <3> SUFFICES ASSUME heartbeat.pc \in {"remove", "retract"} PROVE heartbeat.cur[2] \notin rx'
      BY <2>1 DEF ExpelledIsDead
    <3>1. heartbeat.cur \in ClientIds \X Sessions
      BY DEF BasicInv, Shape
    <3>2. pc[heartbeat.cur[2]] # "none"
      BY <3>1 DEF HeldWasAcked, Held, BasicInv, AckedIsOpen
    <3> QED
      BY <2>1, <3>2 DEF ExpelledIsDead
  <2> QED
    BY <2>2, <2>3
<1>3. CASE Heartbeat
  <2>1. UNCHANGED <<acked, rx>>
    BY <1>3, HeartbeatEffect DEF BasicInv
  <2>2. HeldWasAcked'
    <3> SUFFICES ASSUME NEW p \in ClientIds \X Sessions, Held(p)'
                 PROVE  <<p[2], p[1]>> \in acked
      BY <2>1 DEF HeldWasAcked
    <3> QED
      BY <1>3, HeartbeatHeld DEF HeldWasAcked, BasicInv, RegisteredWasAcked, TypeOK
  <2>3. ExpelledIsDead'
    <3>1. CASE \E q \in heartbeat.todo : HeartbeatFails(q)
      BY <2>1, <3>1 DEF HeartbeatFails, ExpelledIsDead
    <3>2. CASE HeartbeatRemove
      BY <2>1, <3>2 DEF HeartbeatRemove, ExpelledIsDead, BasicInv, TypeOK
    <3>3. CASE ~HeartbeatRemove /\ ~\E q \in heartbeat.todo : HeartbeatFails(q)
      <4>1. heartbeat'.pc \notin {"remove", "retract"}
        <5>1. CASE HeartbeatTick \/ \E q \in heartbeat.todo : HeartbeatSent(q)
          BY <5>1 DEF HeartbeatTick, HeartbeatSent
        <5>2. CASE HeartbeatTouch \/ HeartbeatRetract \/ HeartbeatDone
          BY <5>2 DEF HeartbeatTouch, HeartbeatRetract, HeartbeatDone, BasicInv, TypeOK
        <5> QED
          BY <1>3, <3>3, <5>1, <5>2 DEF Heartbeat
      <4> QED
        BY <4>1 DEF ExpelledIsDead
    <3> QED
      BY <3>1, <3>2, <3>3
  <2> QED
    BY <1>1, <2>2, <2>3
<1>4. CASE (\E c \in ClientIds : Expire(c)) \/ UNCHANGED vars
  <2>1. UNCHANGED <<heartbeat, acked, rx>>
    BY <1>4 DEF Expire, vars, history
  <2> QED
    BY <1>1, <2>1 DEF HeldWasAcked, Held, ExpelledIsDead
<1> QED
  BY <1>1, <1>2, <1>3, <1>4 DEF Next

\* So it never does.
LEMMA HeartbeatInvAlways == Spec => []HeartbeatInv
<1>1. Init => HeartbeatInv
  BY InitBasic DEF Init, HeartbeatInv, HeldWasAcked, Held, ExpelledIsDead
<1>2. HeartbeatInv /\ [Next]_vars => HeartbeatInv'
  BY HeartbeatInvStep
<1> QED
  BY <1>1, <1>2, PTL DEF Spec

-----------------------------------------------------------------------------
(* Who writes the tables.                                                  *)

\* Three steps change the client table, each for one name.
LEMMA TableWriters ==
  ASSUME BasicInv, [Next]_vars, NEW c \in ClientIds, connected_clients'[c] # connected_clients[c]
  PROVE  \/ \E t \in Sessions : InsertClient(t) /\ job[t].client_id = c
         \/ \E t \in Sessions : CloseRemove(t) /\ client_id_option[t] = c
         \/ HeartbeatRemove /\ heartbeat.cur[1] = c
<1> USE DEF BasicInv, TypeOK, Shape, Registration
<1>1. ASSUME NEW t \in Sessions, Session(t)
      PROVE  \/ InsertClient(t) /\ job[t].client_id = c
             \/ CloseRemove(t) /\ client_id_option[t] = c
  <2>1. CASE InsertClient(t)
    BY <2>1 DEF InsertClient
  <2>2. CASE CloseRemove(t)
    BY <2>2 DEF CloseRemove, Removed
  <2>3. CASE ~InsertClient(t) /\ ~CloseRemove(t)
    BY <1>1, <2>3 DEF Session, OpenSession, RegisterClient, AnnounceHandlers,
       ReceiveMessage, StreamEnds, Panic, CloseRetract, DropReceiver, tables
  <2> QED
    BY <2>1, <2>2, <2>3
<1>2. CASE HeartbeatRemove
  BY <1>2 DEF HeartbeatRemove, Removed
<1>3. CASE Heartbeat /\ ~HeartbeatRemove
  BY <1>3 DEF Heartbeat, HeartbeatTick, HeartbeatSent, HeartbeatFails, HeartbeatTouch,
     HeartbeatRetract, HeartbeatDone, tables
<1>4. CASE (\E d \in ClientIds : Expire(d)) \/ UNCHANGED vars
  BY <1>4 DEF Expire, vars
<1> QED
  BY <1>1, <1>2, <1>3, <1>4 DEF Next

\* An announcement adds to the handlers, a retraction empties one name's.
LEMMA HandlerWriters ==
  ASSUME BasicInv, [Next]_vars, query_handlers' # query_handlers
  PROVE  \/ \E t \in Sessions : AnnounceHandlers(t)
         \/ \E t \in Sessions : CloseRetract(t)
         \/ HeartbeatRetract
<1>1. ASSUME NEW t \in Sessions, Session(t)
      PROVE  AnnounceHandlers(t) \/ CloseRetract(t)
  BY <1>1 DEF Session, OpenSession, RegisterClient, InsertClient, ReceiveMessage, StreamEnds,
     Panic, CloseRemove, DropReceiver, tables
<1>2. CASE Heartbeat
  BY <1>2 DEF Heartbeat, HeartbeatTick, HeartbeatSent, HeartbeatFails, HeartbeatTouch,
     HeartbeatRemove, HeartbeatDone, tables
<1>3. CASE (\E d \in ClientIds : Expire(d)) \/ UNCHANGED vars
  BY <1>3 DEF Expire, vars
<1> QED
  BY <1>1, <1>2, <1>3 DEF Next

\* A reachable stream that is registered is not the one the heartbeat expels.
LEMMA ExpelsOthers ==
  ASSUME HeartbeatInv, heartbeat.pc \in {"remove", "retract"},
         NEW s \in Sessions, s \in rx
  PROVE  /\ heartbeat.cur \in ClientIds \X Sessions
         /\ heartbeat.cur[2] # s /\ heartbeat.cur[2] \notin rx
         /\ heartbeat.cur = <<heartbeat.cur[1], heartbeat.cur[2]>>
BY DEF HeartbeatInv, ExpelledIsDead, BasicInv, Shape

-----------------------------------------------------------------------------
(* Names that several streams use.                                         *)

\* A reachable stream loses its registration only on account of another one.
THEOREM LiveClientStays == Spec => LiveClientKept
<1> DEFINE Kept ==
      \A c \in ClientIds : \A s \in Sessions :
          Live(s, c) /\ connected_clients'[c] # s =>
              \E t \in Sessions \ {s} :
                  \/ connected_clients'[c] = t
                  \/ pc[t] = "remove" /\ client_id_option[t] = c
                  \/ heartbeat.pc = "remove" /\ heartbeat.cur = <<c, t>> /\ t \notin rx
<1>1. ASSUME HeartbeatInv, [Next]_vars
      PROVE  Kept
  <2> SUFFICES ASSUME NEW c \in ClientIds, NEW s \in Sessions,
                      Live(s, c), connected_clients'[c] # s
               PROVE  \E t \in Sessions \ {s} :
                         \/ connected_clients'[c] = t
                         \/ pc[t] = "remove" /\ client_id_option[t] = c
                         \/ heartbeat.pc = "remove" /\ heartbeat.cur = <<c, t>> /\ t \notin rx
    OBVIOUS
  <2>1. CASE \E t \in Sessions : InsertClient(t) /\ job[t].client_id = c
    BY <1>1, <2>1 DEF InsertClient, HeartbeatInv, BasicInv, TypeOK
  <2>2. CASE \E t \in Sessions : CloseRemove(t) /\ client_id_option[t] = c
    BY <2>2 DEF CloseRemove, Live
  <2>3. CASE HeartbeatRemove /\ heartbeat.cur[1] = c
    BY <1>1, <2>3, ExpelsOthers DEF HeartbeatRemove, Live
  <2> QED
    BY <1>1, <2>1, <2>2, <2>3, TableWriters DEF HeartbeatInv, Live
<1> QED
  BY <1>1, HeartbeatInvAlways, PTL DEF Spec, LiveClientKept

\* And so for the queries it is listed for.
THEOREM ListingStays == Spec => HandlersStay
<1> DEFINE Stay ==
      \A c \in ClientIds, q \in QueryIds : \A s \in Sessions :
          /\ Live(s, c) /\ connected_clients'[c] = s
          /\ c \in query_handlers[q] /\ c \notin query_handlers'[q]
          => \E t \in Sessions \ {s} :
                  \/ pc[t] = "retract" /\ client_id_option[t] = c
                  \/ heartbeat.pc = "retract" /\ heartbeat.cur = <<c, t>> /\ t \notin rx
<1>1. ASSUME HeartbeatInv, [Next]_vars
      PROVE  Stay
  <2> SUFFICES ASSUME NEW c \in ClientIds, NEW q \in QueryIds, NEW s \in Sessions,
                      Live(s, c), c \in query_handlers[q], c \notin query_handlers'[q]
               PROVE  \E t \in Sessions \ {s} :
                         \/ pc[t] = "retract" /\ client_id_option[t] = c
                         \/ heartbeat.pc = "retract" /\ heartbeat.cur = <<c, t>> /\ t \notin rx
    OBVIOUS
  <2> USE DEF HeartbeatInv, BasicInv, TypeOK
  <2>1. CASE \E t \in Sessions : AnnounceHandlers(t)
    BY <1>1, <2>1 DEF AnnounceHandlers, Announced
  <2>2. CASE \E t \in Sessions : CloseRetract(t)
    <3>1. PICK t \in Sessions : CloseRetract(t)
      BY <2>2
    <3>2. client_id_option[t] = c
      BY <1>1, <3>1 DEF CloseRetract, Retracted
    <3>3. t # s
      BY <1>1, <3>1, <3>2, NoneIsApart DEF CloseRetract, EndedSessionNotRegistered, Live
    <3> QED
      BY <3>1, <3>2, <3>3 DEF CloseRetract
  <2>3. CASE HeartbeatRetract
    BY <1>1, <2>3, ExpelsOthers DEF HeartbeatRetract, Retracted, Live
  <2> QED
    BY <1>1, <2>1, <2>2, <2>3, HandlerWriters
<1> QED
  BY <1>1, HeartbeatInvAlways, PTL DEF Spec, HandlersStay

\* Handlers without a client come from an announcement alone that follows the
\* disconnection of the client it is for.
THEOREM NoOrphans == Spec => NoOrphanHandlers
<1> DEFINE NoOrphan == \A c \in ClientIds : ~Orphan(c) /\ Orphan(c)' =>
              \E s \in Sessions : /\ pc[s] = "announce" /\ pc'[s] = "loop"
                                 /\ job[s].client_id = c
                                 /\ connected_clients[c] # s
<1>1. ASSUME HeartbeatInv, [Next]_vars
      PROVE  NoOrphan
  <2> SUFFICES ASSUME NEW c \in ClientIds, ~Orphan(c), Orphan(c)',
                      ~\E s \in Sessions : /\ pc[s] = "announce" /\ pc'[s] = "loop"
                                           /\ job[s].client_id = c
                                           /\ connected_clients[c] # s
               PROVE  FALSE
    OBVIOUS
  <2> USE NoneIsApart DEF HeartbeatInv, BasicInv, TypeOK, Shape
  <2>1. PICK q \in QueryIds : c \in query_handlers'[q]
    BY DEF Orphan
  <2>2. connected_clients'[c] = None /\ ~BeingRetracted(c)'
    BY DEF Orphan
  <2>3. connected_clients[c] = None
    <3> SUFFICES ASSUME connected_clients[c] # None PROVE FALSE
      OBVIOUS
    <3>1. CASE \E t \in Sessions : InsertClient(t) /\ job[t].client_id = c
      BY <1>1, <2>2, <3>1 DEF InsertClient
    <3>2. CASE \E t \in Sessions : CloseRemove(t) /\ client_id_option[t] = c
      BY <1>1, <2>2, <3>2 DEF CloseRemove, BeingRetracted
    <3>3. CASE HeartbeatRemove /\ heartbeat.cur[1] = c
      BY <1>1, <2>2, <3>3 DEF HeartbeatRemove, BeingRetracted
    <3> QED
      BY <1>1, <2>2, <3>1, <3>2, <3>3, TableWriters
  <2>4. c \in query_handlers[q]
    <3> SUFFICES ASSUME c \notin query_handlers[q] PROVE FALSE
      OBVIOUS
    <3>1. CASE \E t \in Sessions : AnnounceHandlers(t)
      BY <1>1, <2>1, <2>3, <3>1 DEF AnnounceHandlers, Announced
    <3>2. CASE (\E t \in Sessions : CloseRetract(t)) \/ HeartbeatRetract
      BY <1>1, <2>1, <3>2 DEF CloseRetract, HeartbeatRetract, Retracted
    <3> QED
      BY <1>1, <2>1, <3>1, <3>2, HandlerWriters
  <2>5. BeingRetracted(c)
    BY <2>3, <2>4 DEF Orphan
  <2>6. CASE \E t \in Sessions : CloseRetract(t) /\ client_id_option[t] = c
    BY <2>1, <2>6 DEF CloseRetract, Retracted
  <2>7. CASE HeartbeatRetract /\ heartbeat.cur[1] = c
    BY <2>1, <2>7 DEF HeartbeatRetract, Retracted
  <2>8. CASE /\ ~\E t \in Sessions : CloseRetract(t) /\ client_id_option[t] = c
             /\ ~(HeartbeatRetract /\ heartbeat.cur[1] = c)
    <3>1. ASSUME NEW t \in Sessions, Session(t)
          PROVE  FALSE
      <4>1. UNCHANGED heartbeat
            /\ \A u \in Sessions \ {t} : /\ pc'[u] = pc[u]
                                        /\ client_id_option'[u] = client_id_option[u]
        BY <1>1, <3>1, SessionFrame
      <4>2. pc[t] = "retract" /\ client_id_option[t] = c
        BY <2>2, <2>5, <4>1 DEF BeingRetracted
      <4>3. CASE DropReceiver(t)
        BY <2>2, <4>1, <4>2, <4>3 DEF DropReceiver, session, BeingRetracted
      <4> QED
        BY <2>8, <3>1, <4>2, <4>3 DEF Session, OpenSession, RegisterClient, InsertClient,
           AnnounceHandlers, ReceiveMessage, StreamEnds, Panic, CloseRemove
    <3>2. CASE Heartbeat
      <4>1. UNCHANGED <<pc, client_id_option>>
        BY <1>1, <3>2, HeartbeatEffect
      <4>2. heartbeat.pc = "retract" /\ heartbeat.cur[1] = c
        BY <2>2, <2>5, <4>1 DEF BeingRetracted
      <4> QED
        BY <2>8, <3>2, <4>2 DEF Heartbeat, HeartbeatTick, HeartbeatSent, HeartbeatFails,
           HeartbeatTouch, HeartbeatRemove, HeartbeatDone
    <3>3. CASE (\E d \in ClientIds : Expire(d)) \/ UNCHANGED vars
      BY <2>2, <2>5, <3>3 DEF Expire, vars, session, BeingRetracted
    <3> QED
      BY <1>1, <3>1, <3>2, <3>3 DEF Next
  <2> QED
    BY <2>6, <2>7, <2>8
<1> QED
  BY <1>1, HeartbeatInvAlways, PTL DEF Spec, NoOrphanHandlers

-----------------------------------------------------------------------------
(* Names that nobody else has used since.                                  *)

\* What the rest of the broker has to do with the name of a sole user: nothing.
Undisturbed(c, s) ==
    /\ <<s, c>> \in acked
    /\ connected_clients[c] \in {None, s}
    /\ \A t \in Sessions \ {s} : Names(t, c) => pc[t] \in {"done", "panicked"}
    /\ \A p \in ClientIds \X Sessions : Held(p) /\ p[1] = c => p[2] = s

\* What the registration of a sole user comes to.
Served(c, s) ==
    /\ Completing(s, c) => job[s].query_handlers = sole[c].query_handlers
    /\ Completing(s, c) /\ pc[s] = "announce" /\ s \in rx => connected_clients[c] = s
    /\ pc[s] \in {"loop", "insert", "announce"} /\ s \in rx /\ ~Completing(s, c) =>
          /\ connected_clients[c] = s
          /\ \A q \in sole[c].query_handlers : c \in query_handlers[q]

IsSole(c, s) == sole[c] # None /\ sole[c].session = s

SoleInv ==
    /\ HeartbeatInv
    /\ \A c \in ClientIds, s \in Sessions : IsSole(c, s) => Undisturbed(c, s) /\ Served(c, s)

\* A RegisterClient makes its stream the sole user of a name nobody uses, and
\* takes the name from whoever else had it for itself.
LEMMA RegisterSole ==
  ASSUME SoleInv, NEW u \in Sessions, NEW d \in ClientIds, NEW queries \in SUBSET QueryIds,
         RegisterClient(u, d, queries),
         NEW c \in ClientIds, NEW s \in Sessions, IsSole(c, s)'
  PROVE  Undisturbed(c, s)' /\ Served(c, s)'
<1> USE NoneIsApart DEF SoleInv, HeartbeatInv, BasicInv, TypeOK, Shape, IsSole
<1>1. pc[u] = "loop" /\ UNCHANGED <<rx, connected_clients, query_handlers, heartbeat>>
  BY DEF RegisterClient, tables
<1>2. CASE c = d /\ Acknowledge(u, d, queries)
  <2>1. /\ sole'[c] # None => /\ sole'[c] = [session |-> u, query_handlers |-> queries]
                              /\ Unused(u, c)
        /\ connected_clients[c] = None
        /\ acked' = acked \cup {<<u, c>>}
        /\ pc' = [pc EXCEPT ![u] = "insert"]
        /\ job' = [job EXCEPT ![u] = [client_id |-> c, query_handlers |-> queries]]
        /\ UNCHANGED client_id_option
    BY <1>2 DEF Acknowledge
  <2>2. s = u /\ Unused(s, c) /\ sole'[c].query_handlers = queries
    BY <2>1
  <2>3. \A p \in ClientIds \X Sessions : ~(Held(p)' /\ p[1] = c)
    BY <1>1, <2>2 DEF Unused, HeartbeatHolds, Held
  <2>4. Undisturbed(c, s)'
    BY <1>1, <2>1, <2>2, <2>3 DEF Undisturbed, Unused, Names
  <2>5. pc'[s] = "insert" /\ job'[s].client_id = c /\ job'[s].query_handlers = queries
    BY <2>1, <2>2
  <2>6. Served(c, s)'
    BY <2>2, <2>5 DEF Served, Completing
  <2> QED
    BY <2>4, <2>6
<1>3. CASE ~(c = d /\ Acknowledge(u, d, queries))
  <2>1. /\ sole'[c] = sole[c]
        /\ c = d => u = s
        /\ acked \subseteq acked'
    BY <1>3 DEF RegisterClient, RejectDuplicate, FailToAcknowledge, Acknowledge, Interferes
  <2>2. Undisturbed(c, s) /\ Served(c, s)
    BY <2>1
  <2>3. /\ pc'[u] \in {"loop", "insert"}
        /\ pc'[u] = "insert" => job'[u].client_id = d /\ d # c
        /\ client_id_option'[u] \in {client_id_option[u], d}
        /\ \A t \in Sessions \ {u} : /\ pc'[t] = pc[t] /\ job'[t] = job[t]
                                    /\ client_id_option'[t] = client_id_option[t]
    BY <1>1, <1>3 DEF RegisterClient, RejectDuplicate, FailToAcknowledge, Acknowledge
  <2>4. Undisturbed(c, s)'
    <3>1. \A t \in Sessions \ {s} : Names(t, c)' => Names(t, c) /\ pc'[t] = pc[t]
      BY <1>1, <2>1, <2>2, <2>3 DEF Names, Undisturbed
    <3> QED
      BY <1>1, <2>1, <2>2, <3>1 DEF Undisturbed, Held
  <2>5. /\ Completing(s, c)' => Completing(s, c) /\ pc'[s] = pc[s] /\ job'[s] = job[s]
        /\ ~Completing(s, c)' => ~Completing(s, c)
        /\ pc'[s] \in {"loop", "insert", "announce"} => pc[s] \in {"loop", "insert", "announce"}
    BY <1>1, <2>3 DEF Completing
  <2>6. Served(c, s)'
    BY <1>1, <2>1, <2>2, <2>5 DEF Served
  <2> QED
    BY <2>4, <2>6
<1> QED
  BY <1>2, <1>3

\* No other step of a session reaches the sole user of a name.
LEMMA SessionSole ==
  ASSUME SoleInv, NEW u \in Sessions, Session(u),
         ~\E d \in ClientIds, queries \in SUBSET QueryIds : RegisterClient(u, d, queries),
         NEW c \in ClientIds, NEW s \in Sessions, IsSole(c, s)'
  PROVE  Undisturbed(c, s)' /\ Served(c, s)'
<1> USE NoneIsApart DEF SoleInv, HeartbeatInv, BasicInv, TypeOK, Shape, PCs, IsSole,
                        tables, session, history
<1>1. UNCHANGED <<heartbeat, acked, sole>>
  BY DEF Session, OpenSession, InsertClient, AnnounceHandlers, ReceiveMessage, StreamEnds,
     Panic, CloseRemove, CloseRetract, DropReceiver
<1>2. Undisturbed(c, s) /\ Served(c, s)
  BY <1>1
<1>3. pc[s] # "none"
  BY <1>2 DEF Undisturbed, AckedIsOpen
<1>4. CASE OpenSession(u)
  BY <1>1, <1>2, <1>3, <1>4 DEF OpenSession, Undisturbed, Names, Held, Served, Completing
<1>5. CASE InsertClient(u)
  <2>1. /\ pc[u] = "insert" /\ pc' = [pc EXCEPT ![u] = "announce"]
        /\ connected_clients' = [connected_clients EXCEPT ![job[u].client_id] = u]
        /\ UNCHANGED <<rx, client_id_option, job, query_handlers>>
    BY <1>5 DEF InsertClient
  <2>2. job[u].client_id = c => u = s
    BY <1>2, <2>1 DEF Undisturbed, Names
  <2>3. job[u].client_id \in ClientIds
    BY <2>1 DEF Registration
  <2>4. Undisturbed(c, s)'
    BY <1>1, <1>2, <2>1, <2>2, <2>3 DEF Undisturbed, Names, Held
  <2>5. Served(c, s)'
    BY <1>1, <1>2, <2>1, <2>2, <2>3 DEF Served, Completing
  <2> QED
    BY <2>4, <2>5
<1>6. CASE AnnounceHandlers(u)
  <2>1. /\ pc[u] = "announce" /\ pc' = [pc EXCEPT ![u] = "loop"]
        /\ client_id_option' = [client_id_option EXCEPT ![u] = job[u].client_id]
        /\ job' = [job EXCEPT ![u] = None]
        /\ Announced(job[u].client_id, job[u].query_handlers)
        /\ UNCHANGED <<rx, connected_clients>>
    BY <1>6 DEF AnnounceHandlers
  <2>2. job[u].client_id \in ClientIds /\ job[u].query_handlers \subseteq QueryIds
    BY <2>1 DEF Registration
  <2>3. job[u].client_id = c => u = s
    BY <1>2, <2>1 DEF Undisturbed, Names
  <2>4. Undisturbed(c, s)'
    BY <1>1, <1>2, <2>1, <2>2, <2>3 DEF Undisturbed, Names, Held
  <2>5. /\ \A q \in QueryIds : c \in query_handlers[q] => c \in query_handlers'[q]
        /\ job[u].client_id = c =>
              \A q \in job[u].query_handlers : c \in query_handlers'[q]
    BY <2>1, <2>2 DEF Announced
  <2>6. sole[c].query_handlers \subseteq QueryIds
    BY <1>1
  <2>7. Served(c, s)'
    <3>1. CASE u = s /\ job[u].client_id = c
      BY <1>1, <1>2, <2>1, <2>5, <3>1 DEF Served, Completing
    <3>2. CASE ~(u = s /\ job[u].client_id = c)
      <4>1. Completing(s, c)' <=> Completing(s, c)
        BY <2>1, <3>2 DEF Completing
      <4>2. Completing(s, c) => job'[s] = job[s] /\ pc'[s] = pc[s]
        BY <2>1, <3>2 DEF Completing
      <4>3. pc'[s] \in {"loop", "insert", "announce"} => pc[s] \in {"loop", "insert", "announce"}
        BY <2>1
      <4> QED
        BY <1>1, <1>2, <2>1, <2>5, <2>6, <4>1, <4>2, <4>3 DEF Served
    <3> QED
      BY <3>1, <3>2
  <2> QED
    BY <2>4, <2>7
<1>7. CASE ReceiveMessage(u) \/ StreamEnds(u) \/ Panic(u) \/ DropReceiver(u)
  BY <1>1, <1>2, <1>7 DEF ReceiveMessage, StreamEnds, Panic, DropReceiver, Undisturbed, Names,
     Held, Served, Completing
<1>8. CASE CloseRemove(u) \/ CloseRetract(u)
  <2>1. client_id_option[u] = c => u = s
    BY <1>2, <1>8 DEF CloseRemove, CloseRetract, Undisturbed, Names
  <2>2. /\ pc[u] \in {"remove", "retract"} /\ pc'[u] \in {"retract", "done"}
        /\ \A t \in Sessions \ {u} : pc'[t] = pc[t]
        /\ UNCHANGED <<rx, client_id_option, job>>
    BY <1>8 DEF CloseRemove, CloseRetract
  <2>3. /\ connected_clients'[c] \in {connected_clients[c], None}
        /\ u # s => connected_clients'[c] = connected_clients[c]
        /\ \A q \in QueryIds : u # s /\ c \in query_handlers[q] => c \in query_handlers'[q]
    BY <1>8, <2>1 DEF CloseRemove, CloseRetract, Removed, Retracted
  <2>4. Undisturbed(c, s)'
    BY <1>1, <1>2, <2>2, <2>3 DEF Undisturbed, Names, Held
  <2>5. Served(c, s)'
    BY <1>1, <1>2, <2>2, <2>3 DEF Served, Completing
  <2> QED
    BY <2>4, <2>5
<1> QED
  BY <1>4, <1>5, <1>6, <1>7, <1>8 DEF Session

\* Nor does the heartbeat task, while the sole user can be reached.
LEMMA HeartbeatSole ==
  ASSUME SoleInv, Heartbeat, NEW c \in ClientIds, NEW s \in Sessions, IsSole(c, s)'
  PROVE  Undisturbed(c, s)' /\ Served(c, s)'
<1> USE NoneIsApart DEF SoleInv, HeartbeatInv, BasicInv, TypeOK, Shape, IsSole
<1>1. UNCHANGED <<pc, client_id_option, job, acked, rx, sole>>
  BY HeartbeatEffect DEF Heartbeat, HeartbeatTick, HeartbeatSent, HeartbeatFails, HeartbeatTouch,
     HeartbeatRemove, HeartbeatRetract, HeartbeatDone, history
<1>2. Undisturbed(c, s) /\ Served(c, s)
  BY <1>1
<1>3. \A p \in ClientIds \X Sessions : Held(p)' /\ p[1] = c => p[2] = s
  BY <1>2, HeartbeatHeld DEF Undisturbed
<1>4. connected_clients'[c] \in {connected_clients[c], None}
  BY HeartbeatEffect
<1>5. Undisturbed(c, s)'
  BY <1>1, <1>2, <1>3, <1>4 DEF Undisturbed, Names
<1>6. ASSUME s \in rx
      PROVE  /\ connected_clients'[c] = connected_clients[c]
             /\ \A q \in QueryIds : c \in query_handlers[q] => c \in query_handlers'[q]
  <2>1. heartbeat.pc \in {"remove", "retract"} => heartbeat.cur[1] # c
    BY <1>2, <1>6, ExpelsOthers DEF Undisturbed, Held
  <2>2. CASE HeartbeatRemove
    BY <2>1, <2>2 DEF HeartbeatRemove, Removed
  <2>3. CASE HeartbeatRetract
    BY <2>1, <2>3 DEF HeartbeatRetract, Retracted
  <2>4. CASE ~HeartbeatRemove /\ ~HeartbeatRetract
    BY <2>4 DEF Heartbeat, HeartbeatTick, HeartbeatSent, HeartbeatFails, HeartbeatTouch,
       HeartbeatDone, tables
  <2> QED
    BY <2>2, <2>3, <2>4
<1>7. Served(c, s)'
  BY <1>1, <1>2, <1>6 DEF Served, Completing
<1> QED
  BY <1>5, <1>7

\* No step takes from the sole user of a name what it was promised.
LEMMA SoleStep ==
  ASSUME SoleInv, [Next]_vars
  PROVE  SoleInv'
<1>1. HeartbeatInv'
  BY HeartbeatInvStep DEF SoleInv
<1>2. ASSUME NEW c \in ClientIds, NEW s \in Sessions, IsSole(c, s)'
      PROVE  Undisturbed(c, s)' /\ Served(c, s)'
  <2>1. ASSUME NEW u \in Sessions, Session(u)
        PROVE  Undisturbed(c, s)' /\ Served(c, s)'
    BY <1>2, <2>1, RegisterSole, SessionSole
  <2>2. CASE Heartbeat
    BY <1>2, <2>2, HeartbeatSole
  <2>3. CASE (\E d \in ClientIds : Expire(d)) \/ UNCHANGED vars
    BY <1>2, <2>3 DEF Expire, vars, session, history, SoleInv, IsSole, Undisturbed, Names, Held,
       Served, Completing
  <2> QED
    BY <2>1, <2>2, <2>3 DEF Next
<1> QED
  BY <1>1, <1>2 DEF SoleInv

\* Whatever goes on under other names, and went on under this one before, the
\* sole user of a name stays connected and listed while its stream is open.
THEOREM SoleUserIsServed == Spec => []SoleUserServed
<1>1. Init => SoleInv
  BY InitBasic DEF Init, SoleInv, HeartbeatInv, HeldWasAcked, Held, ExpelledIsDead, IsSole
<1>2. SoleInv /\ [Next]_vars => SoleInv'
  BY SoleStep
<1>3. SoleInv => SoleUserServed
  BY DEF SoleInv, SoleUserServed, IsSole, Served
<1> QED
  BY <1>1, <1>2, <1>3, PTL DEF Spec
=============================================================================

--------------------------- MODULE ChannelsProofs ---------------------------
(***************************************************************************)
(* The broker never waits for itself, and a slow client keeps its          *)
(* registration, whatever the number of clients, broadcasts and slots.     *)
(***************************************************************************)
EXTENDS Channels, SequenceTheorems, TLAPS

-----------------------------------------------------------------------------
(* The inductive invariant.                                                *)

\* Exactly the tasks whose next step takes the lock are in its queue, once.
InQueue(t) == \E i \in DOMAIN queue : queue[i] = t

QueueExact ==
    /\ \A t \in Tasks : Waiting(t) <=> InQueue(t)
    /\ \A i, j \in DOMAIN queue : queue[i] = queue[j] => i = j

\* A broadcast that keeps the lock does not ask for it again, it only sends.
CastsInOrder ==
    \A b \in Casts :
        IF b \in holders
        THEN todo[b] = << >> \/ \E c \in Clients : todo[b] = <<Try("send", c, "go on")>>
        ELSE todo[b] = << >> \/ todo[b] = <<Do("begin", None)>> \/ todo[b] = <<Do("hold", None)>>

\* A session removes and inserts its own client, and removes it last; the
\* heartbeat removes only those whose receiver is gone for good.
Gone(c) == c \notin rx /\ at[c] # "none"

Right(t, step) ==
    /\ step.op = "remove" =>
          IF t \in Clients THEN step.who = t /\ at[t] = "closing" ELSE Gone(step.who)
    /\ step.op = "insert" => step.who = t
    /\ step.fail = "expel" => step.op = "send" /\ at[step.who] # "none"

RemovesRight == \A t \in Tasks : \A i \in DOMAIN todo[t] : Right(t, todo[t][i])

\* Whoever is registered, is served by the heartbeat or has a handler under way
\* has opened its session.
OpenedBefore ==
    /\ \A c \in connected_clients : at[c] # "none"
    /\ round = "rest" => remaining[Heart] = {} /\ todo[Heart] = << >>
    /\ round = "visits" => \A c \in remaining[Heart] : at[c] # "none"
    /\ \A c \in Clients : at[c] = "none" => todo[c] = << >>

-----------------------------------------------------------------------------
(* Scripts.                                                                *)

\* An operation of a task, a client and a reaction to its failure make a step of the task.
LEMMA StepsIn ==
    ASSUME NEW t \in Tasks, NEW op \in Ops(t), NEW c \in Clients
    PROVE  /\ Do(op, c) \in Steps(t)
           /\ Try(op, c, "go on") \in Steps(t)
           /\ Try(op, c, "return") \in Steps(t)
           /\ t = Heart => /\ Try(op, c, "expel") \in Steps(t)
                           /\ Try(op, c, "forget") \in Steps(t)
           /\ t \in Clients => /\ Try(op, c, "tell") \in Steps(t)
                               /\ Try(op, c, "refuse") \in Steps(t)
                               /\ Try(op, c, "mute") \in Steps(t)
BY DEF Do, Try, Steps, Fails

\* The operations of each kind of task.
LEMMA OpsOf ==
    /\ \A t \in Clients : Ops(t) = {"touch", "find", "vacant", "insert", "remove", "send",
                                    "known", "record", "settle", "spawn"}
    /\ \A t \in Casts : Ops(t) = {"begin", "hold", "send"}
    /\ Ops(Heart) = {"snapshot", "find", "send", "touch", "remove", "settle"}
BY TasksApart DEF Ops

\* Short scripts are sequences of steps.
LEMMA Tuples ==
    ASSUME NEW S, NEW u \in S, NEW v \in S, NEW w \in S, NEW x \in S, NEW y \in S
    PROVE  /\ << >> \in Seq(S) /\ <<u>> \in Seq(S) /\ <<u, v>> \in Seq(S)
           /\ <<u, v, w>> \in Seq(S) /\ <<u, v, w, x>> \in Seq(S)
           /\ <<u, v, w, x, y>> \in Seq(S)
OBVIOUS

\* A step of a handler: it removes nobody, and inserts only its own client.
Plain(c, step) ==
    step.op # "remove" /\ step.fail # "expel" /\ (step.op = "insert" => step.who = c)

\* Every handler is a script of its session.
LEMMA ScriptTyped ==
    ASSUME NEW c \in Clients, NEW m \in Message
    PROVE  /\ Script(c, m) \in Seq(Steps(c))
           /\ Disconnect(c) \in Seq(Steps(c))
           /\ \A i \in DOMAIN Script(c, m) : Plain(c, Script(c, m)[i])
<1>1. c \in Tasks BY DEF Tasks
<1>2. \A op \in {"touch", "find", "vacant", "insert", "remove", "send", "known", "record",
                 "settle", "spawn"} : \A d \in Clients :
         /\ Do(op, d) \in Steps(c)
         /\ Try(op, d, "go on") \in Steps(c)
         /\ Try(op, d, "tell") \in Steps(c)
         /\ Try(op, d, "refuse") \in Steps(c)
         /\ Try(op, d, "mute") \in Steps(c)
  BY <1>1, StepsIn, OpsOf
<1>3. m.to \in Clients \cup {None} /\ (m.to = None \/ m.to \in Clients)
  BY DEF Message
<1>4. Disconnect(c) \in Seq(Steps(c))
  BY <1>2, Tuples DEF Disconnect
<1>5. CASE m.kind = "register"
  <2>1. Script(c, m) = Register(c) BY <1>5 DEF Script
  <2>2. Register(c) \in Seq(Steps(c)) BY <1>2, Tuples DEF Register
  <2>3. \A i \in 1..3 : Plain(c, Register(c)[i])
    BY DEF Register, Do, Try, Plain
  <2> QED BY <1>4, <2>1, <2>2, <2>3 DEF Register
<1>6. CASE m.kind = "ask" /\ m.to = None
  <2>1. Script(c, m) = <<Do("touch", c), Do("find", c), Do("send", c)>>
    BY <1>6 DEF Script, Ask
  <2>3. <<Do("touch", c), Do("find", c), Do("send", c)>> \in Seq(Steps(c))
    BY <1>2, Tuples
  <2>2. Script(c, m) \in Seq(Steps(c)) BY <2>1, <2>3
  <2> QED BY <1>4, <2>1, <2>2 DEF Do, Plain
<1>7. CASE m.kind = "ask" /\ m.to \in Clients
  <2> DEFINE r == m.to
  <2>1. Script(c, m) = <<Do("touch", c), Try("find", c, "mute"), Do("find", r),
                         Try("send", r, "tell"), Do("record", c)>>
    BY <1>7, NoneIsNobody DEF Script, Ask
  <2>3. <<Do("touch", c), Try("find", c, "mute"), Do("find", r), Try("send", r, "tell"),
          Do("record", c)>> \in Seq(Steps(c))
    BY <1>2, <1>7, Tuples
  <2>2. Script(c, m) \in Seq(Steps(c)) BY <2>1, <2>3
  <2> QED BY <1>4, <2>1, <2>2 DEF Do, Try, Plain
<1>8. CASE m.kind = "reply"
  <2>1. Script(c, m) = Reply(c, m.to) BY <1>8 DEF Script
  <2>2. m.to \in Clients BY <1>8 DEF Message
  <2>3. Reply(c, m.to) \in Seq(Steps(c)) BY <1>2, <2>2, Tuples DEF Reply
  <2> QED BY <1>4, <2>1, <2>3 DEF Reply, Do, Plain
<1>9. CASE m.kind = "event"
  <2>1. Script(c, m) = Event(c) BY <1>9 DEF Script
  <2>2. Event(c) \in Seq(Steps(c)) BY <1>2, Tuples DEF Event
  <2>3. DOMAIN Event(c) = 1..4 BY DEF Event
  <2>4. /\ Event(c)[1] = Do("touch", c) /\ Event(c)[2] = Do("find", c)
        /\ Event(c)[3] = Try("send", c, "go on") /\ Event(c)[4] = Do("spawn", c)
    BY DEF Event
  <2>5. \A i \in 1..4 : i = 1 \/ i = 2 \/ i = 3 \/ i = 4 OBVIOUS
  <2>6. \A i \in 1..4 : Plain(c, Event(c)[i])
    <3>1. \A op \in {"touch", "find", "spawn"} : Plain(c, Do(op, c)) BY DEF Do, Plain
    <3>2. Plain(c, Try("send", c, "go on")) BY DEF Try, Plain
    <3> QED BY <2>4, <2>5, <3>1, <3>2
  <2> QED BY <1>4, <2>1, <2>2, <2>3, <2>6
<1>10. CASE m.kind = "pong"
  <2>1. Script(c, m) = <<Do("touch", c)>> BY <1>10 DEF Script
  <2>3. <<Do("touch", c)>> \in Seq(Steps(c)) BY <1>2, Tuples
  <2>2. Script(c, m) \in Seq(Steps(c)) BY <2>1, <2>3
  <2> QED BY <1>4, <2>1, <2>2 DEF Do, Plain
<1> QED BY <1>3, <1>5, <1>6, <1>7, <1>8, <1>9, <1>10 DEF Message

\* What follows a step that fails is a script of the same task.
LEMMA OtherwiseTyped ==
    ASSUME NEW t \in Tasks, todo[t] \in Seq(Steps(t)), todo[t] # << >>
    PROVE  /\ Otherwise(t) \in Seq(Steps(t))
           /\ Tail(todo[t]) \in Seq(Steps(t))
           /\ Head(todo[t]) \in Steps(t)
<1> DEFINE step == Head(todo[t])
           rest == Tail(todo[t])
           muted == [i \in DOMAIN rest |->
                        [rest[i] EXCEPT !.fail = IF @ = "tell" THEN "return" ELSE @]]
<1>1. step \in Steps(t) /\ rest \in Seq(Steps(t)) OBVIOUS
<1>2. step.fail \in Fails /\ step.op \in Ops(t) /\ step.who \in Clients \cup {None}
  BY <1>1 DEF Steps
<1>3. CASE step.fail = "return"
  BY <1>1, <1>3, Tuples DEF Otherwise
<1>4. CASE step.fail = "refuse"
  <2>1. t \in Clients /\ step.who \in Clients BY <1>1, <1>4 DEF Steps
  <2>2. Do("send", step.who) \in Steps(t) BY <2>1, StepsIn, OpsOf
  <2>3. Otherwise(t) = <<Do("send", step.who)>> BY <1>4 DEF Otherwise
  <2> QED BY <1>1, <2>2, <2>3, Tuples
<1>5. CASE step.fail = "tell"
  <2>1. t \in Clients BY <1>1, <1>5 DEF Steps
  <2>2. Do("send", t) \in Steps(t) BY <2>1, StepsIn, OpsOf
  <2>3. Otherwise(t) = <<Do("send", t)>> BY <1>5 DEF Otherwise
  <2> QED BY <1>1, <2>2, <2>3, Tuples
<1>6. CASE step.fail = "expel"
  <2>1. t = Heart /\ step.who \in Clients BY <1>1, <1>6 DEF Steps
  <2>2. Do("touch", step.who) \in Steps(t) /\ Do("remove", step.who) \in Steps(t)
    BY <2>1, StepsIn, OpsOf
  <2>3. Otherwise(t) = <<Do("touch", step.who), Do("remove", step.who)>>
    BY <1>6 DEF Otherwise, Disconnect
  <2> QED BY <1>1, <2>2, <2>3, Tuples
<1>7. CASE step.fail = "forget"
  <2>1. t = Heart /\ step.who \in Clients BY <1>1, <1>7 DEF Steps
  <2>2. Do("settle", step.who) \in Steps(t) BY <2>1, StepsIn, OpsOf
  <2>3. Otherwise(t) = <<Do("settle", step.who)>> BY <1>7 DEF Otherwise
  <2> QED BY <1>1, <2>2, <2>3, Tuples
<1>8. CASE step.fail = "go on"
  BY <1>1, <1>8 DEF Otherwise
<1>9. CASE step.fail = "mute"
  <2>1. Otherwise(t) = muted BY <1>9 DEF Otherwise
  <2>2. \A i \in DOMAIN rest : rest[i] \in Steps(t) BY <1>1
  <2>3. \A i \in DOMAIN rest : muted[i] \in Steps(t) BY <2>2 DEF Steps, Fails
  <2>4. DOMAIN rest = 1..Len(rest) /\ Len(rest) \in Nat BY <1>1
  <2>5. muted \in [1..Len(rest) -> Steps(t)] BY <2>3, <2>4
  <2>6. muted \in Seq(Steps(t)) BY <2>4, <2>5, SeqDef
  <2> QED BY <1>1, <2>1, <2>6
<1> QED BY <1>2, <1>3, <1>4, <1>5, <1>6, <1>7, <1>8, <1>9 DEF Fails

\* What Goto does to the scripts and to the queue.
LEMMA GotoTyped ==
    ASSUME TypeOK, NEW t \in Tasks, NEW s \in Seq(Steps(t)), Goto(t, s),
           Waiting(t) => queue # << >>
    PROVE  /\ DOMAIN todo' = Tasks
           /\ \A u \in Tasks : todo'[u] \in Seq(Steps(u))
           /\ queue' \in Seq(Tasks)
           /\ todo'[t] = s
           /\ \A u \in Tasks \ {t} : todo'[u] = todo[u]
<1>1. DOMAIN todo = Tasks /\ queue \in Seq(Tasks) /\ \A u \in Tasks : todo[u] \in Seq(Steps(u))
  BY DEF TypeOK
<1>2. todo' = [todo EXCEPT ![t] = s] BY DEF Goto
<1> DEFINE behind == IF Waiting(t) THEN Tail(queue) ELSE queue
<1>3. behind \in Seq(Tasks) BY <1>1
<1>4. queue' = Append(behind, t) \/ queue' = behind BY DEF Goto
<1>5. queue' \in Seq(Tasks) BY <1>3, <1>4
<1> QED BY <1>1, <1>2, <1>5

\* Who is granted the lock stands at the head of its queue.
LEMMA GrantedFacts ==
    ASSUME TypeOK, NEW t \in Tasks, NEW op, Granted(t, op)
    PROVE  /\ todo[t] # << >> /\ todo[t] \in Seq(Steps(t)) /\ Head(todo[t]) \in Steps(t)
           /\ queue # << >> /\ Head(queue) = t
           /\ Head(todo[t]).op = op
           /\ op \in LockOps => Waiting(t)
           /\ op \in {"touch", "find", "vacant", "insert", "remove"} => Subject(t) \in Clients
           /\ Tail(todo[t]) \in Seq(Steps(t)) /\ Otherwise(t) \in Seq(Steps(t))
<1>1. todo[t] # << >> /\ todo[t] \in Seq(Steps(t)) BY DEF Granted, Doing, TypeOK
<1>2. Head(todo[t]) \in Steps(t) BY <1>1, OtherwiseTyped
<1> QED BY <1>1, <1>2, OtherwiseTyped DEF Granted, Doing, Waiting, Subject, Steps

\* A task that does something has a script that begins with it.
LEMMA DoingFacts ==
    ASSUME TypeOK, NEW t \in Tasks, NEW op, Doing(t, op)
    PROVE  /\ todo[t] # << >> /\ todo[t] \in Seq(Steps(t)) /\ Head(todo[t]) \in Steps(t)
           /\ Head(todo[t]).op = op
           /\ op \notin LockOps => ~Waiting(t)
           /\ op \in {"send", "known", "record", "settle", "spawn"} => Subject(t) \in Clients
           /\ Tail(todo[t]) \in Seq(Steps(t)) /\ Otherwise(t) \in Seq(Steps(t))
<1>1. todo[t] # << >> /\ todo[t] \in Seq(Steps(t)) BY DEF Doing, TypeOK
<1>2. Head(todo[t]) \in Steps(t) BY <1>1, OtherwiseTyped
<1> QED BY <1>1, <1>2, OtherwiseTyped DEF Doing, Waiting, Subject, Steps

-----------------------------------------------------------------------------
(* The steps, by what they do to the scripts.                              *)

\* Task t goes on with script s, after the lock if it has waited for that.
Turn(t, s) ==
    /\ s \in Seq(Steps(t))
    /\ Goto(t, s)
    /\ Waiting(t) => queue # << >> /\ Head(queue) = t

\* A step of a script goes on with the rest, or with what follows a failure; a
\* send fails only if the receiver is gone.
LEMMA HandleTurns ==
    ASSUME TypeOK, NEW t \in Tasks, Handle(t) \/ Send(t)
    PROVE  \E s : /\ Turn(t, s)
                  /\ todo[t] # << >>
                  /\ \/ s = Tail(todo[t])
                     \/ s = Otherwise(t) /\ (Doing(t, "send") => Subject(t) \notin rx)
<1>1. CASE Touch(t) \/ Insert(t) \/ Remove(t)
  <2>1. Goto(t, Tail(todo[t])) BY <1>1 DEF Touch, Insert, Remove
  <2>2. \E op \in WriteOps : Granted(t, op) BY <1>1 DEF Touch, Insert, Remove, WriteOps
  <2> QED BY <2>1, <2>2, GrantedFacts DEF Turn
<1>2. CASE Find(t) \/ Vacant(t)
  <2>1. Goto(t, Tail(todo[t])) \/ Goto(t, Otherwise(t)) BY <1>2 DEF Find, Vacant
  <2>2. \E op \in {"find", "vacant"} : Granted(t, op) BY <1>2 DEF Find, Vacant
  <2>3. ~Doing(t, "send") BY <2>2 DEF Granted, Doing
  <2> QED BY <2>1, <2>2, <2>3, GrantedFacts DEF Turn
<1>3. CASE Send(t)
  <2>1. Doing(t, "send") BY <1>3 DEF Send
  <2>2. Goto(t, Tail(todo[t])) \/ (Goto(t, Otherwise(t)) /\ Subject(t) \notin rx)
    BY <1>3 DEF Send
  <2>3. "send" \notin LockOps BY DEF LockOps, ReadOps, WriteOps
  <2> QED BY <2>1, <2>2, <2>3, DoingFacts DEF Turn
<1>4. CASE Known(t) \/ Record(t) \/ Settle(t)
  <2>1. Goto(t, Tail(todo[t])) \/ Goto(t, Otherwise(t)) BY <1>4 DEF Known, Record, Settle
  <2>2. PICK op \in {"known", "record", "settle"} : Doing(t, op)
    BY <1>4 DEF Known, Record, Settle
  <2>3. op \notin LockOps BY DEF LockOps, ReadOps, WriteOps
  <2>4. ~Doing(t, "send") BY <2>2 DEF Doing
  <2> QED BY <2>1, <2>2, <2>3, <2>4, DoingFacts DEF Turn
<1> QED BY <1>1, <1>2, <1>3, <1>4 DEF Handle

\* Leaving the loop, returning and taking a message are turns, too, ...
LEMMA SessionTurns ==
    ASSUME TypeOK, NEW c \in Clients, LeaveLoop(c) \/ Return(c) \/ \E m \in unsent[c] : Take(c, m)
    PROVE  (\E s : Turn(c, s)) \/ UNCHANGED <<todo, queue>>
<1>1. CASE Return(c) BY <1>1 DEF Return, locks
<1>2. CASE LeaveLoop(c)
  <2>1. ~Waiting(c) BY <1>2 DEF LeaveLoop, Loops, Waiting
  <2>2. Disconnect(c) \in Seq(Steps(c))
    <3>1. c \in Tasks BY DEF Tasks
    <3>2. Do("touch", c) \in Steps(c) /\ Do("remove", c) \in Steps(c) BY <3>1, StepsIn, OpsOf
    <3> QED BY <3>2, Tuples DEF Disconnect
  <2>3. Goto(c, Disconnect(c)) \/ UNCHANGED <<todo, queue>> BY <1>2 DEF LeaveLoop
  <2> QED BY <2>1, <2>2, <2>3 DEF Turn
<1>3. CASE \E m \in unsent[c] : Take(c, m)
  <2>1. PICK m \in unsent[c] : Take(c, m) BY <1>3
  <2>2. m \in Message BY DEF TypeOK
  <2>3. ~Waiting(c) /\ Goto(c, Script(c, m)) BY <2>1 DEF Take, Loops, Waiting
  <2> QED BY <2>2, <2>3, ScriptTyped DEF Turn
<1> QED BY <1>1, <1>2, <1>3

\* ... like what a broadcast does ...
LEMMA BroadcastTurns ==
    ASSUME TypeOK, NEW b \in Casts, Broadcast(b)
    PROVE  (\E s : Turn(b, s)) \/ UNCHANGED <<todo, queue>>
<1>1. b \in Tasks BY DEF Tasks
<1>2. << >> \in Seq(Steps(b)) OBVIOUS
<1>3. Do("hold", None) \in Steps(b) BY OpsOf DEF Do, Steps, Fails
<1>4. CASE Begin(b)
  <2>1. Doing(b, "begin") /\ Goto(b, <<Do("hold", None)>>) BY <1>4 DEF Begin
  <2>2. ~Waiting(b) BY <2>1 DEF Doing, Waiting, LockOps, ReadOps, WriteOps
  <2>3. <<Do("hold", None)>> \in Seq(Steps(b)) BY <1>3, Tuples
  <2> QED BY <2>1, <2>2, <2>3 DEF Turn
<1>5. CASE Hold(b)
  <2>1. Granted(b, "hold") /\ Goto(b, << >>) BY <1>5 DEF Hold
  <2> QED BY <1>1, <1>2, <2>1, GrantedFacts DEF Turn
<1>6. CASE Release(b) BY <1>6 DEF Release
<1>7. CASE \E c \in Clients : Reach(b, c)
  <2>1. PICK c \in Clients : Reach(b, c) BY <1>7
  <2>2. ~Waiting(b) /\ Goto(b, <<Try("send", c, "go on")>>) BY <2>1 DEF Reach, Waiting
  <2>3. Try("send", c, "go on") \in Steps(b) BY <1>1, StepsIn, OpsOf
  <2>4. <<Try("send", c, "go on")>> \in Seq(Steps(b)) BY <2>3, Tuples
  <2> QED BY <2>2, <2>4 DEF Turn
<1> QED BY <1>4, <1>5, <1>6, <1>7 DEF Broadcast

\* ... and what the heartbeat task does.
LEMMA HeartbeatTurns ==
    ASSUME TypeOK, Heartbeat
    PROVE  (\E s : Turn(Heart, s)) \/ UNCHANGED <<todo, queue>>
<1>1. Heart \in Tasks BY DEF Tasks
<1>2. << >> \in Seq(Steps(Heart)) OBVIOUS
<1>3. CASE Tick
  <2>1. ~Waiting(Heart) /\ Goto(Heart, <<Do("snapshot", None)>>) BY <1>3 DEF Tick, Idle, Waiting
  <2>2. Do("snapshot", None) \in Steps(Heart) BY OpsOf DEF Do, Steps, Fails
  <2>3. <<Do("snapshot", None)>> \in Seq(Steps(Heart)) BY <2>2, Tuples
  <2> QED BY <2>1, <2>3 DEF Turn
<1>4. CASE Snapshot
  <2>1. Granted(Heart, "snapshot") /\ Goto(Heart, << >>) BY <1>4 DEF Snapshot
  <2> QED BY <1>1, <1>2, <2>1, GrantedFacts DEF Turn
<1>5. CASE Sweep \/ Rest BY <1>5 DEF Sweep, Rest, locks
<1>6. CASE \E c \in Clients : Serve("visits", c, Visit(c)) \/ Serve("sweep", c, Remind(c))
  <2>1. PICK c \in Clients : Serve("visits", c, Visit(c)) \/ Serve("sweep", c, Remind(c))
    BY <1>6
  <2>2. ~Waiting(Heart) /\ (Goto(Heart, Visit(c)) \/ Goto(Heart, Remind(c)))
    BY <2>1 DEF Serve, Idle, Waiting
  <2>3. \A op \in {"send", "touch", "find", "settle"} :
           /\ Try(op, c, "expel") \in Steps(Heart) /\ Try(op, c, "forget") \in Steps(Heart)
           /\ Try(op, c, "go on") \in Steps(Heart) /\ Do(op, c) \in Steps(Heart)
    BY <1>1, StepsIn, OpsOf
  <2>4. Visit(c) \in Seq(Steps(Heart)) /\ Remind(c) \in Seq(Steps(Heart))
    BY <2>3, Tuples DEF Visit, Remind
  <2> QED BY <2>2, <2>4 DEF Turn
<1> QED BY <1>3, <1>4, <1>5, <1>6 DEF Heartbeat

\* Every step is the turn of one task, starts a broadcast, or leaves the scripts
\* and the queue alone.
LEMMA StepIsTurn ==
    ASSUME TypeOK, [Next]_vars
    PROVE  \/ \E t \in Tasks : \E s : Turn(t, s)
           \/ \E c \in Clients : Spawn(c)
           \/ UNCHANGED <<todo, queue>>
<1>1. CASE \E t \in Tasks : Runs(t) \/ Sends(t)
  <2>1. PICK t \in Tasks : Runs(t) \/ Sends(t) BY <1>1
  <2>2. CASE Handle(t) \/ Send(t) BY <2>2, HandleTurns
  <2>3. CASE t \in Clients /\ Session(t) BY <2>3, SessionTurns DEF Session, Break
  <2>4. CASE t \in Casts /\ Broadcast(t) BY <2>4, BroadcastTurns
  <2>5. CASE t = Heart /\ Heartbeat BY <2>5, HeartbeatTurns
  <2> QED BY <2>1, <2>2, <2>3, <2>4, <2>5 DEF Runs, Sends
<1>2. CASE \E c \in Clients : HalfClose(c) \/ \E m \in unsent[c] : Take(c, m)
  BY <1>2, SessionTurns DEF Tasks, HalfClose
<1>3. CASE \E c \in Clients : Open(c) \/ Read(c) \/ Leave(c) \/ Expire(c) \/ Lapse(c)
  BY <1>3 DEF Open, Read, Leave, Expire, Lapse, Upset, locks
<1>4. CASE Signal \/ Stop BY <1>4 DEF Signal, Stop, Upset, locks
<1>5. CASE UNCHANGED vars BY <1>5 DEF vars, locks
<1> QED BY <1>1, <1>2, <1>3, <1>4, <1>5 DEF Next, Environment

-----------------------------------------------------------------------------
(* Type correctness.                                                       *)

ScriptsTyped ==
    /\ DOMAIN todo = Tasks
    /\ \A t \in Tasks : todo[t] \in Seq(Steps(t))
    /\ queue \in Seq(Tasks)

\* A turn leaves every task with a script of its own.
LEMMA ScriptsStayTyped ==
    ASSUME TypeOK, [Next]_vars
    PROVE  ScriptsTyped'
<1>1. CASE \E t \in Tasks : \E s : Turn(t, s)
  <2>1. PICK t \in Tasks : \E s : Turn(t, s) BY <1>1
  <2>2. PICK s : Turn(t, s) BY <2>1
  <2> QED BY <2>2, GotoTyped DEF Turn, ScriptsTyped
<1>2. CASE \E c \in Clients : Spawn(c)
  <2>1. PICK c \in Clients : Spawn(c) BY <1>2
  <2>2. FreshTask \in Casts BY <2>1 DEF Spawn, FreshTask
  <2>3. Do("begin", None) \in Steps(FreshTask) BY <2>2, OpsOf DEF Do, Steps, Fails
  <2>4. <<Do("begin", None)>> \in Seq(Steps(FreshTask)) BY <2>3, Tuples
  <2>5. << >> \in Seq(Steps(c)) OBVIOUS
  <2>6. todo' = [todo EXCEPT ![c] = << >>, ![FreshTask] = <<Do("begin", None)>>]
    BY <2>1 DEF Spawn
  <2>7. queue' = queue BY <2>1 DEF Spawn, locks
  <2>8. DOMAIN todo' = Tasks BY <2>6 DEF TypeOK
  <2>9. ASSUME NEW u \in Tasks PROVE todo'[u] \in Seq(Steps(u))
    <3>1. CASE u = FreshTask BY <2>4, <2>6, <3>1 DEF TypeOK
    <3>2. CASE u # FreshTask /\ u = c BY <2>5, <2>6, <3>2 DEF TypeOK
    <3>3. CASE u # FreshTask /\ u # c BY <2>6, <3>3 DEF TypeOK
    <3> QED BY <3>1, <3>2, <3>3
  <2> QED BY <2>7, <2>8, <2>9 DEF ScriptsTyped, TypeOK
<1>3. CASE UNCHANGED <<todo, queue>> BY <1>3 DEF ScriptsTyped, TypeOK
<1> QED BY <1>1, <1>2, <1>3, StepIsTurn

TablesTyped ==
    /\ connected_clients \subseteq Clients
    /\ expired \subseteq connected_clients
    /\ ongoing \subseteq Clients
    /\ overdue \subseteq ongoing
    /\ buffer \in [Clients -> 0..Capacity]
    /\ rx \subseteq Clients
    /\ told \subseteq Clients

RestTyped ==
    /\ holders \subseteq Casts
    /\ remaining \in [{Heart} \cup Casts -> SUBSET Clients]
    /\ round \in {"rest", "visits", "sweep"}
    /\ at \in [Clients -> Phases]
    /\ unsent \in [Clients -> SUBSET Message]
    /\ upsets \subseteq Upsets
    /\ shutdown \in BOOLEAN
    /\ stopped \in BOOLEAN

\* The type invariant, taken apart.
LEMMA TypeParts == TypeOK <=> ScriptsTyped /\ TablesTyped /\ RestTyped
BY DEF TypeOK, ScriptsTyped, TablesTyped, RestTyped

\* The tables are filled with clients and their requests.
LEMMA TablesStayTyped ==
    ASSUME TypeOK, [Next]_vars
    PROVE  TablesTyped'
<1> USE CapacityPositive
<1>1. CASE \E t \in Tasks : Handle(t) \/ Send(t)
  <2>1. PICK t \in Tasks : Handle(t) \/ Send(t) BY <1>1
  <2>2. CASE Touch(t) BY <2>2 DEF Touch, TablesTyped, TypeOK, clients
  <2>3. CASE Find(t) \/ Vacant(t) \/ Known(t)
    BY <2>3 DEF Find, Vacant, Known, TablesTyped, TypeOK, tables, clients
  <2>4. CASE Insert(t)
    <3>1. Subject(t) \in Clients BY <2>4, GrantedFacts DEF Insert
    <3> QED BY <2>4, <3>1 DEF Insert, TablesTyped, TypeOK, clients
  <2>5. CASE Remove(t) BY <2>5 DEF Remove, TablesTyped, TypeOK, clients
  <2>6. CASE Record(t)
    <3>1. Subject(t) \in Clients BY <2>6, DoingFacts DEF Record
    <3> QED BY <2>6, <3>1 DEF Record, TablesTyped, TypeOK, clients
  <2>7. CASE Settle(t) BY <2>7 DEF Settle, TablesTyped, TypeOK, clients
  <2>8. CASE Send(t)
    <3> DEFINE c == Subject(t)
    <3>1. c \in Clients BY <2>8, DoingFacts DEF Send
    <3>2. c \in rx => buffer[c] # Capacity BY <2>8 DEF Send, Stuck, Full
    <3>3. buffer' = buffer \/ (c \in rx /\ buffer' = [buffer EXCEPT ![c] = @ + 1])
      BY <2>8 DEF Send
    <3>4. buffer[c] \in 0..Capacity BY <3>1 DEF TypeOK
    <3>5. c \in rx => buffer[c] + 1 \in 0..Capacity BY <3>2, <3>4
    <3>6. buffer' \in [Clients -> 0..Capacity] BY <3>1, <3>3, <3>5 DEF TypeOK
    <3>7. told' \subseteq Clients BY <2>8, <3>1 DEF Send, TypeOK
    <3> QED BY <2>8, <3>6, <3>7 DEF Send, TablesTyped, TypeOK, tables
  <2> QED BY <2>1, <2>2, <2>3, <2>4, <2>5, <2>6, <2>7, <2>8 DEF Handle
<1>2. CASE \E c \in Clients : Session(c) \/ HalfClose(c) \/ \E m \in unsent[c] : Take(c, m)
  BY <1>2 DEF Session, Take, Break, HalfClose, LeaveLoop, Return, Spawn, TablesTyped, TypeOK, tables, clients
<1>3. CASE \E b \in Casts : Broadcast(b)
  BY <1>3 DEF Broadcast, Begin, Hold, Reach, Release, TablesTyped, TypeOK, tables, clients
<1>4. CASE Heartbeat
  BY <1>4 DEF Heartbeat, Tick, Snapshot, Serve, Sweep, Rest, TablesTyped, TypeOK, tables, clients
<1>5. CASE \E c \in Clients : Open(c) \/ Read(c) \/ Leave(c) \/ Expire(c) \/ Lapse(c)
  <2>1. PICK c \in Clients : Open(c) \/ Read(c) \/ Leave(c) \/ Expire(c) \/ Lapse(c) BY <1>5
  <2>2. CASE Open(c) BY <2>2 DEF Open, TablesTyped, TypeOK, tables
  <2>3. CASE Read(c) BY <2>3 DEF Read, TablesTyped, TypeOK, tables, clients
  <2>4. CASE Leave(c) BY <2>4 DEF Leave, TablesTyped, TypeOK, tables
  <2>5. CASE Expire(c) BY <2>5 DEF Expire, Upset, TablesTyped, TypeOK, clients
  <2>6. CASE Lapse(c) BY <2>6 DEF Lapse, Upset, TablesTyped, TypeOK, clients
  <2> QED BY <2>1, <2>2, <2>3, <2>4, <2>5, <2>6
<1>6. CASE Signal \/ Stop
  BY <1>6 DEF Signal, Stop, Upset, TablesTyped, TypeOK, tables, clients
<1>7. CASE UNCHANGED vars BY <1>7 DEF vars, tables, clients, TablesTyped, TypeOK
<1> QED BY <1>1, <1>2, <1>3, <1>4, <1>5, <1>6, <1>7
        DEF Next, Runs, Sends, Environment

\* The other variables keep their types, and no channel overflows.
LEMMA RestStaysTyped ==
    ASSUME TypeOK, [Next]_vars
    PROVE  RestTyped'
<1> USE TasksApart DEF Phases
<1>1. CASE \E t \in Tasks : Handle(t) \/ Send(t)
  BY <1>1 DEF Handle, Touch, Find, Vacant, Insert, Remove, Send, Known, Record, Settle,
              RestTyped, TypeOK, heartbeat, clients, server
<1>2. CASE \E c \in Clients : Session(c) \/ HalfClose(c) \/ \E m \in unsent[c] : Take(c, m)
  <2>1. PICK c \in Clients : Session(c) \/ HalfClose(c) \/ \E m \in unsent[c] : Take(c, m) BY <1>2
  <2>2. CASE LeaveLoop(c) BY <2>2 DEF LeaveLoop, RestTyped, TypeOK, heartbeat, clients, server
  <2>3. CASE Return(c) BY <2>3 DEF Return, RestTyped, TypeOK, locks, heartbeat, clients, server
  <2>4. CASE Spawn(c) BY <2>4 DEF Spawn, RestTyped, TypeOK, locks, heartbeat, clients, server
  <2>5. CASE \E m \in unsent[c] : Take(c, m)
    BY <2>5 DEF Take, RestTyped, TypeOK, heartbeat, server
  <2> QED BY <2>1, <2>2, <2>3, <2>4, <2>5 DEF Session, Break, HalfClose
<1>3. CASE \E b \in Casts : Broadcast(b)
  <2>1. PICK b \in Casts : Broadcast(b) BY <1>3
  <2>2. CASE Begin(b) BY <2>2 DEF Begin, RestTyped, TypeOK, heartbeat, clients, server
  <2>3. CASE Hold(b) BY <2>3 DEF Hold, RestTyped, TypeOK, clients, server
  <2>4. CASE Release(b) BY <2>4 DEF Release, RestTyped, TypeOK, heartbeat, clients, server
  <2>5. CASE \E c \in Clients : Reach(b, c)
    <3>1. PICK c \in Clients : Reach(b, c) BY <2>5
    <3>2. remaining' = [remaining EXCEPT ![b] = @ \ {c}] BY <3>1 DEF Reach
    <3>3. remaining' \in [{Heart} \cup Casts -> SUBSET Clients] BY <3>2 DEF TypeOK
    <3> QED BY <3>1, <3>3 DEF Reach, RestTyped, TypeOK, clients, server
  <2> QED BY <2>1, <2>2, <2>3, <2>4, <2>5 DEF Broadcast
<1>4. CASE Heartbeat
  <2>1. CASE Tick BY <2>1 DEF Tick, RestTyped, TypeOK, clients, server
  <2>2. CASE Snapshot BY <2>2 DEF Snapshot, RestTyped, TypeOK, clients, server
  <2>3. CASE Sweep BY <2>3 DEF Sweep, RestTyped, TypeOK, locks, clients, server
  <2>4. CASE Rest BY <2>4 DEF Rest, RestTyped, TypeOK, locks, clients, server
  <2>5. CASE \E c \in Clients : \E r, s : Serve(r, c, s)
    BY <2>5 DEF Serve, RestTyped, TypeOK, clients, server
  <2> QED BY <1>4, <2>1, <2>2, <2>3, <2>4, <2>5 DEF Heartbeat
<1>5. CASE \E c \in Clients : Open(c) \/ Read(c) \/ Leave(c) \/ Expire(c) \/ Lapse(c)
  BY <1>5 DEF Open, Read, Leave, Expire, Lapse, Upset, RestTyped, TypeOK, locks, heartbeat,
              clients, server
<1>6. CASE Signal
  BY <1>6 DEF Signal, Upset, RestTyped, TypeOK, locks, heartbeat, clients
<1>7. CASE Stop
  BY <1>7 DEF Stop, RestTyped, TypeOK, locks, heartbeat, clients
<1>8. CASE UNCHANGED vars BY <1>8 DEF vars, locks, heartbeat, clients, server, RestTyped, TypeOK
<1> QED BY <1>1, <1>2, <1>3, <1>4, <1>5, <1>6, <1>7, <1>8
        DEF Next, Runs, Sends, Environment

LEMMA TypeInit == Init => TypeOK
<1> SUFFICES ASSUME Init PROVE TypeOK OBVIOUS
<1>1. PICK p \in Plans : /\ connected_clients = p.connected
                         /\ rx = p.connected
                         /\ at = [c \in Clients |-> IF c \in p.connected THEN "named" ELSE "none"]
                         /\ unsent = p.sends
                         /\ upsets = p.upsets
  BY DEF Init
<1>2. p \in Plan BY PlansTyped
<1>3. ScriptsTyped BY DEF Init, ScriptsTyped
<1>4. TablesTyped BY <1>1, <1>2, CapacityPositive DEF Init, TablesTyped, Plan
<1>5. RestTyped BY <1>1, <1>2 DEF Init, RestTyped, Plan, Phases
<1> QED BY <1>3, <1>4, <1>5, TypeParts

\* No step breaks a type.
LEMMA TypeStep == TypeOK /\ [Next]_vars => TypeOK'
<1> SUFFICES ASSUME TypeOK, [Next]_vars PROVE TypeOK' OBVIOUS
<1>1. ScriptsTyped' /\ TablesTyped' /\ RestTyped'
  BY ScriptsStayTyped, TablesStayTyped, RestStaysTyped
<1> QED BY <1>1 DEF TypeOK, ScriptsTyped, TablesTyped, RestTyped

\* Every variable keeps to its range, every script to the steps of its task, and
\* no channel holds more than it can.
THEOREM TypeCorrect == Spec => []TypeOK
<1> QED BY TypeInit, TypeStep, PTL DEF Spec

-----------------------------------------------------------------------------
(* The lock.                                                               *)

\* A queue that loses its head still has each of the others once.
LEMMA TailOnce ==
    ASSUME NEW S, NEW q \in Seq(S), q # << >>,
           \A i, j \in DOMAIN q : q[i] = q[j] => i = j
    PROVE  /\ \A i, j \in DOMAIN Tail(q) : Tail(q)[i] = Tail(q)[j] => i = j
           /\ \A u : (\E i \in DOMAIN Tail(q) : Tail(q)[i] = u) <=>
                      (u # Head(q) /\ \E i \in DOMAIN q : q[i] = u)
<1>1. /\ Len(q) \in Nat \ {0} /\ DOMAIN q = 1..Len(q) /\ Head(q) = q[1]
      /\ Tail(q) \in Seq(S) /\ Len(Tail(q)) = Len(q) - 1
      /\ DOMAIN Tail(q) = 1..(Len(q) - 1)
      /\ \A i \in 1..(Len(q) - 1) : Tail(q)[i] = q[i + 1] /\ i + 1 \in DOMAIN q
  BY HeadTailProperties
<1>2. \A i, j \in DOMAIN Tail(q) : Tail(q)[i] = Tail(q)[j] => i = j
  BY <1>1
<1>3. ASSUME NEW u, NEW i \in DOMAIN Tail(q), Tail(q)[i] = u
      PROVE  u # Head(q) /\ \E k \in DOMAIN q : q[k] = u
  <2>1. q[i + 1] = u /\ i + 1 \in DOMAIN q /\ 1 \in DOMAIN q /\ i + 1 # 1 BY <1>1, <1>3
  <2> QED BY <1>1, <2>1
<1>4. ASSUME NEW u, u # Head(q), NEW i \in DOMAIN q, q[i] = u
      PROVE  \E k \in DOMAIN Tail(q) : Tail(q)[k] = u
  <2>1. i - 1 \in 1..(Len(q) - 1) BY <1>1, <1>4
  <2>2. Tail(q)[i - 1] = u
    <3>1. (i - 1) + 1 = i BY <1>1
    <3> QED BY <1>1, <1>4, <2>1, <3>1
  <2> QED BY <1>1, <2>1, <2>2
<1> QED BY <1>2, <1>3, <1>4

\* A task that joins a queue stands in it once.
LEMMA AppendOnce ==
    ASSUME NEW S, NEW q \in Seq(S), NEW t \in S,
           \A i, j \in DOMAIN q : q[i] = q[j] => i = j,
           ~\E i \in DOMAIN q : q[i] = t
    PROVE  /\ \A i, j \in DOMAIN Append(q, t) : Append(q, t)[i] = Append(q, t)[j] => i = j
           /\ \A u : (\E i \in DOMAIN Append(q, t) : Append(q, t)[i] = u) <=>
                      (u = t \/ \E i \in DOMAIN q : q[i] = u)
<1>1. /\ Len(q) \in Nat /\ DOMAIN q = 1..Len(q)
      /\ DOMAIN Append(q, t) = 1..(Len(q) + 1)
      /\ Append(q, t)[Len(q) + 1] = t
      /\ \A i \in 1..Len(q) : Append(q, t)[i] = q[i]
  BY AppendProperties
<1>2. \A i \in 1..(Len(q) + 1) : i \in DOMAIN q \/ i = Len(q) + 1 BY <1>1
<1> QED BY <1>1, <1>2

\* A task that goes on leaves the queue from its head, and joins it at its end.
LEMMA TurnKeepsQueue ==
    ASSUME TypeOK, QueueExact, NEW t \in Tasks, NEW s, Turn(t, s)
    PROVE  QueueExact'
<1> DEFINE behind == IF Waiting(t) THEN Tail(queue) ELSE queue
           asks == s # << >> /\ Head(s).op \in LockOps
           In(q, u) == \E i \in DOMAIN q : q[i] = u
           Once(q) == \A i, j \in DOMAIN q : q[i] = q[j] => i = j
<1>1. queue \in Seq(Tasks) BY DEF TypeOK
<1>2. /\ todo'[t] = s /\ \A u \in Tasks \ {t} : todo'[u] = todo[u]
      /\ queue' = IF asks THEN Append(behind, t) ELSE behind
  <2>1. todo'[t] = s /\ \A u \in Tasks \ {t} : todo'[u] = todo[u]
    BY GotoTyped DEF Turn
  <2>2. queue' = IF asks THEN Append(behind, t) ELSE behind BY DEF Turn, Goto
  <2> QED BY <2>1, <2>2
<1>3. Once(queue) /\ \A u \in Tasks : Waiting(u) <=> In(queue, u)
  BY DEF QueueExact, InQueue
<1>4. /\ behind \in Seq(Tasks) /\ Once(behind)
      /\ \A u \in Tasks : In(behind, u) <=> (u # t /\ Waiting(u))
  <2>1. CASE Waiting(t)
    <3>1. queue # << >> /\ Head(queue) = t BY <2>1 DEF Turn
    <3>2. behind = Tail(queue) /\ Tail(queue) \in Seq(Tasks) BY <1>1, <2>1, <3>1
    <3>3. Once(Tail(queue)) BY <1>1, <1>3, <3>1, TailOnce
    <3>4. \A u : In(Tail(queue), u) <=> (u # t /\ In(queue, u)) BY <1>1, <1>3, <3>1, TailOnce
    <3> HIDE DEF behind, In, Once
    <3> QED BY <1>3, <3>2, <3>3, <3>4
  <2>2. CASE ~Waiting(t) BY <1>1, <1>3, <2>2
  <2> QED BY <2>1, <2>2
<1>5. /\ Once(queue')
      /\ \A u \in Tasks : In(queue', u) <=> (u # t /\ Waiting(u)) \/ (u = t /\ asks)
  <2>1. CASE asks
    <3>1. queue' = Append(behind, t) BY <1>2, <2>1
    <3>2. ~In(behind, t) BY <1>4
    <3> HIDE DEF behind
    <3>3. Once(Append(behind, t)) BY <1>4, <3>2, AppendOnce
    <3>4. \A u : In(Append(behind, t), u) <=> (u = t \/ In(behind, u)) BY <1>4, <3>2, AppendOnce
    <3> HIDE DEF In, Once
    <3> QED BY <1>4, <2>1, <3>1, <3>3, <3>4
  <2>2. CASE ~asks BY <1>2, <1>4, <2>2
  <2> QED BY <2>1, <2>2
<1>6. \A u \in Tasks : Waiting(u)' <=> (u # t /\ Waiting(u)) \/ (u = t /\ asks)
  BY <1>2 DEF Waiting
<1> QED BY <1>5, <1>6 DEF QueueExact, InQueue

\* The queue goes on holding exactly the tasks that wait.
LEMMA QueueStep ==
    ASSUME TypeOK, QueueExact, [Next]_vars
    PROVE  QueueExact'
<1>1. CASE \E t \in Tasks : \E s : Turn(t, s)
  <2>1. PICK t \in Tasks : \E s : Turn(t, s) BY <1>1
  <2>2. PICK s : Turn(t, s) BY <2>1
  <2> QED BY <2>2, TurnKeepsQueue
<1>2. CASE \E c \in Clients : Spawn(c)
  <2>1. PICK c \in Clients : Spawn(c) BY <1>2
  <2>2. PICK f \in Casts : f = FreshTask /\ Unused(f) BY <2>1 DEF Spawn, FreshTask
  <2>3. c \in Tasks /\ f \in Tasks /\ f # c BY <2>2, TasksApart DEF Tasks
  <2>4. todo' = [todo EXCEPT ![c] = << >>, ![f] = <<Do("begin", None)>>] /\ queue' = queue
    BY <2>1, <2>2 DEF Spawn, locks
  <2>5. ~Waiting(c) BY <2>1 DEF Spawn, Doing, Waiting, LockOps, ReadOps, WriteOps
  <2>6. ~Waiting(f) BY <2>2 DEF Unused, Waiting
  <2>7. DOMAIN todo = Tasks BY DEF TypeOK
  <2>8. /\ todo'[c] = << >> /\ todo'[f] = <<Do("begin", None)>>
        /\ \A u \in Tasks : u # c /\ u # f => todo'[u] = todo[u]
    BY <2>3, <2>4, <2>7
  <2>9. ~Waiting(c)' BY <2>8 DEF Waiting
  <2>10. ~Waiting(f)'
    <3>1. Head(<<Do("begin", None)>>) = Do("begin", None) OBVIOUS
    <3>2. Do("begin", None).op \notin LockOps BY DEF Do, LockOps, ReadOps, WriteOps
    <3> QED BY <2>8, <3>1, <3>2 DEF Waiting
  <2>11. ASSUME NEW u \in Tasks PROVE Waiting(u)' <=> Waiting(u)
    <3>1. CASE u = c BY <2>5, <2>9, <3>1 DEF Waiting
    <3>2. CASE u = f BY <2>6, <2>10, <3>2 DEF Waiting
    <3>3. CASE u # c /\ u # f BY <2>8, <3>3 DEF Waiting
    <3> QED BY <3>1, <3>2, <3>3
  <2> QED BY <2>4, <2>11 DEF QueueExact, InQueue
<1>3. CASE UNCHANGED <<todo, queue>> BY <1>3 DEF QueueExact, InQueue, Waiting
<1> QED BY <1>1, <1>2, <1>3, StepIsTurn

\* A task the broadcasts do not concern leaves them alone.
LEMMA OthersLeaveCasts ==
    ASSUME TypeOK, CastsInOrder, UNCHANGED holders,
           \A b \in Casts : todo'[b] = todo[b]
    PROVE  CastsInOrder'
BY DEF CastsInOrder

\* Of what handlers do, a broadcast does nothing but send, while it has the lock.
LEMMA CastHandles ==
    ASSUME TypeOK, CastsInOrder, NEW b \in Casts, Handle(b) \/ Send(b)
    PROVE  /\ Send(b) /\ b \in holders
           /\ Goto(b, << >>)
           /\ UNCHANGED holders
<1>1. b \in Tasks BY DEF Tasks
<1>2. todo[b] # << >> BY DEF Handle, Touch, Find, Vacant, Insert, Remove, Known, Record, Settle,
                            Send, Granted, Doing
<1>3. \A c : /\ Head(<<Try("send", c, "go on")>>) = Try("send", c, "go on")
             /\ Tail(<<Try("send", c, "go on")>>) = << >>
  OBVIOUS
<1>4. Head(<<Do("begin", None)>>) = Do("begin", None) /\ Head(<<Do("hold", None)>>) = Do("hold", None)
  OBVIOUS
<1>5. \E op \in {"touch", "find", "vacant", "insert", "remove", "known", "record", "settle", "send"} :
        Head(todo[b]).op = op
  BY DEF Handle, Touch, Find, Vacant, Insert, Remove, Known, Record, Settle, Send, Granted, Doing
<1>6. b \in holders
  <2>1. Do("begin", None).op = "begin" /\ Do("hold", None).op = "hold" BY DEF Do
  <2>2. SUFFICES ASSUME b \notin holders PROVE FALSE OBVIOUS
  <2>3. todo[b] = <<Do("begin", None)>> \/ todo[b] = <<Do("hold", None)>>
    BY <1>2, <2>2 DEF CastsInOrder
  <2>4. Head(todo[b]).op = "begin" \/ Head(todo[b]).op = "hold" BY <1>4, <2>1, <2>3
  <2> QED BY <1>5, <2>4
<1>7. PICK c \in Clients : todo[b] = <<Try("send", c, "go on")>>
  BY <1>2, <1>6 DEF CastsInOrder
<1>8. Head(todo[b]).op = "send" /\ Head(todo[b]).fail = "go on" /\ Tail(todo[b]) = << >>
  <2>1. Try("send", c, "go on").op = "send" /\ Try("send", c, "go on").fail = "go on" BY DEF Try
  <2>2. Head(todo[b]) = Try("send", c, "go on") /\ Tail(todo[b]) = << >> BY <1>3, <1>7
  <2> QED BY <2>1, <2>2
<1>9. Send(b)
  BY <1>8 DEF Handle, Touch, Find, Vacant, Insert, Remove, Known, Record, Settle, Granted, Doing
<1>10. Otherwise(b) = << >> BY <1>8 DEF Otherwise
<1> QED BY <1>6, <1>8, <1>9, <1>10 DEF Send

\* No step disturbs the order of a broadcast.
LEMMA CastsStep ==
    ASSUME TypeOK, CastsInOrder, [Next]_vars
    PROVE  CastsInOrder'
<1> DEFINE Kept == \A b \in Casts : todo'[b] = todo[b]
<1>0. DOMAIN todo = Tasks /\ Casts \subseteq Tasks BY DEF TypeOK, Tasks
<1>1. ASSUME NEW t \in Tasks \ Casts, NEW s, Goto(t, s) PROVE Kept
  BY <1>0, <1>1 DEF Goto
<1>2. CASE \E t \in Tasks \ Casts : Handle(t) \/ Send(t)
  <2>1. PICK t \in Tasks \ Casts : Handle(t) \/ Send(t) BY <1>2
  <2>2. \E s : Goto(t, s) BY <2>1, HandleTurns DEF Turn
  <2>3. UNCHANGED holders
    BY <2>1 DEF Handle, Touch, Find, Vacant, Insert, Remove, Known, Record, Settle, Send
  <2> QED BY <1>1, <2>2, <2>3, OthersLeaveCasts
<1>3. CASE \E b \in Casts : Handle(b) \/ Send(b)
  <2>1. PICK b \in Casts : Handle(b) \/ Send(b) BY <1>3
  <2>2. b \in holders /\ todo' = [todo EXCEPT ![b] = << >>] /\ UNCHANGED holders
    BY <2>1, CastHandles DEF Goto
  <2> QED BY <1>0, <2>2 DEF CastsInOrder
<1>4. CASE \E c \in Clients : LeaveLoop(c) \/ Return(c) \/ \E m \in unsent[c] : Take(c, m)
  <2>1. PICK c \in Clients : LeaveLoop(c) \/ Return(c) \/ \E m \in unsent[c] : Take(c, m) BY <1>4
  <2>2. c \in Tasks \ Casts BY TasksApart DEF Tasks
  <2>3. (\E s : Goto(c, s)) \/ UNCHANGED todo BY <2>1 DEF LeaveLoop, Return, Take
  <2>4. UNCHANGED holders BY <2>1 DEF LeaveLoop, Return, Take, locks
  <2> QED BY <1>1, <2>2, <2>3, <2>4, OthersLeaveCasts
<1>5. CASE \E c \in Clients : Spawn(c)
  <2>1. PICK c \in Clients : Spawn(c) BY <1>5
  <2>2. PICK f \in Casts : f = FreshTask /\ Unused(f) BY <2>1 DEF Spawn, FreshTask
  <2>3. todo' = [todo EXCEPT ![c] = << >>, ![f] = <<Do("begin", None)>>] /\ UNCHANGED holders
    BY <2>1, <2>2 DEF Spawn, locks
  <2>4. c \notin Casts /\ f \notin holders BY <2>2, TasksApart DEF Unused
  <2>5. todo'[f] = <<Do("begin", None)>> /\ \A b \in Casts \ {f} : todo'[b] = todo[b]
    BY <1>0, <2>3, <2>4
  <2> QED BY <2>3, <2>4, <2>5 DEF CastsInOrder
<1>6. CASE \E b \in Casts : Broadcast(b)
  <2>1. PICK b \in Casts : Broadcast(b) BY <1>6
  <2>2. ASSUME NEW s, Goto(b, s) PROVE todo'[b] = s /\ \A d \in Casts \ {b} : todo'[d] = todo[d]
    BY <1>0, <2>2 DEF Goto
  <2>3. CASE Begin(b)
    <3>1. Doing(b, "begin") /\ Goto(b, <<Do("hold", None)>>) /\ UNCHANGED holders
      BY <2>3 DEF Begin
    <3>2. b \notin holders
      <4>1. \A c : Try("send", c, "go on").op = "send" BY DEF Try
      <4>2. \A c : Head(<<Try("send", c, "go on")>>) = Try("send", c, "go on") OBVIOUS
      <4> QED BY <3>1, <4>1, <4>2 DEF Doing, CastsInOrder
    <3> QED BY <2>2, <3>1, <3>2 DEF CastsInOrder
  <2>4. CASE Hold(b)
    <3>1. Goto(b, << >>) /\ holders' = holders \cup {b} BY <2>4 DEF Hold
    <3> QED BY <2>2, <3>1 DEF CastsInOrder
  <2>5. CASE Release(b)
    BY <2>5 DEF Release, CastsInOrder
  <2>6. CASE \E c \in Clients : Reach(b, c)
    <3>1. PICK c \in Clients : Reach(b, c) BY <2>6
    <3>2. b \in holders /\ UNCHANGED holders /\ Goto(b, <<Try("send", c, "go on")>>)
      BY <3>1 DEF Reach
    <3> QED BY <2>2, <3>2 DEF CastsInOrder
  <2> QED BY <2>1, <2>3, <2>4, <2>5, <2>6 DEF Broadcast
<1>7. CASE Heartbeat
  <2>1. Heart \in Tasks \ Casts BY TasksApart DEF Tasks
  <2>2. (\E s : Goto(Heart, s)) \/ UNCHANGED todo
    BY <1>7 DEF Heartbeat, Tick, Snapshot, Serve, Sweep, Rest
  <2>3. UNCHANGED holders
    BY <1>7 DEF Heartbeat, Tick, Snapshot, Serve, Sweep, Rest, locks
  <2> QED BY <1>1, <2>1, <2>2, <2>3, OthersLeaveCasts
<1>8. CASE \E c \in Clients : Open(c) \/ Read(c) \/ Leave(c) \/ Expire(c) \/ Lapse(c)
  BY <1>8 DEF Open, Read, Leave, Expire, Lapse, Upset, locks, CastsInOrder
<1>9. CASE Signal \/ Stop BY <1>9 DEF Signal, Stop, Upset, locks, CastsInOrder
<1>10. CASE UNCHANGED vars BY <1>10 DEF vars, locks, CastsInOrder
<1> QED BY <1>2, <1>3, <1>4, <1>5, <1>6, <1>7, <1>8, <1>9, <1>10
        DEF Next, Runs, Sends, Session, Break, HalfClose, Environment

-----------------------------------------------------------------------------
(* Nobody but a client is waited for.                                      *)

\* Every operation takes the lock, sends or is local.
LEMMA OpsCovered ==
    \A t \in Tasks : Ops(t) \subseteq LockOps \cup LocalOps \cup {"send"}
<1>1. \A t \in Clients : Ops(t) \subseteq LockOps \cup LocalOps \cup {"send"}
  BY OpsOf DEF LockOps, ReadOps, WriteOps, LocalOps
<1>2. \A t \in Casts : Ops(t) \subseteq LockOps \cup LocalOps \cup {"send"}
  BY OpsOf DEF LockOps, ReadOps, WriteOps, LocalOps
<1>3. Ops(Heart) \subseteq LockOps \cup LocalOps \cup {"send"}
  BY OpsOf DEF LockOps, ReadOps, WriteOps, LocalOps
<1> QED BY <1>1, <1>2, <1>3 DEF Tasks

\* If the head of the queue cannot go on, a broadcast holds the lock and can, or
\* waits for a client.
LEMMA SomebodyMoves == TypeOK /\ QueueExact /\ CastsInOrder => WaitsOnlyForClients
<1> SUFFICES ASSUME TypeOK, QueueExact, CastsInOrder,
                    NEW t \in Tasks, todo[t] # << >> \/ t \in holders
             PROVE  \E u \in Tasks : CanGoOn(u) \/ Stuck(u)
  BY DEF WaitsOnlyForClients
<1>1. ASSUME NEW u \in Tasks, Doing(u, "send") PROVE CanGoOn(u) \/ Stuck(u)
  BY <1>1 DEF CanGoOn
<1>2. CASE holders # {}
  <2>1. PICK b \in Casts : b \in holders BY <1>2 DEF TypeOK
  <2>2. b \in Tasks BY DEF Tasks
  <2>3. CASE todo[b] = << >> BY <2>1, <2>2, <2>3 DEF CanGoOn
  <2>4. CASE todo[b] # << >>
    <3>1. PICK c \in Clients : todo[b] = <<Try("send", c, "go on")>>
      BY <2>1, <2>4 DEF CastsInOrder
    <3>2. Head(<<Try("send", c, "go on")>>) = Try("send", c, "go on") OBVIOUS
    <3>3. Try("send", c, "go on").op = "send" BY DEF Try
    <3>4. Doing(b, "send") BY <2>4, <3>1, <3>2, <3>3 DEF Doing
    <3> QED BY <1>1, <2>2, <3>4
  <2> QED BY <2>3, <2>4
<1>3. ASSUME holders = {}, NEW u \in Tasks, Waiting(u)
      PROVE  \E v \in Tasks : CanGoOn(v)
  <2>1. queue \in Seq(Tasks) /\ queue # << >>
    BY <1>3 DEF QueueExact, InQueue, TypeOK
  <2>2. Head(queue) \in Tasks /\ 1 \in DOMAIN queue /\ queue[1] = Head(queue)
    BY <2>1
  <2>3. Waiting(Head(queue)) BY <2>2 DEF QueueExact, InQueue
  <2>4. CanLock(Head(queue)) BY <1>3, <2>1, <2>3 DEF CanLock, Granted, Doing, Waiting
  <2> QED BY <2>2, <2>4 DEF CanGoOn
<1>4. CASE holders = {}
  <2>1. todo[t] # << >> BY <1>4
  <2>2. Head(todo[t]) \in Steps(t) BY <2>1, OtherwiseTyped DEF TypeOK
  <2>3. Head(todo[t]).op \in Ops(t) BY <2>2 DEF Steps
  <2>4. Head(todo[t]).op \in LockOps \cup LocalOps \cup {"send"} BY <2>3, OpsCovered
  <2>5. CASE Head(todo[t]).op \in LockOps BY <1>3, <1>4, <2>1, <2>5 DEF Waiting
  <2>6. CASE Head(todo[t]).op \in LocalOps \ {"spawn"}
    BY <2>1, <2>6 DEF CanGoOn, Doing
  <2>7. CASE Head(todo[t]).op = "send"
    BY <1>1, <2>1, <2>7 DEF Doing
  <2>8. CASE Head(todo[t]).op = "spawn" /\ \E b \in Casts : Unused(b)
    BY <2>1, <2>8 DEF CanGoOn, Doing
  <2>9. CASE ~\E b \in Casts : Unused(b)
    <3>1. PICK b \in Casts : todo[b] # << >> BY <1>4, <2>9, CastsExist DEF Unused
    <3>2. b \in Tasks BY DEF Tasks
    <3>3. todo[b] = <<Do("begin", None)>> \/ todo[b] = <<Do("hold", None)>>
      BY <1>4, <3>1 DEF CastsInOrder
    <3>4. /\ Head(<<Do("begin", None)>>) = Do("begin", None)
          /\ Head(<<Do("hold", None)>>) = Do("hold", None)
      OBVIOUS
    <3>5. Do("begin", None).op = "begin" /\ Do("hold", None).op = "hold" BY DEF Do
    <3>6. CASE todo[b] = <<Do("begin", None)>>
      <4>1. Doing(b, "begin") BY <3>1, <3>4, <3>5, <3>6 DEF Doing
      <4>2. "begin" \in LocalOps \ {"spawn"} BY DEF LocalOps
      <4> QED BY <3>2, <4>1, <4>2 DEF CanGoOn
    <3>7. CASE todo[b] = <<Do("hold", None)>>
      <4>1. Waiting(b) BY <3>1, <3>4, <3>5, <3>7 DEF Waiting, LockOps, ReadOps
      <4> QED BY <1>3, <1>4, <3>2, <4>1
    <3> QED BY <3>3, <3>6, <3>7
  <2> QED BY <2>4, <2>5, <2>6, <2>7, <2>8, <2>9
<1> QED BY <1>2, <1>4

LEMMA LockInit == Init => QueueExact /\ CastsInOrder
BY DEF Init, QueueExact, InQueue, Waiting, CastsInOrder, Tasks

\* The broker never waits for itself: while anything is under way, some task can
\* go on, or waits for room in the channel of a client that does not read.
THEOREM NoSelfDeadlock == Spec => []WaitsOnlyForClients
<1> DEFINE IInv == TypeOK /\ QueueExact /\ CastsInOrder
<1>1. Init => IInv BY TypeInit, LockInit
<1>2. IInv /\ [Next]_vars => IInv' BY TypeStep, QueueStep, CastsStep
<1>3. IInv => WaitsOnlyForClients BY SomebodyMoves
<1> QED BY <1>1, <1>2, <1>3, PTL DEF Spec

-----------------------------------------------------------------------------
(* Who is removed, and by whom.                                            *)

\* A session once opened stays opened, a receiver once gone stays gone, and a
\* session that closes does so until its script is done.
LEMMA SessionsGoOn ==
    ASSUME TypeOK, [Next]_vars, NEW c \in Clients
    PROVE  /\ at[c] # "none" => at'[c] # "none"
           /\ at[c] # "none" /\ c \notin rx => c \notin rx'
           /\ at[c] = "closing" /\ todo[c] # << >> => at'[c] = "closing"
<1>1. CASE \E t \in Tasks : Handle(t) \/ Send(t)
  BY <1>1 DEF Handle, Touch, Find, Vacant, Insert, Remove, Send, Known, Record, Settle, clients
<1>2. CASE \E d \in Clients : Session(d) \/ HalfClose(d) \/ \E m \in unsent[d] : Take(d, m)
  <2>1. PICK d \in Clients : Session(d) \/ HalfClose(d) \/ \E m \in unsent[d] : Take(d, m) BY <1>2
  <2>2. CASE LeaveLoop(d) BY <2>2 DEF LeaveLoop, Loops, TypeOK, clients
  <2>3. CASE Return(d) BY <2>3 DEF Return, TypeOK, clients
  <2>4. CASE Spawn(d) BY <2>4 DEF Spawn, clients
  <2>5. CASE \E m \in unsent[d] : Take(d, m) BY <2>5 DEF Take, Loops, TypeOK
  <2> QED BY <2>1, <2>2, <2>3, <2>4, <2>5 DEF Session, Break, HalfClose
<1>3. CASE \E b \in Casts : Broadcast(b)
  BY <1>3 DEF Broadcast, Begin, Hold, Reach, Release, clients
<1>4. CASE Heartbeat
  BY <1>4 DEF Heartbeat, Tick, Snapshot, Serve, Sweep, Rest, clients
<1>5. CASE \E d \in Clients : Open(d) \/ Read(d) \/ Leave(d) \/ Expire(d) \/ Lapse(d)
  BY <1>5 DEF Open, Read, Leave, Expire, Lapse, Upset, TypeOK, clients
<1>6. CASE Signal \/ Stop BY <1>6 DEF Signal, Stop, Upset, clients
<1>7. CASE UNCHANGED vars BY <1>7 DEF vars, clients
<1> QED BY <1>1, <1>2, <1>3, <1>4, <1>5, <1>6, <1>7 DEF Next, Runs, Sends, Environment

\* A removal that is right stays right.
LEMMA StepsStayRight ==
    ASSUME TypeOK, [Next]_vars, NEW t \in Tasks, todo[t] # << >>,
           NEW step \in Steps(t), Right(t, step)
    PROVE  Right(t, step)'
<1>1. step.op = "remove" => step.who \in Clients BY DEF Steps
<1>2. step.op = "send" => step.who \in Clients BY DEF Steps
<1>3. step.op = "remove" =>
        IF t \in Clients THEN step.who = t /\ at'[t] = "closing"
                         ELSE step.who \notin rx' /\ at'[step.who] # "none"
  BY <1>1, SessionsGoOn DEF Right, Gone
<1>4. step.fail = "expel" => step.op = "send" /\ at'[step.who] # "none"
  BY <1>2, SessionsGoOn DEF Right
<1> QED BY <1>3, <1>4 DEF Right, Gone

\* What a task goes on with after a step is as right as its script was.
LEMMA RestIsRight ==
    ASSUME TypeOK, RemovesRight, NEW t \in Tasks, todo[t] # << >>
    PROVE  /\ \A i \in DOMAIN Tail(todo[t]) : Right(t, Tail(todo[t])[i])
           /\ (Doing(t, "send") => Subject(t) \notin rx) =>
                 \A i \in DOMAIN Otherwise(t) : Right(t, Otherwise(t)[i])
<1> DEFINE step == Head(todo[t])
           rest == Tail(todo[t])
<1>1. todo[t] \in Seq(Steps(t)) /\ step \in Steps(t) BY OtherwiseTyped DEF TypeOK
<1>2. \A i \in DOMAIN todo[t] : Right(t, todo[t][i]) BY DEF RemovesRight
<1>3. \A i \in DOMAIN rest : i + 1 \in DOMAIN todo[t] /\ rest[i] = todo[t][i + 1] BY <1>1
<1>4. \A i \in DOMAIN rest : Right(t, rest[i]) BY <1>2, <1>3
<1>5. Right(t, step)
  <2>1. 1 \in DOMAIN todo[t] /\ step = todo[t][1] BY <1>1
  <2> QED BY <1>2, <2>1
<1>6. ASSUME Doing(t, "send") => Subject(t) \notin rx
      PROVE  \A i \in DOMAIN Otherwise(t) : Right(t, Otherwise(t)[i])
  <2>1. CASE step.fail = "return"
    <3>1. Otherwise(t) = << >> BY <2>1 DEF Otherwise
    <3>2. DOMAIN << >> = {} OBVIOUS
    <3> QED BY <3>1, <3>2
  <2>2. ASSUME NEW c PROVE Right(t, Do("send", c)) BY DEF Right, Do
  <2>3. CASE step.fail = "refuse" \/ step.fail = "tell"
    <3>1. \E c : Otherwise(t) = <<Do("send", c)>> BY <2>3 DEF Otherwise
    <3> QED BY <2>2, <3>1
  <2>4. CASE step.fail = "expel"
    <3> DEFINE c == step.who
    <3>1. t = Heart /\ t \notin Clients BY <1>1, <2>4, TasksApart DEF Steps
    <3>2. step.op = "send" /\ at[c] # "none" BY <1>5, <2>4 DEF Right
    <3>3. c \notin rx BY <1>6, <3>2 DEF Doing, Subject
    <3>4. Right(t, Do("touch", c)) BY DEF Right, Do
    <3>5. Right(t, Do("remove", c)) BY <3>1, <3>2, <3>3 DEF Right, Do, Gone
    <3>6. Otherwise(t) = <<Do("touch", c), Do("remove", c)>>
      BY <2>4 DEF Otherwise, Disconnect
    <3> HIDE DEF c
    <3> QED BY <3>4, <3>5, <3>6
  <2>5. CASE step.fail = "forget"
    <3>1. \E c : Otherwise(t) = <<Do("settle", c)>> BY <2>5 DEF Otherwise
    <3>2. \A c : Right(t, Do("settle", c)) BY DEF Right, Do
    <3> QED BY <3>1, <3>2
  <2>6. CASE step.fail = "go on" BY <1>4, <2>6 DEF Otherwise
  <2>7. CASE step.fail = "mute"
    <3> DEFINE muted(st) == [st EXCEPT !.fail = IF @ = "tell" THEN "return" ELSE @]
    <3>1. Otherwise(t) = [i \in DOMAIN rest |-> muted(rest[i])] BY <2>7 DEF Otherwise
    <3>2. ASSUME NEW i \in DOMAIN rest PROVE Right(t, muted(rest[i]))
      <4>1. rest[i] \in Steps(t) BY <1>1
      <4>2. /\ muted(rest[i]).op = rest[i].op /\ muted(rest[i]).who = rest[i].who
            /\ muted(rest[i]).fail = "expel" => rest[i].fail = "expel"
        BY <4>1 DEF Steps, Fails
      <4> QED BY <1>4, <4>2 DEF Right
    <3> HIDE DEF muted, rest
    <3> QED BY <3>1, <3>2
  <2>8. step.fail \in Fails BY <1>1 DEF Steps
  <2> QED BY <2>1, <2>3, <2>4, <2>5, <2>6, <2>7, <2>8 DEF Fails
<1> QED BY <1>4, <1>6

\* If a task goes on with right steps, all scripts stay right.
LEMMA TurnStaysRight ==
    ASSUME TypeOK, [Next]_vars, RemovesRight, NEW t \in Tasks, NEW s, Turn(t, s),
           \A i \in DOMAIN s : Right(t, s[i])'
    PROVE  RemovesRight'
<1>1. todo'[t] = s /\ \A u \in Tasks \ {t} : todo'[u] = todo[u] BY GotoTyped DEF Turn
<1>2. ASSUME NEW u \in Tasks \ {t}, NEW i \in DOMAIN todo[u], NEW step, step = todo[u][i]
      PROVE  Right(u, step)'
  <2>1. todo[u] \in Seq(Steps(u)) BY DEF TypeOK
  <2>2. todo[u] # << >> /\ step \in Steps(u) BY <1>2, <2>1
  <2>3. Right(u, step) BY <1>2 DEF RemovesRight
  <2> QED BY <2>2, <2>3, StepsStayRight
<1>3. ASSUME NEW u \in Tasks, NEW i \in DOMAIN todo'[u], NEW step, step = todo'[u][i]
      PROVE  Right(u, step)'
  <2>1. CASE u = t BY <1>1, <1>3, <2>1
  <2>2. CASE u # t BY <1>1, <1>2, <1>3, <2>2
  <2> QED BY <2>1, <2>2
<1> QED BY <1>3 DEF RemovesRight, Right, Gone

\* If no script changes but by steps that remove and insert nobody, neither.
LEMMA HandleStaysRight ==
    ASSUME TypeOK, [Next]_vars, RemovesRight, NEW t \in Tasks, Handle(t) \/ Send(t)
    PROVE  RemovesRight'
<1>1. PICK s : /\ Turn(t, s)
               /\ todo[t] # << >>
               /\ \/ s = Tail(todo[t])
                  \/ s = Otherwise(t) /\ (Doing(t, "send") => Subject(t) \notin rx)
  BY HandleTurns
<1>2. \A i \in DOMAIN s : Right(t, s[i]) BY <1>1, RestIsRight
<1>3. s \in Seq(Steps(t)) BY <1>1 DEF Turn
<1>4. ASSUME NEW i \in DOMAIN s PROVE Right(t, s[i])'
  <2>1. s[i] \in Steps(t) BY <1>3
  <2> QED BY <1>1, <1>2, <2>1, StepsStayRight
<1> QED BY <1>1, <1>4, TurnStaysRight

Harmless(s) == \A i \in DOMAIN s : s[i].op \notin {"remove", "insert"} /\ s[i].fail # "expel"

\* Neither does it hurt if scripts stay or give way to harmless ones.
LEMMA HarmlessIsRight ==
    ASSUME TypeOK, [Next]_vars, RemovesRight,
           \A u \in Tasks : todo'[u] = todo[u] \/ Harmless(todo'[u])
    PROVE  RemovesRight'
<1>1. ASSUME NEW u \in Tasks, todo'[u] = todo[u], NEW i \in DOMAIN todo[u],
             NEW step, step = todo[u][i]
      PROVE  Right(u, step)'
  <2>1. todo[u] \in Seq(Steps(u)) BY DEF TypeOK
  <2>2. todo[u] # << >> /\ step \in Steps(u) BY <1>1, <2>1
  <2>3. Right(u, step) BY <1>1 DEF RemovesRight
  <2> QED BY <2>2, <2>3, StepsStayRight
<1>2. ASSUME NEW u \in Tasks, NEW i \in DOMAIN todo'[u], NEW step, step = todo'[u][i]
      PROVE  Right(u, step)'
  <2>1. CASE todo'[u] = todo[u] BY <1>1, <1>2, <2>1
  <2>2. CASE Harmless(todo'[u]) BY <1>2, <2>2 DEF Harmless, Right
  <2> QED BY <2>1, <2>2
<1> QED BY <1>2 DEF RemovesRight, Right, Gone

\* A single step that neither removes nor inserts is harmless.
LEMMA OneStepHarmless ==
    ASSUME NEW step, step.op \notin {"remove", "insert"}, step.fail # "expel"
    PROVE  Harmless(<<step>>)
BY DEF Harmless

\* A task that goes on with a harmless script leaves all removals right.
LEMMA OneHarmless ==
    ASSUME TypeOK, [Next]_vars, RemovesRight, NEW t \in Tasks, NEW s, Goto(t, s), Harmless(s)
    PROVE  RemovesRight'
<1>1. todo' = [todo EXCEPT ![t] = s] /\ DOMAIN todo = Tasks BY DEF Goto, TypeOK
<1>2. \A u \in Tasks : todo'[u] = todo[u] \/ Harmless(todo'[u]) BY <1>1
<1> QED BY <1>2, HarmlessIsRight

\* A session that leaves its loop has its own client to remove.
LEMMA SessionStaysRight ==
    ASSUME TypeOK, [Next]_vars, RemovesRight, NEW c \in Clients,
           Session(c) \/ HalfClose(c) \/ \E m \in unsent[c] : Take(c, m)
    PROVE  RemovesRight'
<1>0. c \in Tasks BY DEF Tasks
<1>1. CASE Return(c) BY <1>1, HarmlessIsRight DEF Return
<1>2. CASE LeaveLoop(c) /\ at[c] # "named" BY <1>2, HarmlessIsRight DEF LeaveLoop
<1>3. CASE LeaveLoop(c) /\ at[c] = "named"
  <2>1. Goto(c, Disconnect(c)) /\ at'[c] = "closing" BY <1>3 DEF LeaveLoop, TypeOK
  <2>2. ~Waiting(c) BY <1>3 DEF LeaveLoop, Loops, Waiting
  <2>3. Turn(c, Disconnect(c))
    <3>1. Do("touch", c) \in Steps(c) /\ Do("remove", c) \in Steps(c) BY <1>0, StepsIn, OpsOf
    <3>2. Disconnect(c) \in Seq(Steps(c)) BY <3>1, Tuples DEF Disconnect
    <3> QED BY <2>1, <2>2, <3>2 DEF Turn
  <2>4. Right(c, Do("touch", c))' /\ Right(c, Do("remove", c))' BY <2>1 DEF Right, Do
  <2>5. \A i \in DOMAIN Disconnect(c) : Right(c, Disconnect(c)[i])'
    <3>1. DOMAIN Disconnect(c) = 1..2 /\ Disconnect(c)[1] = Do("touch", c)
          /\ Disconnect(c)[2] = Do("remove", c)
      BY DEF Disconnect
    <3>2. ASSUME NEW i \in 1..2 PROVE Right(c, Disconnect(c)[i])'
      <4>1. CASE i = 1 BY <2>4, <3>1, <4>1 DEF Right, Gone
      <4>2. CASE i = 2 BY <2>4, <3>1, <4>2 DEF Right, Gone
      <4> QED BY <4>1, <4>2
    <3> QED BY <3>1, <3>2
  <2> QED BY <1>0, <2>3, <2>5, TurnStaysRight
<1>4. CASE Spawn(c)
  <2>1. PICK f \in Casts : f = FreshTask BY <1>4 DEF Spawn, FreshTask
  <2>2. todo' = [todo EXCEPT ![c] = << >>, ![f] = <<Do("begin", None)>>]
    BY <1>4, <2>1 DEF Spawn
  <2>3. Harmless(<< >>) BY DEF Harmless
  <2>4. Harmless(<<Do("begin", None)>>) BY DEF Harmless, Do
  <2>5. \A u \in Tasks : \/ todo'[u] = todo[u] \/ todo'[u] = << >>
                        \/ todo'[u] = <<Do("begin", None)>>
    BY <2>2 DEF TypeOK
  <2> QED BY <2>3, <2>4, <2>5, HarmlessIsRight
<1>5. CASE \E m \in unsent[c] : Take(c, m)
  <2>1. PICK m \in unsent[c] : Take(c, m) BY <1>5
  <2>2. m \in Message BY DEF TypeOK
  <2>3. Turn(c, Script(c, m))
    BY <2>1, <2>2, ScriptTyped DEF Take, Loops, Waiting, Turn
  <2>4. \A i \in DOMAIN Script(c, m) : Right(c, Script(c, m)[i])'
    BY <2>2, ScriptTyped DEF Right, Plain
  <2> QED BY <1>0, <2>3, <2>4, TurnStaysRight
<1> QED BY <1>1, <1>2, <1>3, <1>4, <1>5 DEF Session, Break, HalfClose

\* A broadcast removes nobody.
LEMMA BroadcastStaysRight ==
    ASSUME TypeOK, [Next]_vars, RemovesRight, NEW b \in Casts, Broadcast(b)
    PROVE  RemovesRight'
<1>1. b \in Tasks BY DEF Tasks
<1>2. Harmless(<< >>) BY DEF Harmless
<1>3. Harmless(<<Do("hold", None)>>) BY DEF Harmless, Do
<1>4. ASSUME NEW c PROVE Harmless(<<Try("send", c, "go on")>>)
  <2>1. Try("send", c, "go on").op = "send" /\ Try("send", c, "go on").fail = "go on" BY DEF Try
  <2> QED BY <2>1, OneStepHarmless
<1>5. \/ UNCHANGED todo
      \/ \E s : Goto(b, s) /\ Harmless(s)
  BY <1>2, <1>3, <1>4 DEF Broadcast, Begin, Hold, Reach, Release
<1> QED BY <1>1, <1>5, OneHarmless, HarmlessIsRight

\* The heartbeat removes a client only behind a send that fails.
LEMMA HeartbeatStaysRight ==
    ASSUME TypeOK, [Next]_vars, RemovesRight, OpenedBefore, Heartbeat
    PROVE  RemovesRight'
<1>1. Heart \in Tasks BY DEF Tasks
<1>2. CASE Sweep \/ Rest BY <1>2, HarmlessIsRight DEF Sweep, Rest
<1>3. CASE Tick \/ Snapshot
  <2>1. Harmless(<< >>) BY DEF Harmless
  <2>2. Harmless(<<Do("snapshot", None)>>) BY DEF Harmless, Do
  <2> QED BY <1>1, <1>3, <2>1, <2>2, OneHarmless DEF Tick, Snapshot
<1>4. CASE \E c \in Clients : Serve("sweep", c, Remind(c))
  <2>1. PICK c \in Clients : Serve("sweep", c, Remind(c)) BY <1>4
  <2>2. Harmless(Remind(c))
    <3>1. DOMAIN Remind(c) = 1..3 /\ Remind(c)[1] = Try("find", c, "forget")
          /\ Remind(c)[2] = Try("send", c, "go on") /\ Remind(c)[3] = Do("settle", c)
      BY DEF Remind
    <3>2. /\ Try("find", c, "forget").op = "find" /\ Try("find", c, "forget").fail = "forget"
          /\ Try("send", c, "go on").op = "send" /\ Try("send", c, "go on").fail = "go on"
          /\ Do("settle", c).op = "settle" /\ Do("settle", c).fail = "return"
      BY DEF Do, Try
    <3>3. \A i \in 1..3 : i = 1 \/ i = 2 \/ i = 3 OBVIOUS
    <3> QED BY <3>1, <3>2, <3>3 DEF Harmless
  <2> QED BY <1>1, <2>1, <2>2, OneHarmless DEF Serve
<1>5. CASE \E c \in Clients : Serve("visits", c, Visit(c))
  <2>1. PICK c \in Clients : Serve("visits", c, Visit(c)) BY <1>5
  <2>2. ~Waiting(Heart) /\ Goto(Heart, Visit(c)) BY <2>1 DEF Serve, Idle, Waiting
  <2>3. Turn(Heart, Visit(c))
    <3>1. Try("send", c, "expel") \in Steps(Heart) /\ Do("touch", c) \in Steps(Heart)
      BY <1>1, StepsIn, OpsOf
    <3>2. Visit(c) \in Seq(Steps(Heart)) BY <3>1, Tuples DEF Visit
    <3> QED BY <2>2, <3>2 DEF Turn
  <2>4. at'[c] # "none" BY <2>1, SessionsGoOn DEF Serve, Idle, OpenedBefore
  <2>5. Right(Heart, Try("send", c, "expel"))' /\ Right(Heart, Do("touch", c))'
    BY <2>4 DEF Right, Do, Try
  <2>6. \A i \in DOMAIN Visit(c) : Right(Heart, Visit(c)[i])'
    <3>1. DOMAIN Visit(c) = 1..2 /\ Visit(c)[1] = Try("send", c, "expel")
          /\ Visit(c)[2] = Do("touch", c)
      BY DEF Visit
    <3>2. ASSUME NEW i \in 1..2 PROVE Right(Heart, Visit(c)[i])'
      <4>1. CASE i = 1 BY <2>5, <3>1, <4>1 DEF Right, Gone
      <4>2. CASE i = 2 BY <2>5, <3>1, <4>2 DEF Right, Gone
      <4> QED BY <4>1, <4>2
    <3> QED BY <3>1, <3>2
  <2> QED BY <1>1, <2>3, <2>6, TurnStaysRight
<1> QED BY <1>2, <1>3, <1>4, <1>5 DEF Heartbeat

\* No step makes a removal wrong.
LEMMA RemovesStep ==
    ASSUME TypeOK, [Next]_vars, RemovesRight, OpenedBefore
    PROVE  RemovesRight'
<1>1. CASE \E t \in Tasks : Handle(t) \/ Send(t) BY <1>1, HandleStaysRight
<1>2. CASE \E c \in Clients : Session(c) \/ HalfClose(c) \/ \E m \in unsent[c] : Take(c, m)
  BY <1>2, SessionStaysRight
<1>3. CASE \E b \in Casts : Broadcast(b) BY <1>3, BroadcastStaysRight
<1>4. CASE Heartbeat BY <1>4, HeartbeatStaysRight
<1>5. CASE UNCHANGED todo BY <1>5, HarmlessIsRight
<1>6. CASE \E c \in Clients : Open(c) \/ Read(c) \/ Leave(c) \/ Expire(c) \/ Lapse(c)
  BY <1>5, <1>6 DEF Open, Read, Leave, Expire, Lapse, Upset
<1>7. CASE Signal \/ Stop BY <1>5, <1>7 DEF Signal, Stop, Upset
<1>8. CASE UNCHANGED vars BY <1>5, <1>8 DEF vars
<1> QED BY <1>1, <1>2, <1>3, <1>4, <1>6, <1>7, <1>8 DEF Next, Runs, Sends, Environment

\* Whoever is registered or to be visited has been opened.
LEMMA OpenedStep ==
    ASSUME TypeOK, [Next]_vars, RemovesRight, OpenedBefore
    PROVE  OpenedBefore'
<1> DEFINE Opened == \A c \in Clients : at[c] # "none" => at'[c] # "none"
<1>0. Opened /\ connected_clients \subseteq Clients /\ DOMAIN todo = Tasks /\ Clients \subseteq Tasks
      /\ remaining[Heart] \subseteq Clients /\ connected_clients' \subseteq Clients
  BY SessionsGoOn, TypeStep DEF TypeOK, Tasks
<1>1. ASSUME NEW t \in Tasks, NEW s, Goto(t, s), t \in Clients => at'[t] # "none"
      PROVE  \A c \in Clients : at'[c] = "none" => todo'[c] = << >>
  BY <1>0, <1>1 DEF Goto, OpenedBefore
<1>9. ASSUME NEW t \in Tasks \ {Heart}, NEW s, Goto(t, s)
      PROVE  todo'[Heart] = todo[Heart]
  BY <1>0, <1>9 DEF Goto
<1>2. CASE \E t \in Tasks : Handle(t) \/ Send(t)
  <2>1. PICK t \in Tasks : Handle(t) \/ Send(t) BY <1>2
  <2>2. PICK s : Goto(t, s) /\ todo[t] # << >> BY <2>1, HandleTurns DEF Turn
  <2>3. t \in Clients => at[t] # "none" BY <2>2 DEF OpenedBefore
  <2>4. \A c \in Clients : at'[c] = "none" => todo'[c] = << >> BY <1>0, <1>1, <2>2, <2>3
  <2>5. UNCHANGED <<remaining, round, at>>
    BY <2>1 DEF Handle, Touch, Find, Vacant, Insert, Remove, Send, Known, Record, Settle, heartbeat
  <2>8. round # "rest" \/ todo'[Heart] = todo[Heart]
    BY <1>9, <2>2 DEF OpenedBefore
  <2>6. CASE Insert(t)
    <3>1. Head(todo[t]).op = "insert" /\ todo[t] \in Seq(Steps(t)) /\ todo[t] # << >>
      BY <2>6, GrantedFacts DEF Insert
    <3>2. Head(todo[t]) \in Steps(t) /\ 1 \in DOMAIN todo[t] /\ Head(todo[t]) = todo[t][1]
      BY <3>1
    <3>3. Subject(t) = t BY <3>1, <3>2 DEF RemovesRight, Right, Subject
    <3>4. Subject(t) \in Clients BY <2>6, GrantedFacts DEF Insert
    <3>5. connected_clients' = connected_clients \cup {t} /\ at[t] # "none"
      BY <2>3, <2>6, <3>3, <3>4 DEF Insert
    <3> QED BY <2>4, <2>5, <2>8, <3>5 DEF OpenedBefore
  <2>7. CASE ~Insert(t)
    <3>1. connected_clients' \subseteq connected_clients
      BY <2>1, <2>7 DEF Handle, Touch, Find, Vacant, Remove, Send, Known, Record, Settle, tables
    <3> QED BY <2>4, <2>5, <2>8, <3>1 DEF OpenedBefore
  <2> QED BY <2>6, <2>7
<1>3. CASE \E c \in Clients : Session(c) \/ HalfClose(c) \/ \E m \in unsent[c] : Take(c, m)
  <2>1. PICK c \in Clients : Session(c) \/ HalfClose(c) \/ \E m \in unsent[c] : Take(c, m) BY <1>3
  <2>2. UNCHANGED <<remaining, round, connected_clients>>
    BY <2>1 DEF Session, Take, Break, HalfClose, LeaveLoop, Return, Spawn, heartbeat, tables
  <2>3. c \in Tasks BY DEF Tasks
  <2>7. c \in Tasks \ {Heart} BY <2>3, TasksApart
  <2>4. CASE UNCHANGED todo BY <1>0, <2>2, <2>4 DEF OpenedBefore
  <2>5. CASE Spawn(c)
    <3>1. PICK f \in Casts : f = FreshTask BY <2>5 DEF Spawn, FreshTask
    <3>2. todo' = [todo EXCEPT ![c] = << >>, ![f] = <<Do("begin", None)>>] /\ UNCHANGED at
      BY <2>5, <3>1 DEF Spawn
    <3>3. \A d \in Clients : todo'[d] = todo[d] \/ todo'[d] = << >>
      BY <1>0, <3>2, TasksApart
    <3>4. todo'[Heart] = todo[Heart]
      <4>1. Heart \in DOMAIN todo /\ Heart # c /\ Heart # f BY <1>0, <3>1, TasksApart DEF Tasks
      <4> QED BY <3>2, <4>1
    <3> QED BY <2>2, <3>2, <3>3, <3>4 DEF OpenedBefore
  <2>6. CASE LeaveLoop(c) \/ \E m \in unsent[c] : Take(c, m)
    <3>1. at[c] # "none" BY <2>6 DEF LeaveLoop, Take, Loops
    <3>2. (\E s : Goto(c, s)) \/ UNCHANGED todo BY <2>6 DEF LeaveLoop, Take
    <3> QED BY <1>0, <1>1, <1>9, <2>2, <2>3, <2>4, <2>7, <3>1, <3>2 DEF OpenedBefore
  <2> QED BY <2>1, <2>4, <2>5, <2>6 DEF Session, Break, HalfClose, Return
<1>4. CASE \E b \in Casts : Broadcast(b)
  <2>1. PICK b \in Casts : Broadcast(b) BY <1>4
  <2>2. b \in Tasks /\ b \notin Clients /\ b # Heart BY TasksApart DEF Tasks
  <2>3. (\E s : Goto(b, s)) \/ UNCHANGED todo
    BY <2>1 DEF Broadcast, Begin, Hold, Reach, Release
  <2>4. UNCHANGED <<round, at, connected_clients>>
    BY <2>1 DEF Broadcast, Begin, Hold, Reach, Release, tables, heartbeat
  <2>5. remaining'[Heart] = remaining[Heart]
    BY <2>1, <2>2 DEF Broadcast, Begin, Hold, Reach, Release, heartbeat, TypeOK
  <2>6. \A c \in Clients : at'[c] = "none" => todo'[c] = << >>
    BY <1>1, <2>2, <2>3, <2>4 DEF OpenedBefore
  <2>7. todo'[Heart] = todo[Heart] BY <1>9, <2>2, <2>3
  <2> QED BY <2>4, <2>5, <2>6, <2>7 DEF OpenedBefore
<1>5. CASE Heartbeat
  <2>1. Heart \in Tasks /\ Heart \notin Clients BY TasksApart DEF Tasks
  <2>2. (\E s : Goto(Heart, s)) \/ UNCHANGED todo
    BY <1>5 DEF Heartbeat, Tick, Snapshot, Serve, Sweep, Rest
  <2>3. UNCHANGED <<at, connected_clients>>
    BY <1>5 DEF Heartbeat, Tick, Snapshot, Serve, Sweep, Rest, tables
  <2>4. \A c \in Clients : at'[c] = "none" => todo'[c] = << >>
    BY <1>1, <2>1, <2>2, <2>3 DEF OpenedBefore
  <2>5. Heart \in DOMAIN remaining BY DEF TypeOK
  <2>6. /\ round' = "rest" => remaining'[Heart] = {}
        /\ round' = "visits" => \A c \in remaining'[Heart] : at[c] # "none"
        /\ round' = "rest" => todo'[Heart] = << >>
    <3>1. CASE Tick BY <3>1 DEF Tick, Idle, OpenedBefore
    <3>2. CASE Snapshot
      <4>1. remaining'[Heart] = expired /\ round' = round BY <2>5, <3>2 DEF Snapshot
      <4>2. \A c \in expired : at[c] # "none" BY DEF OpenedBefore, TypeOK
      <4>3. round # "rest" BY <3>2 DEF Snapshot, Granted, Doing, OpenedBefore
      <4> QED BY <4>1, <4>2, <4>3
    <3>3. CASE \E c \in Clients : \E r, s : Serve(r, c, s)
      BY <2>5, <3>3 DEF Serve, OpenedBefore
    <3>4. CASE Sweep BY <3>4 DEF Sweep
    <3>5. CASE Rest BY <3>5 DEF Rest, Idle
    <3> QED BY <1>5, <3>1, <3>2, <3>3, <3>4, <3>5 DEF Heartbeat
  <2> QED BY <2>3, <2>4, <2>6 DEF OpenedBefore
<1>6. CASE \E c \in Clients : Open(c) \/ Read(c) \/ Leave(c) \/ Expire(c) \/ Lapse(c)
  BY <1>0, <1>6 DEF Open, Read, Leave, Expire, Lapse, Upset, OpenedBefore, heartbeat, tables
<1>7. CASE Signal \/ Stop BY <1>7 DEF Signal, Stop, Upset, OpenedBefore, heartbeat, tables
<1>8. CASE UNCHANGED vars BY <1>8 DEF vars, heartbeat, tables, OpenedBefore
<1> QED BY <1>2, <1>3, <1>4, <1>5, <1>6, <1>7, <1>8 DEF Next, Runs, Sends, Environment

\* Only a remove step removes, and a right one leaves whoever is there alone.
LEMMA KeptStep ==
    ASSUME TypeOK, RemovesRight, [Next]_vars,
           NEW c \in connected_clients \cap rx, c \notin connected_clients'
    PROVE  at[c] = "closing"
<1>1. PICK t \in Tasks : Remove(t)
  <2>1. CASE \E t \in Tasks : Handle(t) \/ Send(t)
    BY <2>1 DEF Handle, Touch, Find, Vacant, Insert, Known, Record, Settle, Send, tables
  <2>2. CASE \E d \in Clients : Session(d) \/ HalfClose(d) \/ \E m \in unsent[d] : Take(d, m)
    BY <2>2 DEF Session, Break, HalfClose, LeaveLoop, Return, Spawn, Take, tables
  <2>3. CASE \E b \in Casts : Broadcast(b)
    BY <2>3 DEF Broadcast, Begin, Hold, Reach, Release, tables
  <2>4. CASE Heartbeat
    BY <2>4 DEF Heartbeat, Tick, Snapshot, Serve, Sweep, Rest, tables
  <2>5. CASE \E d \in Clients : Open(d) \/ Read(d) \/ Leave(d) \/ Expire(d) \/ Lapse(d)
    BY <2>5 DEF Open, Read, Leave, Expire, Lapse, Upset, tables
  <2>6. CASE Signal \/ Stop BY <2>6 DEF Signal, Stop, tables
  <2>7. CASE UNCHANGED vars BY <2>7 DEF vars, tables
  <2> QED BY <2>1, <2>2, <2>3, <2>4, <2>5, <2>6, <2>7
          DEF Next, Runs, Sends, Environment
<1>2. Subject(t) = c BY <1>1 DEF Remove
<1>3. todo[t] \in Seq(Steps(t)) /\ todo[t] # << >> /\ Head(todo[t]).op = "remove"
  BY <1>1, GrantedFacts DEF Remove
<1>4. 1 \in DOMAIN todo[t] /\ Head(todo[t]) = todo[t][1] BY <1>3
<1>5. Right(t, Head(todo[t])) BY <1>4 DEF RemovesRight
<1> QED BY <1>2, <1>3, <1>5 DEF Right, Gone, Subject

LEMMA OpenedInit == Init => RemovesRight /\ OpenedBefore
<1> SUFFICES ASSUME Init PROVE RemovesRight /\ OpenedBefore OBVIOUS
<1>1. PICK p \in Plans : /\ connected_clients = p.connected
                         /\ at = [c \in Clients |-> IF c \in p.connected THEN "named" ELSE "none"]
  BY DEF Init
<1>2. p.connected \subseteq Clients BY PlansTyped DEF Plan
<1>3. \A t \in Tasks : todo[t] = << >> /\ DOMAIN << >> = {} BY DEF Init
<1>4. round = "rest" /\ remaining[Heart] = {} BY DEF Init
<1>5. Heart \in Tasks /\ Clients \subseteq Tasks BY DEF Tasks
<1> QED BY <1>1, <1>2, <1>3, <1>4, <1>5 DEF RemovesRight, OpenedBefore

\* As long as its stream is alive a client is removed by nobody but its own
\* session, however slowly it reads.
THEOREM SlowClientsStay == Spec => SlowClientKept
<1> DEFINE IInv == TypeOK /\ RemovesRight /\ OpenedBefore
           Keeps == \A c \in connected_clients \cap rx :
                       c \in connected_clients' \/ at[c] = "closing"
<1>1. Init => IInv BY TypeInit, OpenedInit
<1>2. IInv /\ [Next]_vars => IInv' BY TypeStep, RemovesStep, OpenedStep
<1>3. IInv /\ [Next]_vars => [Keeps]_vars BY KeptStep
<1>4. (Spec => [][Keeps]_vars) BY <1>1, <1>2, <1>3, PTL DEF Spec
<1> QED BY <1>4 DEF SlowClientKept
=============================================================================

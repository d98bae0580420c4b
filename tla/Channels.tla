------------------------------ MODULE Channels ------------------------------
(***************************************************************************)
(* Back-pressure and shutdown: what the tasks of the broker wait for.      *)
(*                                                                         *)
(* Every stream has a bounded channel towards its client (control.rs:44)   *)
(* and a send on it waits for room.  The tasks that send are the sessions, *)
(* one per stream, the heartbeat task, and one broadcast per stored event; *)
(* they meet at the RwLock of connected_clients, which a broadcast keeps   *)
(* while it sends (state.rs:454) and everybody else for one step.          *)
(*                                                                         *)
(* A task carries the rest of its handler as a script: the locks it takes  *)
(* and the sends it waits for, in the order of the code.  What the         *)
(* messages mean is the subject of ClientRegistry, QueryRouting and        *)
(* SourceEvents; here a client is one stream under one name and has at     *)
(* most one request of its own under way.                                  *)
(***************************************************************************)
EXTENDS Naturals, Sequences

CONSTANTS
    Clients,        \* the clients, with one stream each
    Heart,          \* the heartbeat task
    Casts,          \* the tasks that broadcast events; as many at a time
    None,           \* no message, nobody
    Capacity,       \* the slots of a channel (128 in the code)
    Plans,          \* what a behaviour may start from, and how far it goes
    MayLeave,       \* the clients that may go away or end their half of the stream
    Readers         \* the clients that keep reading as long as they stay

Tasks == Clients \cup {Heart} \cup Casts

\* A message: what it is, and whom the handler that answers it turns to.
Message ==
    [kind: {"register", "event", "pong"}, to: {None}] \cup
    [kind: {"ask"}, to: Clients \cup {None}] \cup
    [kind: {"reply"}, to: Clients]

\* What may upset the broker once: somebody expires, a request gets too old, the
\* signal to stop arrives.
Upsets == {"expire", "lapse", "signal"}

\* A plan: the clients that are registered at the start, the messages that each
\* client sends, once and in any order, and what may happen besides.
Plan == [connected: SUBSET Clients, sends: [Clients -> SUBSET Message], upsets: SUBSET Upsets]

ASSUME CapacityPositive == Capacity \in Nat \ {0}
ASSUME TasksApart == Heart \notin Clients \cup Casts /\ Clients \cap Casts = {}
ASSUME NoneIsNobody == None \notin Clients
ASSUME CastsExist == Casts # {}
ASSUME PlansTyped == Plans \subseteq Plan
ASSUME ClientSetsTyped == MayLeave \cup Readers \subseteq Clients

VARIABLES
    todo,               \* what is left of each task's script
    queue,              \* the tasks that wait for connected_clients' lock, in order
    holders,            \* the broadcasts that keep the read lock
    remaining,          \* the clients the heartbeat or a broadcast has still to serve
    round,              \* where the heartbeat task is in its round
    connected_clients,  \* the registered clients
    expired,            \* those with last_seen older than the expiration
    ongoing,            \* the clients whose request waits for an answer
    overdue,            \* those whose request is older than the timeout
    at,                 \* where the session of each client stands
    unsent,             \* the messages of each client that its session has not read
    buffer,             \* the messages in each channel
    rx,                 \* the streams whose receiving half is alive
    told,               \* history: the clients that were told how their request ended
    upsets,             \* what may still happen
    shutdown,           \* the flag the servers and the sessions watch
    stopped             \* the servers have returned

locks == <<queue, holders>>
heartbeat == <<remaining, round>>
tables == <<connected_clients, expired, ongoing, overdue>>
clients == <<unsent, rx, told>>
server == <<upsets, shutdown, stopped>>
vars == <<todo, locks, heartbeat, tables, at, clients, buffer, server>>

-----------------------------------------------------------------------------
(* Scripts.                                                                *)

ReadOps == {"find", "vacant", "snapshot", "hold"}
WriteOps == {"touch", "insert", "remove"}
LockOps == ReadOps \cup WriteOps
LocalOps == {"known", "record", "settle", "spawn", "begin"}
Fails == {"return", "mute", "forget", "refuse", "tell", "expel", "go on"}

\* The steps that each kind of task may take.
Ops(t) ==
    CASE t \in Clients -> {"touch", "find", "vacant", "insert", "remove", "send",
                          "known", "record", "settle", "spawn"}
      [] t \in Casts -> {"begin", "hold", "send"}
      [] t = Heart -> {"snapshot", "find", "send", "touch", "remove", "settle"}

Steps(t) ==
    {step \in [op: Ops(t), who: Clients \cup {None}, fail: Fails] :
        /\ step.who \in Clients \/ step.fail = "return"
        /\ step.op \notin {"begin", "hold", "snapshot"} => step.who \in Clients
        /\ step.fail \in {"tell", "refuse", "mute"} => t \in Clients
        /\ step.fail \in {"expel", "forget"} => t = Heart}

Do(op, c) == [op |-> op, who |-> c, fail |-> "return"]
Try(op, c, fail) == [op |-> op, who |-> c, fail |-> fail]

\* handle_register_client_message
Register(c) == <<Try("vacant", c, "refuse"), Do("send", c), Do("insert", c)>>

\* handle_query_request_message; r is the client the strategy selects, None if
\* no handler is left.
Ask(c, r) ==
    IF r = None
    THEN <<Do("touch", c), Do("find", c), Do("send", c)>>
    ELSE <<Do("touch", c), Try("find", c, "mute"),
           Do("find", r), Try("send", r, "tell"), Do("record", c)>>

\* handle_query_response_message and handle_query_handling_error_message, for
\* the request of client r
Reply(c, r) ==
    <<Do("touch", c), Do("known", r), Do("find", r), Do("send", r), Do("settle", r)>>

\* handle_register_source_event_message
Event(c) ==
    <<Do("touch", c), Do("find", c), Try("send", c, "go on"), Do("spawn", c)>>

\* DisconnectClient, from the end of a session or from the heartbeat task
Disconnect(c) == <<Do("touch", c), Do("remove", c)>>

Script(c, m) ==
    CASE m.kind = "register" -> Register(c)
      [] m.kind = "ask" -> Ask(c, m.to)
      [] m.kind = "reply" -> Reply(c, m.to)
      [] m.kind = "event" -> Event(c)
      [] m.kind = "pong" -> <<Do("touch", c)>>

\* Heartbeat to an expired client
Visit(c) == <<Try("send", c, "expel"), Do("touch", c)>>

\* Mutant: an overdue request is removed before its client is looked up.
RemindLate(c) == <<Do("settle", c), Do("known", c), Try("find", c, "forget"), Do("send", c)>>

\* query_timed_out to the client of an overdue request
Remind(c) == <<Try("find", c, "forget"), Try("send", c, "go on"), Do("settle", c)>>

\* How task t goes on when the first step of its script fails.
Otherwise(t) ==
    LET step == Head(todo[t])
        rest == Tail(todo[t])
    IN CASE step.fail = "return" -> << >>
         [] step.fail = "refuse" -> <<Do("send", step.who)>>
         [] step.fail = "tell" -> <<Do("send", t)>>
         [] step.fail = "expel" -> Disconnect(step.who)
         [] step.fail = "forget" -> <<Do("settle", step.who)>>
         [] step.fail = "go on" -> rest
         [] step.fail = "mute" ->
              [i \in DOMAIN rest |->
                 [rest[i] EXCEPT !.fail = IF @ = "tell" THEN "return" ELSE @]]

-----------------------------------------------------------------------------
(* Waiting.                                                                *)

Init ==
    /\ todo = [t \in Tasks |-> << >>]
    /\ queue = << >>
    /\ holders = {}
    /\ remaining = [t \in {Heart} \cup Casts |-> {}]
    /\ round = "rest"
    /\ expired = {}
    /\ ongoing = {}
    /\ overdue = {}
    /\ buffer = [c \in Clients |-> 0]
    /\ told = {}
    /\ shutdown = FALSE
    /\ stopped = FALSE
    /\ \E p \in Plans :
          /\ connected_clients = p.connected
          /\ rx = p.connected
          /\ at = [c \in Clients |-> IF c \in p.connected THEN "named" ELSE "none"]
          /\ unsent = p.sends
          /\ upsets = p.upsets

\* The step task t has come to.
Doing(t, op) == todo[t] # << >> /\ Head(todo[t]).op = op
Waiting(t) == todo[t] # << >> /\ Head(todo[t]).op \in LockOps

\* Task t goes on with `script`.  If that starts with a lock, t asks for it in
\* the same breath; the lock that t has just used is released.
Goto(t, script) ==
    LET behind == IF Waiting(t) THEN Tail(queue) ELSE queue
    IN  /\ todo' = [todo EXCEPT ![t] = script]
        /\ queue' = IF script # << >> /\ Head(script).op \in LockOps
                    THEN Append(behind, t) ELSE behind

\* The RwLock serves its queue in order: a reader behind a writer that waits
\* has to wait as well, even if only readers hold the lock.
Granted(t, op) ==
    /\ Doing(t, op)
    /\ queue # << >> /\ Head(queue) = t
    /\ op \in WriteOps => holders = {}

Subject(t) == Head(todo[t]).who

\* The ends of a channel.
Full(c) == buffer[c] = Capacity
Stuck(t) == Doing(t, "send") /\ Full(Subject(t)) /\ Subject(t) \in rx

-----------------------------------------------------------------------------
(* The steps of the scripts.                                               *)

\* handle_message: last_seen of the source
Touch(t) ==
    /\ Granted(t, "touch")
    /\ expired' = expired \ {Subject(t)}
    /\ Goto(t, Tail(todo[t]))
    /\ UNCHANGED <<holders, heartbeat, connected_clients, ongoing, overdue, at,
                   clients, buffer, server>>

\* Mutant: the guard of the lookup lives as long as the handler's branch.
FindKeepsGuard(t) ==
    /\ Granted(t, "find")
    /\ holders' = holders \cup {t}
    /\ Goto(t, IF Subject(t) \in connected_clients THEN Tail(todo[t]) ELSE Otherwise(t))
    /\ UNCHANGED <<heartbeat, tables, at, clients, buffer, server>>

\* get_client_by_id, and the look at connected_clients for the responder
Find(t) ==
    /\ Granted(t, "find")
    /\ Goto(t, IF Subject(t) \in connected_clients THEN Tail(todo[t]) ELSE Otherwise(t))
    /\ UNCHANGED <<holders, heartbeat, tables, at, clients, buffer, server>>

\* get_client_by_id in a registration: nobody is to be there
Vacant(t) ==
    /\ Granted(t, "vacant")
    /\ Goto(t, IF Subject(t) \notin connected_clients THEN Tail(todo[t]) ELSE Otherwise(t))
    /\ UNCHANGED <<holders, heartbeat, tables, at, clients, buffer, server>>

Insert(t) ==
    /\ Granted(t, "insert")
    /\ connected_clients' = connected_clients \cup {Subject(t)}
    /\ Goto(t, Tail(todo[t]))
    /\ UNCHANGED <<holders, heartbeat, expired, ongoing, overdue, at, clients,
                   buffer, server>>

\* handle_disconnected_client_message
Remove(t) ==
    /\ Granted(t, "remove")
    /\ connected_clients' = connected_clients \ {Subject(t)}
    /\ expired' = expired \ {Subject(t)}
    /\ Goto(t, Tail(todo[t]))
    /\ UNCHANGED <<holders, heartbeat, ongoing, overdue, at, clients, buffer, server>>

\* What a send says ends a request: the entry is removed after it.
EndsRequest(t) == Len(todo[t]) > 1 /\ todo[t][2].op = "settle"

\* Mutant: try_send, for which a full channel is an error like a closed one.
TrySend(t) ==
    /\ Doing(t, "send")
    /\ LET c == Subject(t)
       IN IF c \in rx /\ ~Full(c)
          THEN /\ buffer' = [buffer EXCEPT ![c] = @ + 1]
               /\ told' = IF EndsRequest(t) THEN told \cup {c} ELSE told
               /\ Goto(t, Tail(todo[t]))
          ELSE /\ Goto(t, Otherwise(t))
               /\ UNCHANGED <<buffer, told>>
    /\ UNCHANGED <<holders, heartbeat, tables, at, unsent, rx, server>>

\* tx.send with room in the channel, and on a channel whose receiver is gone
Send(t) ==
    /\ Doing(t, "send")
    /\ ~Stuck(t)
    /\ LET c == Subject(t)
       IN IF c \in rx
          THEN /\ buffer' = [buffer EXCEPT ![c] = @ + 1]
               /\ told' = IF EndsRequest(t) THEN told \cup {c} ELSE told
               /\ Goto(t, Tail(todo[t]))
          ELSE /\ Goto(t, Otherwise(t))
               /\ UNCHANGED <<buffer, told>>
    /\ UNCHANGED <<holders, heartbeat, tables, at, unsent, rx, server>>

\* get_ongoing_request
Known(t) ==
    /\ Doing(t, "known")
    /\ Goto(t, IF Subject(t) \in ongoing THEN Tail(todo[t]) ELSE Otherwise(t))
    /\ UNCHANGED <<holders, heartbeat, tables, at, clients, buffer, server>>

\* handle_query_requested_event
Record(t) ==
    /\ Doing(t, "record")
    /\ ongoing' = ongoing \cup {Subject(t)}
    /\ told' = told \ {Subject(t)}
    /\ Goto(t, Tail(todo[t]))
    /\ UNCHANGED <<holders, heartbeat, connected_clients, expired, overdue, at,
                   unsent, rx, buffer, server>>

\* remove_ongoing_request, after an answer and after a timeout
Settle(t) ==
    /\ Doing(t, "settle")
    /\ ongoing' = ongoing \ {Subject(t)}
    /\ overdue' = overdue \ {Subject(t)}
    /\ Goto(t, Tail(todo[t]))
    /\ UNCHANGED <<holders, heartbeat, connected_clients, expired, at, clients,
                   buffer, server>>

-----------------------------------------------------------------------------
(* Sessions: the loop of open_session.                                     *)

Loops(c) == at[c] \in {"open", "named"} /\ todo[c] = << >>

\* A message the client has sent is read and its handler starts; a registration
\* comes before all others.  The loop looks at the flag before it waits; a
\* message that arrives together with the flag may still be read, as if it had
\* come just before, and so may one whose client has left since.
Take(c, m) ==
    /\ Loops(c)
    /\ ~shutdown
    /\ m \in unsent[c]
    /\ m.kind # "register" => at[c] = "named"
    /\ unsent' = [unsent EXCEPT ![c] = @ \ {m}]
    /\ at' = IF m.kind = "register" THEN [at EXCEPT ![c] = "named"] ELSE at
    /\ Goto(c, Script(c, m))
    /\ UNCHANGED <<holders, heartbeat, tables, rx, told, buffer, server>>

\* Mutant: the flag ends the loop without a word to the registry.
BreakForgets(c) ==
    /\ Loops(c)
    /\ shutdown \/ c \notin rx
    /\ IF at[c] = "named" /\ ~shutdown
       THEN at' = [at EXCEPT ![c] = "closing"] /\ Goto(c, Disconnect(c))
       ELSE at' = [at EXCEPT ![c] = "done"] /\ UNCHANGED <<todo, queue>>
    /\ UNCHANGED <<holders, heartbeat, tables, clients, buffer, server>>

\* The loop is left, between two messages: a session with a name disconnects it.
LeaveLoop(c) ==
    /\ Loops(c)
    /\ IF at[c] = "named"
       THEN at' = [at EXCEPT ![c] = "closing"] /\ Goto(c, Disconnect(c))
       ELSE at' = [at EXCEPT ![c] = "done"] /\ UNCHANGED <<todo, queue>>
    /\ UNCHANGED <<holders, heartbeat, tables, clients, buffer, server>>

\* It ends with the stream or with the flag.
Break(c) ==
    /\ shutdown \/ c \notin rx
    /\ LeaveLoop(c)

\* The task ends, and drops its end of the channel.
Return(c) ==
    /\ at[c] = "closing" /\ todo[c] = << >>
    /\ at' = [at EXCEPT ![c] = "done"]
    /\ UNCHANGED <<todo, locks, heartbeat, tables, clients, buffer, server>>

-----------------------------------------------------------------------------
(* Broadcasts.                                                             *)

\* tokio::spawn, the last thing a RegisterSourceEvent does, of a new task
Unused(b) == todo[b] = << >> /\ b \notin holders

FreshTask == CHOOSE b \in Casts : Unused(b)

Spawn(c) ==
    /\ Doing(c, "spawn")
    /\ \E b \in Casts : Unused(b)
    /\ todo' = [todo EXCEPT ![c] = << >>, ![FreshTask] = <<Do("begin", None)>>]
    /\ UNCHANGED <<locks, heartbeat, tables, at, clients, buffer, server>>

\* The broadcast is polled for the first time, and asks for the read lock ...
Begin(b) ==
    /\ Doing(b, "begin")
    /\ Goto(b, <<Do("hold", None)>>)
    /\ UNCHANGED <<holders, heartbeat, tables, at, clients, buffer, server>>

\* ... which it keeps ...
Hold(b) ==
    /\ Granted(b, "hold")
    /\ holders' = holders \cup {b}
    /\ remaining' = [remaining EXCEPT ![b] = connected_clients]
    /\ Goto(b, << >>)
    /\ UNCHANGED <<round, tables, at, clients, buffer, server>>

\* Mutant: a client that cannot be reached is disconnected on the spot.
ReachExpels(b, c) ==
    /\ b \in holders /\ todo[b] = << >>
    /\ c \in remaining[b]
    /\ remaining' = [remaining EXCEPT ![b] = @ \ {c}]
    /\ Goto(b, <<Try("send", c, "expel")>>)
    /\ UNCHANGED <<holders, round, tables, at, clients, buffer, server>>

\* Mutant: a client that cannot be reached is tried again.
ReachRetries(b, c) ==
    /\ b \in holders /\ todo[b] = << >>
    /\ c \in remaining[b]
    /\ remaining' = [remaining EXCEPT ![b] = IF c \in rx THEN @ \ {c} ELSE @]
    /\ Goto(b, <<Try("send", c, "go on")>>)
    /\ UNCHANGED <<holders, round, tables, at, clients, buffer, server>>

\* ... while it sends to one client after the other ...
Reach(b, c) ==
    /\ b \in holders /\ todo[b] = << >>
    /\ c \in remaining[b]
    /\ remaining' = [remaining EXCEPT ![b] = @ \ {c}]
    /\ Goto(b, <<Try("send", c, "go on")>>)
    /\ UNCHANGED <<holders, round, tables, at, clients, buffer, server>>

\* ... until it has been at everybody.
Release(b) ==
    /\ b \in holders /\ todo[b] = << >>
    /\ remaining[b] = {}
    /\ holders' = holders \ {b}
    /\ UNCHANGED <<todo, queue, heartbeat, tables, at, clients, buffer, server>>

-----------------------------------------------------------------------------
(* The heartbeat task.                                                     *)

Idle(r) == round = r /\ todo[Heart] = << >>

\* interval.tick; the ticks that would find nothing to do are left out.
Tick ==
    /\ Idle("rest")
    /\ expired \cup overdue # {}
    /\ round' = "visits"
    /\ Goto(Heart, <<Do("snapshot", None)>>)
    /\ UNCHANGED <<holders, remaining, tables, at, clients, buffer, server>>

\* old_clients
Snapshot ==
    /\ Granted(Heart, "snapshot")
    /\ remaining' = [remaining EXCEPT ![Heart] = expired]
    /\ Goto(Heart, << >>)
    /\ UNCHANGED <<holders, round, tables, at, clients, buffer, server>>

\* The next client of the snapshot, or the next request of the sweep
Serve(r, c, script) ==
    /\ Idle(r)
    /\ c \in remaining[Heart]
    /\ remaining' = [remaining EXCEPT ![Heart] = @ \ {c}]
    /\ Goto(Heart, script)
    /\ UNCHANGED <<holders, round, tables, at, clients, buffer, server>>

\* get_expired_requests
Sweep ==
    /\ Idle("visits")
    /\ remaining[Heart] = {}
    /\ remaining' = [remaining EXCEPT ![Heart] = overdue]
    /\ round' = "sweep"
    /\ UNCHANGED <<todo, locks, tables, at, clients, buffer, server>>

Rest ==
    /\ Idle("sweep")
    /\ remaining[Heart] = {}
    /\ round' = "rest"
    /\ UNCHANGED <<todo, locks, remaining, tables, at, clients, buffer, server>>

-----------------------------------------------------------------------------
(* Clients and time.                                                       *)

\* A client calls OpenSession.
Open(c) ==
    /\ at[c] = "none" /\ ~shutdown
    /\ at' = [at EXCEPT ![c] = "open"]
    /\ rx' = rx \cup {c}
    /\ UNCHANGED <<todo, locks, heartbeat, tables, unsent, told, buffer, server>>

\* It takes a message from its stream.
Read(c) ==
    /\ c \in rx /\ buffer[c] > 0
    /\ buffer' = [buffer EXCEPT ![c] = @ - 1]
    /\ UNCHANGED <<todo, locks, heartbeat, tables, at, clients, server>>

\* A client goes away, and the receiving half of its channel with it.
Leave(c) ==
    /\ c \in rx \cap MayLeave
    /\ rx' = rx \ {c}
    /\ buffer' = [buffer EXCEPT ![c] = 0]
    /\ UNCHANGED <<todo, locks, heartbeat, tables, at, unsent, told, server>>

\* It closes its half of the stream, or sends what is not a valid message, and
\* still reads: the session ends, the receiving half does not.
HalfClose(c) ==
    /\ c \in rx \cap MayLeave
    /\ LeaveLoop(c)

\* Time and the operator.
Upset(what) ==
    /\ what \in upsets
    /\ upsets' = upsets \ {what}
    /\ UNCHANGED <<todo, locks, heartbeat, at, clients, buffer, stopped>>

\* last_seen gets older than the expiration, a request older than the timeout.
Expire(c) ==
    /\ Upset("expire")
    /\ c \in connected_clients \ expired
    /\ expired' = expired \cup {c}
    /\ UNCHANGED <<connected_clients, ongoing, overdue, shutdown>>

Lapse(c) ==
    /\ Upset("lapse")
    /\ c \in ongoing \ overdue
    /\ overdue' = overdue \cup {c}
    /\ UNCHANGED <<connected_clients, expired, ongoing, shutdown>>

-----------------------------------------------------------------------------
(* Shutdown.                                                               *)

\* Ctrl+C or SIGTERM
Signal ==
    /\ Upset("signal")
    /\ ~shutdown
    /\ shutdown' = TRUE
    /\ UNCHANGED tables

\* Somebody has a sender of the channel: the session, the registry, a task
\* that sends on it, the heartbeat's snapshot, or its visit to the client.
Held(c) ==
    \/ at[c] \in {"open", "named", "closing"}
    \/ c \in connected_clients
    \/ \E t \in Tasks : Doing(t, "send") /\ Subject(t) = c
    \/ round = "visits" /\ c \in remaining[Heart]
    \/ round = "visits" /\ todo[Heart] # << >> /\ Subject(Heart) = c

\* What the client can read has ended.
StreamEnded(c) == ~Held(c) /\ buffer[c] = 0

\* The servers return when the last stream has ended, and main with them.
Stop ==
    /\ shutdown
    /\ \A c \in rx : StreamEnded(c)
    /\ stopped' = TRUE
    /\ UNCHANGED <<todo, locks, heartbeat, tables, at, clients, buffer, upsets, shutdown>>

-----------------------------------------------------------------------------
(* The specification.                                                      *)

\* What the runtime makes of a task, besides letting it send.
Session(c) == Break(c) \/ Return(c) \/ Spawn(c)
Broadcast(b) == Begin(b) \/ Hold(b) \/ Release(b) \/ \E c \in Clients : Reach(b, c)
Heartbeat ==
    \/ Tick \/ Snapshot \/ Sweep \/ Rest
    \/ \E c \in Clients : Serve("visits", c, Visit(c)) \/ Serve("sweep", c, Remind(c))
Handle(t) ==
    \/ Touch(t) \/ Find(t) \/ Vacant(t) \/ Insert(t) \/ Remove(t)
    \/ Known(t) \/ Record(t) \/ Settle(t)

Runs(t) ==
    /\ ~stopped
    /\ \/ Handle(t)
       \/ t \in Clients /\ Session(t)
       \/ t \in Casts /\ Broadcast(t)
       \/ t = Heart /\ Heartbeat

Sends(t) == ~stopped /\ Send(t)

Environment ==
    \/ \E c \in Clients : Open(c) \/ Read(c) \/ Leave(c) \/ HalfClose(c)
    \/ \E c \in Clients : Expire(c) \/ Lapse(c)
    \/ \E c \in Clients : \E m \in unsent[c] : Take(c, m)
    \/ Signal \/ Stop

Next ==
    \/ \E t \in Tasks : Runs(t) \/ Sends(t)
    \/ ~stopped /\ Environment

Spec == Init /\ [][Next]_vars

\* The runtime polls every task; a semaphore serves those that wait for room in
\* a channel in turn, so nobody is passed over for ever; the clients in Readers
\* read what they are sent; and a server without streams returns.
Fairness ==
    /\ \A t \in Tasks : WF_vars(Runs(t)) /\ SF_vars(Sends(t))
    /\ \A c \in Readers : WF_vars(~stopped /\ Read(c))
    /\ WF_vars(~stopped /\ Stop)

FairSpec == Spec /\ Fairness

-----------------------------------------------------------------------------
(* Properties.                                                             *)

Phases == {"none", "open", "named", "closing", "done"}

TypeOK ==
    /\ DOMAIN todo = Tasks /\ \A t \in Tasks : todo[t] \in Seq(Steps(t))
    /\ queue \in Seq(Tasks)
    /\ holders \subseteq Casts
    /\ remaining \in [{Heart} \cup Casts -> SUBSET Clients]
    /\ round \in {"rest", "visits", "sweep"}
    /\ connected_clients \subseteq Clients
    /\ expired \subseteq connected_clients
    /\ ongoing \subseteq Clients
    /\ overdue \subseteq ongoing
    /\ at \in [Clients -> Phases]
    /\ unsent \in [Clients -> SUBSET Message]
    /\ buffer \in [Clients -> 0..Capacity]
    /\ rx \subseteq Clients
    /\ told \subseteq Clients
    /\ upsets \subseteq Upsets
    /\ shutdown \in BOOLEAN
    /\ stopped \in BOOLEAN

\* What a task can do next without waiting for anybody.
CanLock(t) == Waiting(t) /\ Granted(t, Head(todo[t]).op)
CanGoOn(t) ==
    \/ CanLock(t)
    \/ \E op \in LocalOps \ {"spawn"} : Doing(t, op)
    \/ Doing(t, "spawn") /\ \E b \in Casts : Unused(b)
    \/ Doing(t, "send") /\ ~Stuck(t)
    \/ t \in holders /\ todo[t] = << >>

\* The broker never waits for itself: as long as a handler, a broadcast or a
\* heartbeat is under way, some task can go on or waits for a client that does
\* not read.
WaitsOnlyForClients ==
    (\E t \in Tasks : todo[t] # << >> \/ t \in holders) =>
        \E t \in Tasks : CanGoOn(t) \/ Stuck(t)

\* A client that reads slowly is not taken for dead: as long as its stream is
\* alive nobody but its own session removes it, however full its channel is.
SlowClientKept ==
    [][\A c \in connected_clients \cap rx :
          c \in connected_clients' \/ at[c] = "closing"]_vars

\* Every message a client sends is handled to its end, also the last one, the
\* DisconnectClient that the session sends itself.
MessageHandled == \A c \in Clients : todo[c] # << >> ~> (todo[c] = << >> \/ stopped)

\* Every broadcast comes to its end and gives the lock back, also if clients
\* leave or are expelled in the middle of it.
BroadcastEnds ==
    \A b \in Casts : ~Unused(b) ~> (Unused(b) \/ stopped)

\* A request that got too old is forgotten, and its client was told the answer
\* or the timeout before, unless it was gone: the heartbeat task gets to it
\* whomever else it has to wait for.
OverdueIsTold ==
    \A c \in Clients : c \in overdue ~>
        \/ c \notin overdue /\ (c \in told \/ c \notin rx \/ c \notin connected_clients)
        \/ stopped

\* After a signal every stream ends and the servers stop.
ServerStops == shutdown ~> stopped
=============================================================================

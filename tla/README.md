# TLA+ models of R-Event

R-Event is a gRPC broker in Rust (tokio, tonic, axum, SQLite). Clients open one bidirectional stream
each, register under an id together with the queries they can answer, send queries that the broker
forwards to one of the clients that answer them, and publish source events that the broker stores
and broadcasts. This directory holds TLA+ models of the broker, the TLC configurations that check
them and TLAPS proofs about them. Paths below are relative to the repository; line numbers are in
`PROJECT.json` ("map"), definition by definition.

## 1. Inventory

| Part | State | Operations | Source | Model |
|---|---|---|---|---|
| Client registry | a task per stream with `client_id_option`; `connected_clients` (id → channel, `last_seen`) | open a stream, `RegisterClient`, any message (touch), end, panic; the heartbeat of the broker | `src/api/grpc/control.rs`, `src/domain/state.rs`, `src/domain/client.rs` | `ClientRegistry` |
| Query handlers, selection | `query_handlers` (query → vector of ids), the cursor `last_selected` | add, disconnect, select | `src/domain/query_handlers.rs`, `src/domain/mod.rs` | `HandlerVectors`, `HandlerSets`, `RoundRobin` |
| Query routing | `ongoing_query_requests` (request id → request, requester, responder, `created_at`) | `QueryRequest`, `QueryResponse`, `QueryHandlingFailed`, the sweep of expired requests | `src/domain/state.rs`, `src/domain/query_handlers.rs` | `QueryRouting` |
| Source events | the SQLite log with its monotonic clock | `RegisterSourceEvent`: save, acknowledge, broadcast in a task of its own | `src/domain/state.rs`, `src/db/mod.rs` | `SourceEvents`, `EventLog` |
| Channels and locks | a 128-message channel per client, three `RwLock`s | a send waits for room; a broadcast does so under a read lock | `src/api/grpc/mod.rs`, `src/domain/state.rs` | `Channels` |
| Shutdown | a `watch` channel | ends the sessions and both servers | `src/main.rs`, `src/api/` | `Channels` |
| REST interface | none, reads the tables | clients, one client, source events, by pages | `src/api/rest/` | `ClientPages` (the pages) |
| Documentation page | what the browser has kept and runs | `/swagger`, its scripts, `/openapi.yml`; stop, start and upgrade of the server | `src/api/rest/openapi_handler.rs`, `static/swagger/` | `SwaggerPage` |
| Message conversion | none | protobuf ↔ domain messages; refuses, panics | `src/api/grpc/transform.rs` | its control only |
| Configuration, telemetry, start-up | constants after start-up | validation of three durations | `src/config.rs`, `src/main.rs`, `src/telemetry.rs` | no |
| Protocol file, example client, tests | - | - | `proto/`, `examples/`, `tests/` | read as documentation |

**How they interact.** A stream's task decodes one message at a time and awaits
`State::handle_message`, which first touches `last_seen` of the sender and then runs one handler.
Handlers share the tables through `tokio::sync::RwLock`s that are taken and released step by step,
never two at a time but for the strategy's own inside that of the handlers, and send to other
clients by the channel (`Tx`) stored in `connected_clients`; only a broadcast sends with a lock
held. One background task per broker ticks: it takes the ids and channels of all clients not seen
for `server_expiration_client`, sends each a heartbeat, handles a `Heartbeat` in its name if the
send succeeded and a `DisconnectClient` if it did not, then takes a snapshot of all overdue
requests, tells their requesters `QueryTimedOut` and removes them. When a stream ends its task
handles a `DisconnectClient` for the id it believes to be.

**What is hard.** Every handler is a chain of critical sections, so whatever it read is stale at its
next step: registration (look up, acknowledge, insert, announce), disconnection (remove, retract),
routing (check for a duplicate, select, look up, send, record), answering (look up, deliver, forget)
and both halves of the heartbeat (snapshot, send, act by id). A channel can lose its receiver at any
point, which only a failing send reveals; while it is full, whoever sends on it waits, some with a
lock in hand. Requests time out while answers are under way. A task that panics never disconnects
its client. `PROJECT.json` ("hazards") lists these at their lines.

**What makes each part correct.**
* *Registry*: who is registered was told so; a client whose name no other stream uses is served
  until it leaves; a stream loses its place, or its queries, only on account of another stream of
  its name; nothing stays listed for a client that left; a client whose transport is gone is
  forgotten.
* *Selection*: every handler of a query gets its share, whatever vectors and sorting do.
* *Routing*: an answer goes to the client whose request was answered; no request is lost silently,
  answered twice, or removed in place of another one; nothing stays ongoing for ever. The code goes
  by request id alone, so each of these says when two requests under one id can be mixed up.
* *Source events*: the log is append-only with consecutive clocks; what is acknowledged is stored,
  and acknowledged before anybody gets it; a broadcast passes over nobody who stays, and puts the
  event in a channel once for every name that leads to it.
* *Client pages*: who follows the links misses or repeats a client only for a reason.
* *Channels*: the broker never waits for itself; a slow client is not taken for a dead one; as long
  as clients read, every message is handled, every broadcast finished, every overdue request told,
  and a signal ends everything.
* *Documentation page*: a page runs scripts of one release and shows the schema of the server.

## 2. The modules and the code

### ClientRegistry
`Sessions` are streams, each used once; reconnecting is using another session with the same client
id. `pc[s]` is the point of the session's task between two critical sections: `loop` is the message
loop of `open_session`, `insert` and `announce` are inside `handle_register_client_message`,
`remove` and `retract` inside `handle_disconnected_client_message`, `panicked` is a task that died
in `ClientId::from` (`transform.rs`) without either. `connected_clients[c]` is the session whose
channel the `ClientInfo` holds; `expired` are the clients with an old `last_seen`; a vector of
handlers is the set of its members; `heartbeat` is the background task with its snapshot of (id,
channel) pairs; `acked` records the `ClientRegistered` messages sent.

One action is one critical section with the local steps next to it. Steps that cannot be told apart
by another task are one action: the look-up of the id together with the send on the session's own
channel (nobody else reads it, and the result depends on `rx` alone), the end of the stream together
with the touch of the `DisconnectClient` that follows, and a failing send of the heartbeat together
with the touch that follows it (a channel without a receiver stays so, and the following removal
drops `last_seen` anyway). As in the code, a session takes the id of *every* `RegisterClient`,
accepted or not (`RejectDuplicate`, `FailToAcknowledge`), a `HashMap::insert` overwrites whoever is
there, and the heartbeat acts on the id, whoever has it by then. The order in which the heartbeat
visits its snapshot (a `HashMap`) is free.

Nothing is assumed about the clients: a stream registers any of the names it may (`MayRegister`),
again and again, while other streams of the same name are open, closing or dead. The broker acts by
name, so what it does for one stream can hit another one of that name. The properties that this
touches name the overlap that each loss needs (`LiveClientKept`, `HandlersStay`,
`NoOrphanHandlers`), so that any other loss violates them. `SoleUserServed` says what a well-behaved
client may rely on: the history `sole[c]` is the last registration of `c`, as long as everything
about the earlier streams of the name was over when it was acknowledged (`Unused`) and no other
stream has sent a `RegisterClient` for the name since (`Interferes`).

### RoundRobin, HandlerVectors, HandlerSets
`HandlerVectors` has the vectors as sequences: registration pushes the client once for every time a
query is listed, disconnection filters, selection sorts a copy and takes what follows the first
occurrence of `last_selected`, or the first entry. Ids are naturals, for their order. Sorting and
filtering are one operator, `Listing`: the entries at given places in a given order, the `k`-th
being the one with `k` places up to it. (`SortSeq` and `SelectSeq` are recursive, and nothing could
be proved about them.) `turns` counts the selections of each client since the vector of its query
last changed. `HandlerSets` is the abstract table: sets, offers, withdrawals and the successor of
`RoundRobin`; `HandlerVectors` implements it under the mapping
`handlers <- ToSet(query_handlers[q])` (`KeepsPromise`) as long as a client that registers is in no
vector (`Fresh`) and lists a query once. The code enforces neither. A client is in a vector when it
registers again if handlers were left behind by a registration that a disconnection overtook, if the
late half of a disconnection is still to come, or if two streams share the name; `NoOrphanHandlers`
and `HandlersStay` say when. Without the two assumptions, what holds is `VectorsTypeCorrect` and
`RepeatHoldsCursor` (section 4). The other two components use the set form; what `QueryRouting` does
to its table are steps of `HandlerSets` (`RoutingUsesTable`).

### QueryRouting
Each client has one session, registered at the start; clients in `MayLeave` may close the stream or
lose the receiver at any time and do not come back. `pc[c]` is the point inside
`handle_query_request_message` (`select`, `lookup`, `send`, `record`),
`handle_query_response_message` / `handle_query_handling_error_message` (`deliver`, `forget`: the
two differ in what the answer says, which is abstracted) or the disconnection. `inbox` holds the
requests a client was sent and has not answered: it answers each at most once, at any time or never.
A client in `MayAnswer` also answers what it was not asked, as often as it likes: the code never
checks who answers. `answered` is the entry a session found for the answer, and the request the
client meant. A request is a client, an id and a number (`Requests`), `created_at` is that number,
and the histories are kept for each request: `told` counts what its client was told about it
(`QueryResponded` or any `QueryRequestedFailed`), `dropped` are those whose responder had gone by
the look-up, `contested` those that two tasks set out to end at once (two answers, or an answer and
the sweep), and `raced` are the ids that two clients had between the check for a duplicate and the
record at the same time. `Disturbed(r)` is what the code cannot keep apart: an id that was raced for
or has a contested request. A repetition of an ongoing request, which `is_same` ignores, is not a
request of its own.

`sweep` is the background task; its first half is reduced to expelling a connected client without
receiver, whenever. The channel the handler looks up for the requester at its start is that of the
requester's own session, so it is reached exactly when the session's receiver lives. A responder or
requester is looked up and sent to in one step only where nothing but the loss of its receiver can
come between (`DeliverAnswer`, `SweepTells`); for the responder of a new request the two steps are
separate, because the code treats a failed look-up and a failed send differently.

### SourceEvents, EventLog
`pc[s]` is where the task of a session stands in `handle_register_source_event_message`: `save`
(before the `INSERT`), `commit` (the transaction has written, `writer` holds the database), `find`
(stored, the source not yet looked up) and `acknowledge` (the channel of whoever has the name is in
hand, and may be another stream's by the send). The clock is taken where the code takes it, by the
`INSERT ... SELECT MAX + 1`, and the table gets the event where the code does, by the commit. A
stream may register several names (`MayRegister`): it keeps the last one it asked for as its own,
and its end removes only that one, or whoever has it. `broadcasts[k]` is the task that broadcasts
the event with clock `k`: `spawned`, then `sending` with the names still to visit, in any order.
While it is sending it holds the read lock on `connected_clients`: every action that needs the write
lock is guarded by `Writable`. A send waits for room in the channel: it is a step of its own, which
may come late or never, and everything that waits for the lock then waits, too; `Channels` has the
slots. A send to a channel without receiver fails and is logged only. SQLite is external:
transactions write one after the other and may fail at any statement (`SaveFails`). Registration and
disconnection are one step each, since their inner steps are the subject of `ClientRegistry`.
`acked` and `delivered` record what was put in which stream's channel, the latter under which name
and how often. `EventLog` is the abstract promise: `Store` appends an entry with the next clock,
`Deliver` sends a stored entry to a stream under a name that it has not had it under; `SourceEvents`
implements it under `log <- source_event` (`KeepsLog`).

### ClientPages
`GET /api/clients` as `ClientsPage(offset, limit)`: the validation, the slice of the sorted clients,
`total_pages` and the links, from one reading of the registry. The slice is the set of clients whose
position in the order is in it, which covers the early returns for an offset beyond the end. A
reader begins with any offset and limit and follows `next` or `prev`, one request per step, while
clients connect and disconnect in between; `listed` are the pages it got. Links may lead beyond
`MAX_OFFSET`, where the handler refuses them: the properties about whole walks are about those that
end without a refusal.

### Channels
The other modules have no slots: their sends succeed at once or, in `SourceEvents`, at any time.
Here every channel has `Capacity` slots and a send waits for one; what the messages mean is left
out, and what is left is who waits for whom. The tasks are the sessions, the heartbeat task and the
broadcasts. A task carries the rest of its handler as a *script* (`todo[t]`), the lock acquisitions
and sends of the handler in the order of the code, each with what happens when it fails: `Register`,
`Ask`, `Reply`, `Event` and `Disconnect` are the handlers of `state.rs`, `Visit` and `Remind` the
bodies of the two loops of the heartbeat task. One action is one step of a script.

`queue` is the queue of tokio's `RwLock` around `connected_clients`, which is fair: whoever asks
goes to its end, a reader behind a waiting writer waits too. Everybody holds the lock for one step,
except a broadcast, which is in `holders` from `Hold` to `Release` and sends meanwhile. `buffer[c]`
counts what is in the channel of `c`, `Read` takes from it, `Leave` drops the receiver. A session
leaves its loop between two messages and disconnects its client (`LeaveLoop`): when the flag is up
or its client is gone (`Break`), or when the client closes its half of the stream or sends something
invalid and still reads (`HalfClose`). `expired` and `overdue` are what the next tick will find;
ticks that would find nothing are left out. `told` are the clients whose request was ended by a
message to them, an answer or a timeout, before it was forgotten. After `Signal` the flag is up; a
stream ends for its client when nobody has a sender any more, the heartbeat's visit included, and
everything is read (`Held`, `StreamEnded`), and the server returns when all have (`Stop`). Two watch
channels in a row, `main`'s and the one of `start_grpc_server`, are one flag.

A client is one stream under one name and has one request under way; `Plans` says which clients are
connected at the start, what each will send, in any order, and what may happen once on the way
(`upsets`: a client expires, a request gets too old, a signal arrives). The locks inside
`QueryHandler` are left out: nobody sends while holding one. SQLite is left out: its transactions
end.

### SwaggerPage
`/swagger` leads to `index.html`, which runs three scripts (`Run`, in the order of the tags) and
then the `onload` handler of `swagger-initializer.js` (`Onload`), which uses globals of the other
two and makes the user interface request `/openapi.yml` (`ShowSchema`). `swagger_asset` marks every
asset but `index.html` immutable for a year, `openapi_ui` and `openapi_schema` say nothing about
caching. The model has the browser keep what is immutable and request the rest every time. The
server stops, starts and is upgraded at any point between two requests; a request that is not
answered leaves its script undefined, and the page goes on without it. `cut` remembers whether,
since the cache was last empty, something came between the scripts of one page: a reload, an
unanswered request or an upgrade.

### Mutants
Definitions marked `Mutant:` are deliberately wrong versions of the action they stand next to. They
are not part of any specification; putting one in place of its original breaks a property, which
shows that the property depends on that line of code (`PROJECT.json`, "mutants").

## 3. What the runs check

| Run | Specification | Properties | Shows |
|---|---|---|---|
| `Registry` | 2 streams, 2 names, one stream may use both | `TypeOK`, `RegisteredWasAcked`, `EndedSessionNotRegistered`, `SoleUserServed`, `NoOrphanHandlers`, `LiveClientKept`, `HandlersStay` | who is registered was told so; a name nobody else uses is served; places, queries and orphans are lost or left to a few overlaps of two streams of one name, and to nothing else |
| `RegistryDead` | 2 streams, 1 name, fair | `DeadClientForgotten`, `DeadClientRetracted` | a dead client goes, also after a panic, unless another stream of its name keeps it alive |
| `Handlers` | 3 clients, 2 queries | `TypeOK`, `FairShare`, `KeepsPromise` | requests are shared evenly, give or take one; the vectors implement sets with a round-robin successor |
| `QueryAnyone` | 3 clients, 2 of them ask under one id, both responders may leave, everything expires, fair | `TypeOK`, `AnswersOnlyToAsker`, `OngoingIsServed`, `NoAskForgotten`, `RequestResolved` | whose request an answer is taken for, what is lost without a word, what the broker keeps; nothing stays ongoing |
| `QueryKept` | 3 clients, one asks twice under one id, one of two responders also answers unasked, both may leave, everything expires, fair | `AnsweredAtMostOnce`, `OnlyOwnEntryRemoved`, `AskAnswered` | no second answer, no removal of a later request, no requester left waiting, but for two tasks that end one request at once and a responder that is gone |
| `Events` | 2 streams that use either name or both, 2 events | `TypeOK`, `AckIsTrue`, `NoRepeat`, `AckComesFirst`, `KeepsLog`, `NobodyPassedOver` | the log, its acknowledgements and who gets what, how often |
| `Pages` | 4 clients, offsets and limits up to 3, 2 changes during a walk, fair reader | `NextMissesNobody`, `NextRepeatsNobody`, `PrevMissesNobody`, `TotalPagesIsTrue`, `WalkEnds` | what a walk along the links shows of a registry that changes |
| `Channels` | 2 clients that read, 1 slot, 6 plans, up to 2 broadcasts, fair | `WaitsOnlyForClients`, `SlowClientKept`, `MessageHandled`, `BroadcastEnds`, `OverdueIsTold`, `ServerStops` | full channels and the queue of the lock delay, but nothing waits for ever |
| `SwaggerPage` | 3 releases, 4 visits, fair browser | `OneRelease`, `SchemaIsCurrent`, `PageEnds` | what a page is made of while the server changes |
| `RegistryOneHolder` | 2 streams, 1 name | `OneHolder` **violated** | finding 1 |
| `EventsUnannounced` | 1 client, 1 stream, fair | `StoredIsBroadcast` **violated** | finding 2 |
| `ChannelsStuck` | 2 clients, one of them does not read, fair | `OverdueIsTold` **violated** | finding 3 |

The type invariants of `Channels`, `ClientPages` and `SwaggerPage` are proved (section 4) instead of
run.

**Bounds.** A conflict over a name needs two streams; a second name on one of them lets a stream
change its name, leave a registration behind and give the heartbeat two clients to visit
(`Registry`, 555,313 states). Every stream is used once, so a behaviour has as many reconnections as
streams less one; every other counter is finite by itself. `RegistryDead` has one name, for the sake
of liveness checking: one stream with two names was checked as well (5,559 states), two of each are
beyond a few minutes. Two clients of a query make a rotation and three a rotation in which order
matters; `MaxLength` is one entry per client and `MaxTurns` lets the cursor wrap around. In
`QueryRouting` the interesting cases are a client that asks and answers at once, two askers of one
id and a second responder (`QueryAnyone`, 427,469 states, where client 2 may be selected for its own
request), and an id that is used again, late answers and timeouts for the request before, and a
client that answers unasked (`QueryKept`, 134,178 states). Two askers with `MaxSends = 2` next to a
responder that leaves were checked without fairness as well (7,808,700 states): no safety property
of the two runs is violated. In `Events` (1,106,657 states), two events are two transactions and two
broadcasts at a time, and two streams that may both use both names are a reconnection, a conflict
and a stream with two names in the middle of a broadcast. Three streams, one of them with both
names, were checked as well (4,141,369 states). In `Pages`, `MaxOffset = 2` of four clients makes
links that are refused, a limit of 3 pages that overlap on the way back, and two changes may move a
client there and back; `MaxPages` is never reached. In `Channels` (46,164 states), one slot makes
every send but the first wait, so that all tasks can be stuck at once. The six plans are a question
and its answer while a client expires and the request gets too old, so that the heartbeat has a
client to wait for before it comes to the request, or while the server is told to stop; a broadcast
next to a registration while a client expires, or while the server is told to stop; a broadcast next
to a question; and two broadcasts. In `SwaggerPage`, three releases and four visits allow two
upgrades with a kept page in between. No model bounds the interleavings.

**Deadlock** is not checked: a broker whose clients have all done what they do is idle, and streams,
request ids and events are finite in the models. `Pages` has no end and is checked.

**Fairness.** tokio polls every task that can run, so a handler that has begun goes on (weak
fairness of the steps of one handler) and so does the background task; time passes (weak fairness of
`Expire`). A stream whose transport is gone delivers what was buffered and then ends: `StreamEnds`
is not enabled while one of those messages is being handled, hence strong fairness, and only for
`s \notin rx`. No client is required to ask, answer, leave or stay. Fairness of the background task
as a whole is enough because each of its loops is finite. The escape `KeptAlive` of the two
properties of `RegistryDead` is not a matter of scheduling: a stream that was refused the name
refreshes `last_seen` with each of its messages, so that the dead holder of the name never expires.
In `EventsUnannounced` a transaction ends, well or badly, and each broadcast goes on, that is,
clients read, which the broker cannot enforce: the counterexample does not need a client that does
not. `Events` assumes no fairness. In `ClientPages` the reader, not the broker, is fair: it follows
the links it is given. The sends of `ClientRegistry` and `QueryRouting` do not wait. In `Channels`
they do: tokio's channel hands its slots to the waiting senders in turn, so a send that is possible
again and again happens (strong fairness of `Sends`); all other steps of a task have weak fairness.
The clients in `Readers` read what they are sent, whatever else they do: a client that reads only
after the broker has taken what it wrote can close a circle of full channels through the broker, and
is not among those the liveness properties are about. In `SwaggerPage` the browser goes on with its
page.

## 4. What is proved

For every value of the constants, from the named assumptions of the modules (`NoneIsApart`,
`MayRegisterTyped`; `ClientsAreOrdered`, `ListsTyped`, `ServesTyped`, `MayAskTyped`, `BoundsTyped`,
`NoneIsNoRequest`; `SessionsTyped`, `ClientIdsTyped`, `MaxEventsTyped`; `CapacityPositive`,
`TasksApart`, `CastsExist`, `PlansTyped` and their like): any number of streams, names, clients,
queries, requests and events.

* `ClientRegistryProofs`: every safety property of `ClientRegistry` but `OneHolder`, whatever
  clients do. The invariant `BasicInv` gives `TypeCorrect`, `RegistrationIsAcked` and
  `EndedIsUnregistered`: it adds to these properties a `Shape` (what a session has in hand at each
  `pc`: a job exactly during a registration, an id before a disconnection), that the registration in
  progress was acknowledged (`PendingWasAcked`; without it, insertion could register somebody who
  was never told), and that a stream was open before (`AckedIsOpen`). `LiveClientStays`,
  `ListingStays` and `NoOrphans` say whom a loss can be blamed on. The cases are those of the
  writers of the two tables (`TableWriters`, `HandlerWriters`); the one that matters is the
  heartbeat, which must not expel a stream because of its own heartbeat unless it is dead.
  `HeartbeatInv` says so: the channel it failed on has no receiver (`ExpelledIsDead`), and what it
  holds was acknowledged under that name (`HeldWasAcked`), so that its stream has been open and
  cannot get a receiver back. `SoleUserIsServed` needs more, because being served is not inductive:
  as long as a stream is the sole user of its name, nobody else has anything left to do under it
  (`Undisturbed`: no other session names it, no visit of the heartbeat holds it for another stream,
  no other stream is registered), and its own registration, half done, carries what was declared
  (`Served`). One lemma each for the registrations, the other steps of a session and the heartbeat.
* `RoundRobinProofs`: the strategy returns a candidate (`NextClientIsCandidate`) and no two
  candidates have the same successor (`SuccessorIsInjective`), for every finite or infinite set of
  naturals. So the successor is a permutation of a finite set of candidates and a rotation skips
  nobody.
* `HandlerVectorsProofs`: every property of `HandlerVectors`, for vectors of any length. Its first
  half is about the operators: the ranks of finitely many places count from one to their number
  without gap or repetition (`RanksCount`), so that a `Listing` has every chosen entry once and in
  order (`ListingIsOrdered`), which makes `Sorted` a sorted permutation (`SortedVector`) and
  `Without` a removal that keeps the others in order (`WithoutVector`). From these,
  `StrategyFollowsRotation`: the index arithmetic of the code selects an entry of the vector, and
  without repetitions it is the successor of `RoundRobin`. `RepeatHoldsCursor` shows what
  repetitions do: a client listed twice and selected last is selected again. `VectorsTypeCorrect`
  holds whatever clients register. The other two assume `ListedOnce`: `Fresh`, and no registration
  lists a query twice. `LoadIsShared` needs to know where in the rotation the cursor stands, because
  equal counts alone do not exclude that the next turn goes to a client that is ahead; `RotationInv`
  adds that no vector repeats an id (`NoRepeats`), and that the clients with one turn more are those
  from the start of the rotation to the cursor (`Rotation`). `VectorsKeepPromise` is the refinement,
  step by step: registration is an `Offer`, disconnection a `Withdraw`, a selection a `Select`.
* `QueryRoutingProofs`: every safety property of `QueryRouting`, whoever leaves, answers unasked or
  uses an id again and whatever expires. `RoutingInv` is for `RoutingTypeCorrect` and
  `OngoingRequestsAreServed`: every copy of an entry, in a session's hands (`HandledIsAsked`), in
  the table (`TableIsGenuine`) or in the sweep's snapshot (`SnapshotIsGenuine`), stems from a
  request its requester made, and its responder declared the query. The copies outlive the entry, so
  that the table alone is not inductive. `OngoingRequestsAreServed` rests on
  `NextClientIsCandidate`. `RoutingUsesTable` says that the selections and disconnections are steps
  of `HandlerSets`.

  `NoSecondAnswer`, `NoRequestIsForgotten` and `RemovalsAreOwn` follow the life of a request, in
  `RequestInv`. While its session has it in hand nothing else knows of it (`OverFirst`). As long as
  no two tasks set out to end it, one task tells it, once, and the entry stays until that task has
  removed it (`UncontestedIsSingle`, with `SweptApart` for the sweep). Under an id that was not
  disturbed, what a task is about to end is what the table holds, and the table holds nothing while
  a request under the id is in hand (`Undisturbed`): a removal by id hits the entry it is about.
  Whoever is about to remove a request has told it (`ForgottenIsTold`), so that a request that is
  over is ongoing, told, dropped, disturbed, or its client is gone (`Accounted`).
  `AnswersReachTheirAsker` adds what responders were asked (`QuestionsInv`): what a client was
  asked, and has not answered, was forwarded; so if the answer finds another request under the id,
  the one asked is over and is accounted for.

* `SourceEventsProofs`: every safety property of `SourceEvents`. `LogInv` is what the clocks need:
  one transaction writes at a time and has the clock after the last (`OneWriter`), only entries of
  the log are acknowledged or announced (`OnlyLogged`), and the bound on the events leaves room
  (`RoomLeft`). With it each step is a `Store`, a `Deliver` or a stutter of `EventLog` (`LogKept`).
  `OnceInv` adds what the broadcasts need: whoever is registered or told is an open stream
  (`Opened`), an event to be acknowledged is one session's and has no broadcast yet (`Pending`),
  nobody has an event before its broadcast, nor under a name that is still to be visited
  (`Unvisited`), and during a broadcast whoever can be reached has the event or is still to be
  visited (`Visited`); the last is kept by the read lock, `Writable` in the model. `Informed` is
  that the source of an announced event was told or could not be. From these follow `SentOnce`,
  `AcksAreTrue`, `AcksComeFirst` and `NobodyLeftOut`.

* `ChannelsProofs`: `TypeCorrect`, `NoSelfDeadlock` and `SlowClientsStay`, for any clients,
  capacity, plans and number of broadcasts. That the broker never waits for itself is a statement
  about the head of the queue of the lock: if it is a writer and cannot go on, some broadcast holds
  the lock, and that one can send, visit or release, or waits for a client. For this the queue must
  hold exactly the tasks that wait, each once (`QueueExact`), and a broadcast's script must be one
  of three shapes (`CastsInOrder`). For `SlowClientsStay`, a removal must be right wherever it
  stands in a script: behind a failed send to a client that is gone, or in a session that is closing
  (`RemovesRight`).
* `ClientPagesProofs`: every safety property of `ClientPages`, for any ids and limits, from
  `ClientIdsOrdered`, `MaxTyped`, `NoneIsNoOffset` and `WalksAreRemembered` (the list of pages is
  long enough for any walk). `PagesTypeCorrect`: no page has a link below zero, and no count is
  divided by zero. `NextLinksMissNobody`, `NextLinksRepeatNobody` and `PrevLinksMissNobody` rest on
  `WalkInv`, which says where clients are now, in the registry that has changed since the last page:
  what was seen along next is behind the walk unless it was pushed forward (`SeenIsBehind`), what
  was not seen is ahead of it unless it was pulled back (`UnseenIsAhead`), and likewise along prev
  (`UnseenIsBefore`). `TotalPagesAreWalked` adds the counts of a walk while nobody comes or goes
  (`QuietWalk`), and that the rounded division gives the number of pages (`CeilingIsUnique`).
* `SwaggerPageProofs`: `NoMixture` and `SchemaCurrent`. `CacheInv` says that, as long as nothing was
  cut in two, the cache is being filled in order from the running release, or is full of one
  release.

**Only model-checked**: everything temporal under fairness (`DeadClientForgotten`,
`DeadClientRetracted`, `RequestResolved`, `AskAnswered`, `WalkEnds`, `MessageHandled`,
`BroadcastEnds`, `OverdueIsTold`, `ServerStops`, `PageEnds`), which is out of the prover's reach.
Every invariant and every action property of the passing runs is stated by a theorem.

## 5. Where code and documents disagree

Each of these is a run that TLC ends with a counterexample.

1. **Two holders of a name** (`RegistryOneHolder`). The id is looked up, acknowledged and inserted
   under locks of its own; two streams that register one id at once are both told
   `ClientRegistered`. `tests/bdd/features/client_connects.feature:13` expects the second to be
   refused.
2. **An event stored in silence** (`EventsUnannounced`). If the source is gone when its event has
   been stored, the handler returns before it spawns the broadcast. `README.md:48-49` says that an
   event is stored and then broadcast to all connected clients.
3. **A client that does not read stops the timeouts** (`ChannelsStuck`). The heartbeat task waits
   for room in the channel of an expired client without a limit. While that client is connected and
   does not read, no request of any client times out, and no dead client is expelled.
   `src/config.rs:40-41` promises a `QueryTimedOut` for every query without a response.

The models show further behaviour that no document rules out. The properties name it as the
exception, so that nothing else is hidden by it; leaving the exception out brings it back:

* `open_session` adopts the id of a registration whatever came of it. So a stream that was refused
  disconnects the holder of the name when it ends (`LiveClientKept`), and until then its messages
  refresh the holder's `last_seen`: a dead client stays registered as long as they come
  (`KeptAlive`);
* the heartbeat fails on the channel of an old stream and removes the new one of the same name
  (`LiveClientKept`); a client that reconnects between the two steps of its old stream's
  disconnection loses the queries it has just declared (`HandlersStay`); and a registration
  overtaken by a disconnection leaves handlers without a client (`NoOrphanHandlers`), to which
  requests are routed in vain;
* a selected responder that is gone when it is looked up ends the handler with a log entry
  (`state.rs:303`, with a TODO): no entry, no timeout, no answer (`dropped`);
* a request that is answered while the sweep has it in its snapshot, or that two clients answer,
  gets two answers, and the later removal, which goes by id, may take a new request with it
  (`contested`, `Disturbed`);
* two clients that use one id at once both pass the check for a duplicate before either is recorded,
  and one entry overwrites the other (`raced`);
* nobody checks who answers: the broker takes a late answer to an earlier request under the id, or
  that of a client that was not asked, for the answer to what is ongoing;
* a stream that registers two names gets every event twice, once under each;
* a client that does not read holds a broadcast up (`state.rs:460`), and with it the read lock,
  everybody who needs the write lock, and the events of the others, for as long as it stays
  connected;
* an answer that arrives between `send` and `record` is dropped, so its requester hears
  `QueryTimedOut` (`AskAnswered` counts that as being told);
* `FairShare` counts the turns that one query's requests take in a row: all queries share one
  cursor, and requests that alternate between two queries may select the same client for ever. A
  query listed twice in a registration does so even alone, since two equal entries of a vector hold
  the cursor (`RepeatHoldsCursor`);
* events are broadcast by tasks of their own, so clients may get them in different orders, and not
  in that of their clocks. No document promises an order;
* without the condition `~cut`, `OneRelease` fails: after an upgrade a page whose first load was
  interrupted runs scripts of two releases, for up to a year. The comment at
  `openapi_handler.rs:51-52` calls these headers sensible; the names of the scripts carry no
  version;
* a next link may lead to an offset above 100,000, which the same endpoint refuses;
* `last_seen` is refreshed by the broker's own heartbeat, though `src/domain/client.rs:11` calls it
  the time of the client's last message.

## 6. What is not modelled

* **Composition**: `QueryRouting` starts with registered clients that never return. A request that
  outlives a reconnection of its requester is not covered yet.
* **Payloads**, the wording of errors, logs, telemetry, style sheets, the inside of Swagger UI: no
  control depends on them.
* **Protocol messages** that change no table (a message without payload, a message before
  registration) are covered by `StreamEnds` and by stuttering.
* **The database** beyond its transactions. It is in memory and lives as long as one of the pool's
  connections; whether the pool may close the last idle one is up to its defaults.
* **The detail of one client** (`GET /api/clients/{id}`), which reads two tables under two locks;
  the list of source events is a stub in the code.
* **Panics and second names in `Channels`**: such a session leaves a sender in the registry, so a
  graceful stop waits for the heartbeat to find the channel dead; `ClientRegistry` has the part of
  it that is about the tables.
* **Start-up**: the validation of three durations, before anything runs.

## 7. Plan

1. *Done*: `ClientRegistry`, `HandlerVectors`/`HandlerSets`/`RoundRobin`, `QueryRouting`,
   `SourceEvents`/`EventLog`, `ClientPages`, `Channels`, `SwaggerPage`, with the proofs above.
2. `Server`: registry and routing composed, with reconnections; the abstract `Directory` (a client
   is present, with its queries, or absent) that `ClientRegistry` implements for sole users of a
   name.
3. The detail of one client in `Server`, and the life of the in-memory database in `SourceEvents`.

## 8. Running

    tlc -config Registry.cfg MCClientRegistry.tla           # Registry*: MCClientRegistry
    tlc -config Handlers.cfg MCHandlerVectors.tla
    tlc -config QueryAnyone.cfg MCQueryRouting.tla          # Query*: MCQueryRouting
    tlc -config Events.cfg MCSourceEvents.tla               # Events*: MCSourceEvents
    tlc -config Pages.cfg ClientPages.tla
    tlc -config Channels.cfg MCChannels.tla                 # Channels*: MCChannels
    tlc -config SwaggerPage.cfg SwaggerPage.tla
    tlapm ClientRegistryProofs.tla                          # and the other *Proofs modules

`Channels` takes two minutes with two workers, `QueryKept` a minute and a half, `QueryAnyone` and
`Events` a minute, all other runs less.

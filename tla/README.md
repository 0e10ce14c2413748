# A verification project for OTP-Server

OTP-Server (C++, libuv) is the server of a distributed-object protocol: a set of
daemons that exchange datagrams over channels. This directory holds TLA+ models
of its core logic, the TLC runs that check them, and theorems checked by TLAPS.
Paths are relative to the repository (`src/database/...` is
`src/src/database/...` in `PROJECT.json`).

## 1. Inventory of the system

| Component | State it keeps | Operations | Talks to |
|---|---|---|---|
| Message director (`src/messagedirector`) | `ChannelMap`: which participant subscribes to which channels and ranges; the queue `m_messages`; participants, post-removes, terminated participants; the upstream link | subscribe / unsubscribe (channel, range, all), `route_datagram`, `flush_queue`/`routing_thread`, `process_datagram`, `remove_participant`, upstream control messages | every role, as an `MDParticipantInterface`; another message director upstream over TCP |
| State server (`src/stateserver/StateServer`) | `m_objs`, `m_root_object` | generate (3 forms), delete-AI-objects | objects, through the message director |
| Distributed object (`src/stateserver/DistributedObject`) | location, parent sync flag, AI channel (explicit or inherited), owner, fields, `m_zone_objects`, deletion progress | location change, AI change, owner change, set/get fields, deletion of a subtree, zone and interest queries | its parent, children, AI, owner, clients |
| Database state server (`DBStateServer`, `LoadingObject`) | loaded objects, loading objects with the datagrams queued on them, inactive loads, query contexts | activate, delete, get/set on inactive objects | database server, state-server objects |
| Database server (`src/database`) | one `DBOperationQueue` per doid | create, delete, get, set, conditional update | a backend: `MongoDatabase` (worker threads) or `OldDatabaseBackend`/`YAMLDatabase` (synchronous) |
| Client agent: clients (`Client`, `OTPClient`, `DisneyClient`, `ClientAgent`) | per client: channel, session objects, owned/seen/pending/historical objects, interests, `InterestOperation`s, timers, queued datagrams; per agent: `ChannelTracker` | the client protocol's state machine, add/alter/remove interest, object entrance and exit, heartbeat | state servers, via the message director; the client's socket |
| Client agent: game managers (`OTPClientManager`, `ToontownClientManager`) | `m_account2operation`, `m_connection2operation`, `m_context_operator`, each operation's progress; the developers' account bridge | log in; list, create, name, describe, load and unload avatars; friends; chat | the database server, the database state server, other clients of the account |
| Network (`src/net`) | `NetworkClient`: send queue, `m_is_sending`, `m_local_disconnect`, write timer; acceptors | send, flush, write time-out, disconnect, frame reassembly | sockets, through libuv on the main thread; its handler, a client or participant |
| Utilities (`src/util`) | `TaskQueue`, `Timeout`, `EventSender`, `Datagram` | enqueue/flush, start/cancel | threads, the event loop |
| Configuration, event logger, DC parser (`src/config`, `src/eventlogger`, `src/dclass`, `src/dna`) and vendored code (`src/json`, `src/deps`) | | parsing, constraint checks, formatting, output | |

Where the behaviour is hard:

* **Threads.** The message director may route on its own thread; MongoDB
  operations complete on worker threads. Handlers called from these send on
  connections, close them, and cancel timers of the event loop.
* **Messages.** Objects agree about their tree (who is whose child, in which
  zone, with which AI) only through messages that cross each other.
* **Partial answers and timeouts.** An interest is complete when counts from the
  parent and entries from the objects agree, or when its timer fires; a loading
  object queues datagrams until its database answers.
* **Failure.** A database call may throw between two others; a participant or the
  upstream link may go away with messages in flight; a client may leave, or its
  session be taken over, while an operation of it waits for the database.

What makes each correct: the database behaves as if operations ran one at a time; the
director delivers each datagram once to whoever is subscribed, and the upstream knows
who that is; parents, locations, AIs and owners agree with the objects; a loaded object
continues from the stored one; a client is shown its interests and nothing else, and an
account has one session that runs one operation; a connection loses nothing before it is
closed and its handler learns that it is.

## 2. Modules

| Module | Models | Source |
|---|---|---|
| `DBOperation` | operation records, `is_independent_of` and its overrides, validation, what an operation does to an object | `database/DBOperation.*` |
| `DatabaseServer` | the scheduler: one `DBOperationQueue` per doid over any backend | `database/DatabaseServer.*`, `DBOperationQueue.*` |
| `MongoDatabase` | the MongoDB backend: worker threads, one action per database call, the doid allocator | `database/MongoDatabase.cpp` |
| `SerialDatabase` | the abstract promise: one operation at a time | the comment of `DBOperationQueue.h` |
| `ChannelMap` | who is subscribed to what, as pure operators | `messagedirector/ChannelMap.*` |
| `MessageDirector` | participants, the routing queue, post-removes, the upstream link and the upstream director | the other files of `messagedirector` |
| `DistributedObject` | one handler per message, as operators from an object and a message to the object afterwards and the datagrams it routes | `stateserver/DistributedObject.*` |
| `StateServer` | the objects, the datagrams between them and everybody who asks something of them | `stateserver/StateServer.*` |
| `ObjectAnswers` | what an object in RAM and one on disk answer, shared by the next two | `stateserver/DistributedObject.cpp`, `DBStateServer.cpp` |
| `StoredObject` | the abstract promise: loading and asking the database take no time | read off the handlers of the next |
| `DBStateServer` | the server of stored objects and its loaders, each handler an operator on the server's record | `stateserver/DBStateServer.*`, `LoadingObject.cpp` |
| `Client` | one handler per datagram and request of a client, as operators from the client before to the client after | `clientagent/Client.*`, the output side of `OTPClient.cpp` |
| `ClientVisibility` | a client between a game, daemons and a cluster of objects that come, move, change and go; timers and both modes of the directors | the callers of `Client.cpp` in `OTPClient.cpp`, `util/Timeout.cpp`, `stateserver/DistributedObject.cpp` |
| `GameOperation` | what every operation of a manager does: ask, wait, be registered, end; as operators on an agent | `clientagent/OTPClientManager.*` |
| `Friends` | friends: declared to each other, removed, listed | `clientagent/ToontownClientManager.cpp` |
| `GameManager` | accounts and avatars, over the two before | `clientagent/OTPClientManager.*`, `ToontownClientManager.cpp` |
| `ClientAgent` | connections with their channels and sessions, the database, loaded avatars and other agents around the managers | `clientagent/DisneyClient.cpp`, `Client.cpp`, `ClientAgent.cpp` |
| `NetworkClient` | a connection, as operators on its record: one per function that holds `m_mutex` | `net/NetworkClient.*` |
| `Timeout` | the life of a timer object that deletes itself | `util/Timeout.cpp` |
| `MainLoop` | libuv's events, the task queue and other threads around a connection, a heartbeat and an interest's timer | `util/TaskQueue.cpp`, the callers in `clientagent`, `messagedirector` |
| `*_MC` | values for the constants of a run | |
| `*_proofs` | theorems and their proofs | |

A definition `X_Word` beside a definition `X` is `X` with a plausible mistake.
`PROJECT.json` pairs each checked property with one of them: the property fails
when `X` is replaced by it, so the property depends on that line of the code.

## 3. Database server

`DBOperation` is pure. `DatabaseServer` keeps, per doid, the queue and the
running set of its `DBOperationQueue`. `HandleOperation` is `handle_operation`:
the operation starts (`can_operation_start`) or is queued. `Complete` is
`clear_operation`, called by the backend in any order: `finalize_operation`
decides whether the front may have been unblocked, and the loop starts what can
start. `RejectRequest` is a request whose `initialize()` fails: a modification
passes through `clear_operation` without ever having run, a get is dropped
without an answer.

`MongoDatabase` puts threads under it. A worker takes an operation from
`m_operation_queue` and performs the database calls of its handler, each one
atomic, as MongoDB promises for one document, and each able to throw
(`DatabaseError`). A conditional update that matches nothing reads the document
a second time; a modification that touched a field that is not of the class is
reverted. `AssignMonotonic` and `AssignReuse` allocate doids, `FreeDoid` returns
them. Answering and `cleanup()` are separate steps: other threads run between
them.

`SerialDatabase` is what "as if they had run one at a time" means: an operation
runs atomically, not before an earlier one it is not independent of.
`SerialSpec` maps the MongoDB model to it: an operation's outcome is decided at the
database call that takes effect, and the stored objects are the stored objects, but for
one whose modification is about to be reverted: it is seen as it was, and whoever has to
wait for that modification never sees it otherwise. (A concurrent writer of another field
does, section 8; no scenario has one.) The scenarios of the run differ in what may
arrive: operations that conflict in different ways and one failing call; creates and
deletes that exhaust the doids; a modification that is reverted.

## 4. Message director

`ChannelMap` translates the subscription operators, the two lookup indexes
(`channel_subs`, `range_subs`) beside the per-subscriber sets, and who is told
about a change (`on_add_channel`, `on_remove_range`, ...).

`MessageDirector` runs two directors. This one is modelled step by step:
`route_datagram` appends to `m_messages`; the main thread's `flush_queue`
(`m_main_is_routing`), or the routing thread when `Threaded`, takes the next one
(`TakeMessage`), hands it to each subscriber (`Deliver`, or `DeliverTruncated`,
which ends the routing as the exception does), then to the upstream
(`FinishMessage`, which also deletes the participants that terminated). The
participants act between any two of these steps; a call of `route_datagram` from
another thread posts a `flush_queue` task. `RemoveParticipant` is `terminate`,
`remove_participant` and the post-removes it routes, nested in a flush or not.
The upstream director runs the same code; its handling of one datagram is one
step. It sees this director as the participant `Down`. TCP is a FIFO each way.

Scenarios differ in the channels and ranges that participants may change, how many
changes and datagrams there are, and in `Threaded`: `UpstreamIsExact`, `NoReplyLost` and
`PostRemovesSettled` hold without the routing thread only and say so. The first two say
also that no range contains a channel that is subscribed by itself (`Apart`): dropping
such a range withdraws the channel for everybody, the finding of `md_overlap`.

Two simplifications: a truncated datagram is still handed to all participants of
the upstream director (a receiver there may in fact end its routing), and the
test of `m_initialized` and the push that follows it are one step.

## 5. State server and loading

`DistributedObject` has one operator per message handler, with everything the
handler changes and routes. `StateServer` keeps the objects, the director's
queue `net`, and what others know: `view` is what listeners on a location, an AI
channel or an owner channel can conclude from the datagrams sent there, and
`queries` whom an interest query counted, who answered as counted (`entered`), and what
the asker, who listens on the locations it asks about, has heard leave since (`left`) and
knows to be there (`known`). Requests (generate, move, set AI, set owner, delete, delete
an AI's objects, query) are datagrams from outside. Four history variables serve
properties only: `former` (places objects have told that they leave), `reaped`, `early`
and `recounted`.

`Threaded` decides when they come. Without the routing thread, `flush_queue`
returns to the event loop only with an empty queue, so a request is taken when
everything before it is settled (`Quiet`), and a handler's datagrams are queued
together. With it, requests come between any two datagrams and a handler's own
datagrams are pushed one by one (`Push`).

A run starts in one of several *scenarios*: a tree, the kinds of request that
may come, how many, and the mode. The variable `scenario` holds it and never
changes; one run covers all of its scenarios.

Field updates, which the handlers pass on without looking at anything the model
keeps, active zones and bounces are left out.

**Loading.** The database state server listens to the channels of all stored objects. An
`ACTIVATE` makes a `LoadingObject` for one, which listens to the same channel, asks the
database for the object, queues the datagrams that come meanwhile, and becomes the object
or gives up. So each datagram is handled twice, once by the server (which ignores most of
them while the object is loading) and once by the loader or the object.
`DBStateServer.tla` has the server as a record (`m_loading`, `m_inactive_loads`,
`m_context_datagrams`, `m_objs` for the loaded objects) and a handler per message;
`HandleDatagram` is the server's, `LoaderReceive` the loader's, `HandleResponse` and
`Finalize` what an answer does, `ForwardDatagrams` what goes back to the server. The
database takes its operations in order and answers later.

`StoredObject` is the promise: a datagram takes effect at once, on the object in RAM if
there is one and on the disk. `StoredSpec` maps the server to it. What is in RAM while an
object loads is computed: the answer that is on its way, or will be when the database has
run what it has been given, with the loader's updates and its queue applied. The module
grants what the code takes: an object is loaded as an open GET_ALL will report it, though
it changed since, and what is asked of a loading object may also be answered from disk.

Malformed requests, objects of other classes and lost answers are left out, so is the
location an object is activated at; `DistributedObject.tla` has that.

## 6. Clients, managers and connections

**Interests and visibility.** `Client` translates the handlers of `Client.cpp`. A client is a record with the
fields of the class (`m_seen_objects`, `m_visible_objects`, `m_pending_objects`,
`m_interests`, `m_pending_interests`, ...); an operator takes it and a datagram to
the client afterwards, with what the game was told in `told` and what was routed
in `sent`. An `InterestOperation` is an element of `m_pending_interests`, with the
generates and the datagrams it holds back and the state of its timer. `Finish` is
`InterestOperation::finish`: the generates enter, DONE goes out, the operation is
erased, and what was held back goes through `handle_datagram` again. Where the code
dereferences an operation without looking whether it is there
(`try_queue_pending`, a timer made too late), the model sets `dangling`.

`ClientVisibility` composes it with

* the game, which is told what `told` contains and keeps what it shows (`Hear`);
* daemons that add and remove interests for it, make objects session objects and
  change its channel (`Direct`);
* the cluster (`Evolve`, `TakeRequest`, `Answer`): objects with a location, a value
  and an owner, which announce their changes on the channels `DistributedObject`
  announces them on. `StateServer` is what justifies this abstraction: a query is
  counted by the parent, relayed, and answered child by child; a child that has
  moved since answers as one that was counted, as one that was not, or not at all;
* the way between them: subscriptions and queries travel `up` in order, datagrams
  come `down` in order, and each end drops what nobody there subscribes to;
* the main thread: it reads from the game, makes timers and fires them. With the
  routing thread (`Threaded`) a timer is made later (`posted`), and a timer that has
  fired may have to wait for the client's lock (`timing_out`), in which time nothing
  else happens on the main thread; without it, these are single steps.

Scenarios are as in `StateServer`; `hasty` says whether somebody asks for something
while an operation is still open. Parents are always known, and interests always
permitted (`m_interests_allowed` is ENABLED). There is one class, so generates are not
sorted. Permissions, the states before authentication, declared objects, sendable
fields, post-removes and the heartbeat are left out; `OperationAt` is the order in
which libstdc++ iterates over `m_pending_interests`.

**Managers.** `GameOperation`, `Friends` and `GameManager` have the operations of the client
manager. An `agent` is a record
of its clients, of all operations started so far, of what is registered in
`m_account2operation` and `m_connection2operation`, and of what was routed: `requests` to
the database, `mail` to others. `run_operation` registers and `start`s an operation or
disconnects the client of the running one; `handle_answer` takes an answer by its context
to the operation that waits for it, if it does; `off` and `kill` end one. An operation
keeps a reference to its client. A call on a deleted client or a null entry is undefined
behaviour; the model stops there (`crashed`), and the properties speak of the states
before.

`ClientAgent` is around it: connections come (`Connect` allocates a channel), leave
(`PeerLeaves`), and are annihilated later, so that what they have sent before is still
handled; messages of `scenario.messages` are received; the director delivers in order to
those who are subscribed at that time; the database answers in any order that keeps the
requests for one object in order. Avatars are in RAM (`loaded`) between activation and
DELETE_RAM, for the owner's channel; loading takes no time here (`DBStateServer` has it).
`OtherAgentCreates` is the rest of the cluster, `ObjectDies` somebody who deletes. Bad
versions, LAST_LOGIN and chat are left out, and handlers of different clients exclude each
other.

Friends. An avatar that is loaded has its list read (`coming_online`), each friend on it is
asked for at the database state server (`get_activated`), and to one that is in RAM both are
declared (`tell_online`): a client may whisper to declared objects only. A removal goes
through read, question, write for one avatar and then for the other; a list is read, each
friend described by an operation of its own, then each asked for. `m_game_name` decides
whether the manager is Toontown's: the base class does nothing when an avatar comes or goes.
Scenarios about friends begin with clients that are logged in and may play (`players`,
`Player` is what a login and a SET_AVATAR leave), for the requests of the others are enough
without them. A whisper, the cache of described avatars (its entries are made to expire
after 3600 ticks of the system clock, some microseconds) and DNA and names in the
descriptions are left out.

**Connections.** `NetworkClient` has one operator for each piece of code that holds the
connection's lock; `MainLoop` runs them. A thread is a stack of calls to make, and a step
makes the topmost up to the next release of a lock: `shutdown` posts the closing, lets go,
and only then forgets the socket (`Forget`). The main thread serves libuv's events
(a write completed, its timer ran out, the peer left, the handle is closed, tasks are
there) when its stack is empty. `enqueue_task` signals it unless it is called on the
main thread inside a flush. `Timeout` objects delete themselves in the
callback or in a posted `cancel`; the interest operation of one client keeps a pointer.

## 7. Runs

Every run has `CHECK_DEADLOCK FALSE`: the supply of requests is bounded, and the
server rests when it is used up.

| Run | What it asks | Instance |
|---|---|---|
| `scheduler` | Do conflicting operations ever overlap or overtake each other, is every one completed? | two objects, two fields, eight kinds of operation, any four of them; one object with three operations already has every queue shape, the fourth makes the loop in `clear_operation` start two and leave one |
| `mongo` | Do two workers and their separate database calls add up to one operation at a time, are answers true, is a doid ever handed out twice, even when calls fail? | three scenarios: seven operations on one object that conflict in all ways, any three, one failing call; three creates and two deletes on three doids, two in use, so that the counter runs out and the free list is used; a modification that is reverted among four others |
| `mongo_race` | *finding*: a mismatch whose snapshot meets the criteria | one update, one create |
| `md` | Is any datagram, answer or post-remove lost or repeated while participants come, change and go; does the upstream forward what is subscribed to here; is a participant deleted under the routing's feet; do the indexes stay consistent? | three scenarios of two participants: four changes of channels and ranges with a hole to cut; two changes and two datagrams, one of them answered; the routing thread with three changes, overlapping ranges and one datagram |
| `md_overlap` | *finding*: a dropped range takes another's channel with it | four changes |
| `ss_requests` | Do parents, listeners, AIs, owners and askers agree with the objects when requests and datagrams cross? Does a deletion, from one end or from two, take everybody with it and end? | six scenarios with the thread: generation under one of two parents, a child between two parents whose AIs change, parents that are generated late, moves that cross a query (four requests: away, back, away again, query), generation and moves that cross one, deletions that cross each other and a query; otherwise three requests, for two are needed to cross and the third crosses with the repair. Five without it, trees of four objects (a line; two leaves on the second level), three or four requests; an AI that is set and lost deletes a line or a subtree from two ends |
| `ss_lost_ai` | *finding*: only leaves tell that an AI was lost | one request |
| `loading` | Does the database state server do what it would if loading and asking took no time, is every question answered once, is nothing awaited that will not come? | an object with a field on disk and one in RAM: any three of eleven requests, five of four (read, load, change, unload, load again); one that is not there; two objects |
| `client` | Does the game see exactly what its interests cover, is it told nothing that contradicts what it was told, does every interest finish, and once? | seven scenarios of two objects, two parents, three zones; two or three requests (open, open an overlapping one, close or alter) and one to three changes: one before the count, one between count and entry, one after |
| `client_ghosts` | *finding*: an interest closed too early shows objects nobody looks at | two requests |
| `managers` | Does an account run one operation and have one session, keep the avatars it was told of, leave none in RAM, do friends know of each other and forget each other, and does every operation end? | five scenarios of accounts: two connections with five requests take a session over, load and unload; four requests and another agent fill an account's two slots and the database; names and details with a vanishing avatar; a list with two; three newcomers on two channels. Six of friends: two begin and stop to play with three requests; one leaves while the other comes; a third connection takes one over; two remove each other, stop to play or leave; a list of two friends, one of whom may vanish |
| `connection` | Is anything lost, written twice or called back too late when two threads send on a connection, close it and end an interest, and does the handler learn of the end? | three scenarios with four calls each, on two threads, each call up to six steps; a queue of at most three datagrams |

Fairness. `scheduler` assumes that the backend keeps completing operations, `mongo` that
a worker with something to do does it, `md` that the event loop keeps flushing and TCP
keeps delivering, `ss_requests` that the director routes what it was given, `loading` that
database and director deliver, `client` that directors route, timers fire and the main
thread runs its tasks, `managers` that the director delivers, the database answers and
closed connections are annihilated. `connection` assumes that a thread goes on with a
call it has begun, that libuv serves closed handles, signals and the interest's timer,
and that a write completes or its timer runs out; without a write timer, that the peer
reads. Each is a loop in the code that runs as long as the process does; none assumes that
a request arrives.

Bounds. Every run is complete for its instance. A scenario's requests are counted so that
one more than meets in the smallest interesting interleaving is there: two requests
cross, a third meets the repair. Numbers that grow (contexts, doids, channels) are bounded
by the requests.

## 8. Findings and deviations

The runs marked *finding* each refute a sentence of the repository; the
sentence and the code are quoted in `PROJECT.json`:

* `MismatchIsAMismatch`: between `find_one_and_update` and the second read another
  thread may create the object; the answer is a mismatch with a snapshot that
  meets the criteria.
* `UpstreamCovers` with overlaps: `unsubscribe_range` looks at ranges only when it
  decides what to withdraw, so a single channel inside loses the upstream.
* `AIDeletionTold`: an object that waits for its children ends in
  `finish_delete(true)` (`DistributedObject.cpp:521`), whose `ai_deletion` is false by
  default: clients see an ordinary deletion of everything but the leaves.
* `SeenThroughInterests`: `remove_interest` (`Client.cpp:270`) leaves the interest's open
  operation where it is. When it finishes, its objects are shown though nobody looks at
  their zone, and the client is no longer subscribed to hear that they change or go.
  Hence `Orderly` in `SeesTheWorld` and in `OperationsAreThere` (a part of `TypeOK`).

Deviations seen while modelling, without a run of their own (each can be seen by
changing a constant as told):

* A rejected modification is undone by writing the old document back as a whole
  (`MongoDatabase.cpp:871`; a comment admits it): concurrent operations on other
  fields are undone too. Add a set of `g` to the scenario `Undoing` and `SerialSpec` fails.
* With the routing thread, `on_connect` sets `m_initialized` before the queued
  control messages are sent (`MDNetworkUpstream.cpp:30`): a request overtakes the
  subscription its answer needs. `NoReplyLost` fails with `Threaded = TRUE`.
* With the routing thread a child misses its parent's new AI when SET_AI is routed
  between its GET_AI and its listing (`DistributedObject.cpp:280`: a parent that lists
  nobody tells nobody). With the thread `AIInherited` is asked of parents that have a
  child that stays (`Peopled`); put `Flat` for `Fork` in its scenario and drop `Peopled`,
  and it fails. A child woken by a late parent never learns the AI (`:708`), hence
  `ParentsFirst`.
* A child that is older than its parent is listed and counted by it (`:708`), but no
  LOCATION_ACK follows, so `m_parent_synchronized` stays false and it answers queries as
  one that was not counted, against the comment at `:845`: `QueriesAnswered` fails without
  `ParentsFirst` for requests {"generate", "generate_early", "query"}. With the thread a
  query may also reach the new parent before its children have answered: it counts none.
* With the routing thread an acknowledgement of an earlier stay in the same place is
  taken for the present one (`:653`): a child that moves, moves back and moves again
  enters as counted before it is, against the comment at `:845`. This happens in
  `ss_requests`, with four requests; `QueriesAnswered` excepts it by name (`before`), and
  fails without. Whoever asks knows what is there all the same: a location entry or a
  CHANGING_LOCATION follows.
* A subtree is deleted from two ends: a child that has begun to go tells its parent at once
  (`:303`), which then does not wait for it and may be gone first. This happens without the
  thread, on a line of four objects whose first and third have been given the AI that is
  lost. `SubtreesGo` asks that such a child is going itself, and that nobody is left behind.
* A deletion may begin anew, from the other end: `begin_delete` (`:301`) counts the children
  again but keeps `m_deleted`, which has counted some of them already; the comparison
  with the new count never holds, and the object waits for ever. One lost AI suffices, in a
  tree of four where a leaf, its parent and the root have been given it. `DeletionFinishes`
  excepts it (`recounted`), and fails without, in the scenario of `Bush` with "set_ai" and
  "delete_ai".
* With the routing thread, moves and deletions do not go together: a child that moves leaves
  its old parent's deletion waiting for it for ever (`:519`); one that moves to a parent
  that is going is left behind; an object that moves while it is going stays listed in its
  new place; one that is generated under a parent that is going becomes an orphan. Hence
  `TreesRest` in `ChildrenListed`, `QueriesAnswered`, `SubtreesGo` and `DeletionFinishes`.
* `m_root_object` is set before the root exists and never reset
  (`StateServer.cpp:58`); an orphan drops its AI without a word (`:236`); SET_AI
  with the inherited value does not make it explicit (`:270`); cycles of parents
  are possible beyond length one (`:207`). Nothing in the repository says what
  should happen; the instances keep parents below their children.

And in the client, each to be seen by changing one scenario or property:

* An object that moves from a zone the client looks at into one whose subscription has
  not reached the state server, and then on, stays with the client where it was
  (`SeesTheWorld` with two moves between zones that are being opened, also with one
  request for two zones). Hence scenarios with moves across opening zones allow one
  change.
* REMOVE_INTEREST for an unknown id makes an interest with id 0 (`Client.cpp:406`), whose
  removal erases interest 0 without closing its zones (`:268`): `SubscribedWhereInterested`
  fails in the scenarios `Zero`. Found when it could not be proved; `SubscribedTheorem`
  excepts it (`ZeroIsFree`).
* An interest is closed and opened again while its first operation is open. When that
  finishes, an entry it held back is queued under the second (`:859`: "the dg should be
  queued under the appropriate iop"), but `m_pending_objects` keeps the object under the
  first, and the next datagram about the object follows it there: in the scenarios
  `Reopening`, `client.dangling` becomes true.
* The channel changes while an operation is open: DONE goes to the old channel, not to
  the game (`:1001`).
* An interest whose zones are all being loaded by other operations is done at once,
  before its objects are there (`:237`, against `Client.h:251`).
* With the routing thread an operation may finish before its timer is made; the task
  then uses a deleted operation (`:97`). `OperationsAreThere` is asked without it.
* A timeout gives up objects that were counted; `SeesTheWorld` is asked without.
* CHANGING_OWNER does not remember an object the client owned but never saw (`:844`):
  a late update of it ends the session (`OTPClient.cpp:563`). `LateUpdatesForgiven`
  (a part of `NeverConfused`) is about objects that were shown.

In loading:

* A loader that relies on an open GET_ALL of the inactive object (`LoadingObject.cpp:58`)
  loads what that read finds: a change routed to the database since is not in RAM.
* A question that was queued on a loader may be answered from RAM and again from disk,
  when DELETE_RAM is queued behind it: `finalize` forwards the whole queue
  (`LoadingObject.cpp:111`), though `:93` speaks of a failed load. Hence the exception in
  `AnsweredOnce`.
* GET_ALL of a missing object is never answered (`DBStateServer.cpp:519`, `Silence`);
  GET_FIELDS of one is answered with success and no fields (`:444`); GET_FIELDS with an
  unknown field is answered twice (`:365`).
* An ACTIVATE that comes after DELETE_RAM while the object is still loading is ignored, and
  the object ends unloaded.
* If the database's answer is lost, `m_inactive_loads` and the loader stay for good, and so
  does every later loader that relies on them. The model loses none.

In the managers; where the model goes on, the properties except these states by name
(`crashed`, `killed_twice`, `allocated = 0`):

* `m_target_connection` is never set to true (`OTPClientManager.cpp:526`). A login's `off()`
  therefore erases from the accounts, and its entry in `m_connection2operation` stays
  (`OTPClientManager.h:151` describes the intent): a second LOGIN, or the login of the next
  owner of that channel, disconnects the client of the old operation, who may be deleted.
  A login that fails is killed through a null entry of `m_account2operation`.
* `kill` does not withdraw the operation's other contexts. The second invalid avatar of a
  list kills again, which finds a null entry, or the account's next operation.
* SET_AVATAR with an avatar already chosen calls `kill_account` without looking whether an
  operation runs (`:1553`): a null entry.
* When a client leaves, its operation stays registered: the account is locked until the
  answer comes, which is handled on a deleted client (answers go to a channel, so a client
  that is no longer subscribed gets none, and the lock stays).
* A request that comes while another runs disconnects the client of the running one, which
  on a taken-over account may be somebody else, and is itself dropped silently.
* Two logins to one account that are answered back to back eject each other. The ejection
  goes to every client that has joined by then, but its sender.
* `UnloadAvatarOperation` wipes the post-removes of a channel that has none (`:1369`): the
  DELETE_RAM of the avatar stays with the client. When an ejected client's post-removes are
  routed after its successor has loaded the same avatar, they unload it: it is played but
  not in RAM, the converse of `NoGhosts`, which the code does not ensure.
* A connection beyond capacity is logged, not closed (`Client.cpp:14`: the virtual
  `send_disconnect` is called in the constructor of the base). It keeps channel 0, nothing
  can answer it, and when it leaves, 0 is put among the free channels.
* Two logins with the same new token create two accounts, of which the later is kept; an
  avatar whose association fails stays in the database without an account.
* `lost_object` asks the database about an avatar when its client unsubscribes at once: the
  answer finds nobody, and friends are not told, unless the backend answers within the call.
* Details of a deleted avatar, asked for or as a friend's in a list, are taken from an empty
  record and throw (`Crash` in `handle_details`, `friends_failure`).
  `request_remove_avatar`, `acknowledge_avatar_name` and `clear_list` are never called; the
  first two would be registered under the avatar.
* Each description of a friend ends with the `off()` of its account (`m_user`,
  `ToontownClientManager.cpp:581`, made at `:659` with the default): the account is free
  while its list is being made, so another operation starts, and is deregistered by the
  next description, against `OTPClientManager.h:396`. `agent.disowned` names these accounts
  in `OneOperation`. The list asks with the client's channel of that moment, and is never
  answered when the avatar has changed meanwhile.
* A client without friends gets no list (`:638`).
* The friends list is read and written back without comparison, and the account is free after
  the first read of a removal (`:951`): two removals in quick succession by one avatar can
  lose one. Hence `OnlyTheseTwo` in `RemovedOnBothSides`: with a third friend to remove it
  fails without. A remover who leaves or stops to play between the two sides leaves the
  other's list as it was; the property is about removals that went through.
* A removal that crosses the other's coming online may be followed by the declaration: both
  stay declared until one leaves. `FriendsAgree` does not ask for the converse.
* FRIEND_OFFLINE and the undeclarations with it are sent only if somebody still listens to
  the channel the answer goes to (see `lost_object` above), so with a database that answers
  later a friend who leaves stays declared.
* The managers' maps have no lock. With the routing thread, handlers of different clients
  touch them at once; the model has their handlers exclude each other.

In connections (`Abandoned`, `Stranded` and `aborted` name the first three):

* When the write timer runs out after `disconnect` was called, `send_expired` calls
  `disconnect` again, which returns at once (`NetworkClient.cpp:236-239`: "We've already
  set the error code and closed the socket; wait."), and the socket was not closed: it is
  closed after the write that has just been given up.
* The write may still complete. Then an assertion fails in `send_finished`
  (`m_is_sending`), or the buffer of the next write is freed while libuv writes it.
* A task that is put in the queue by a task on the main thread waits for somebody else to
  signal (`TaskQueue.cpp:46`): a connection closed from within one (routing posted by
  `MessageDirector.cpp:119`) stays open until then.
* A posted `cancel` may run on a `Timeout` that has deleted itself (`Timeout.cpp:78`).
* An interest that is finished before the task that makes its timer has run is used by
  that task after it was deleted.
* `NetworkClient.h:74` says that `disconnect` does not inform the handler; the event of the
  closed handle does.

## 9. Theorems

Proved by TLAPS for every value of the constants, under the `ASSUME`s of the
modules (types of the constants; every request names a doid and its fields):

* `MongoDatabase_proofs`, of `DBOperation`: `IndependenceIsSymmetric` (asking both
  directions never disagrees) and `IndependentCommute` (independent operations may be
  exchanged: same object, same outcomes). It is the reason the scheduler may run them at
  once. Of the scheduler: `TypeCorrect` (proved only, no run repeats it), `NoConflictRuns`, `QueuesNeverStick`,
  `ConflictsInArrivalOrder`. The inductive invariant `IInv` adds to the three
  properties where each received operation is (`Accounted`), that a queue is in
  arrival order and behind everything running (`QueueInArrivalOrder`), and that
  running and submitted are the same (`SubmittedIsRunning`). The crucial step is
  `clear_operation`: if `finalize_operation` says the front cannot have been
  unblocked, the front conflicts with another running operation; if it says it may,
  the loop stops only at one that conflicts with a running one.
  Of the backend: `BackendIsABackend` maps every step of the worker threads to
  a step of `DatabaseServer` or to a stutter, so that the scheduler's theorems hold of
  the threads (`ThreadsDoNotConflict`). `DoidsAreFresh` is about `FreshDoids`, which only
  mentions the threads that are about to insert. Its inductive invariant `DoidInv` follows
  a doid through the hands of all threads: from the delete that removed its object to
  `free_doid`, and from `assign_doid` to the insert (`HeldFresh`). Every doid is held by
  at most one thread, or free, or has an object, or lies above the counter
  (`BelowCounter`); `handle_delete` calling `free_doid` only after a delete that deleted
  something is what keeps it so. `ThreadsAreSerial` is the refinement that the run `mongo` checks
  as `SerialSpec`. An operation's outcome is decided in exactly one step, the deciding
  database call (`HandsInv` says at which calls a thread holds an undecided operation and
  what is left to do afterwards), and then every earlier operation it is not independent
  of is decided: that is `ArrivalOrder`. An object whose modification is about to be
  reverted is shown to `SerialDatabase` as it was. The theorem has two hypotheses and
  names them. `RevertsAlone`: a modification that the class check refuses runs beside no
  other one of its object; the code fails otherwise and a comment admits it
  (`MongoDatabase.cpp:871`, section 8). `RevertsSucceed`: no database call fails, or there
  is nothing to revert. `OnlyCreatesMislead` says what is left of `AnswersAreTrue`: every
  answer is true while no CREATE_OBJECT arrived, and afterwards the only untrue one is a
  mismatch (the finding `mongo_race`). Its `RecheckInv` is about the second read of a
  conditional update: nothing that runs beside it changes the fields of its criteria.
* `MessageDirector_proofs`, of `ChannelMap`: `AgreementPreserved` (every operation keeps the
  sets and the indexes in agreement) and `LookupIsExact` (then `lookup_channels` returns
  exactly the subscribers). Of the director: `MapsStayConsistent`: both directors apply
  those operations only, and to messages that name channels (`Good`, in `MapsInv`: what is
  on the link is applied to the upstream's map later). `ReceiversStayLive` needs
  `ParticipantsInv`: whoever was removed has no subscriptions, so that a lookup finds only
  participants that are alive; those it found are only deleted by the routing thread
  itself, after the datagram. `DirectorInv` joins the two with the types of the datagrams.
  `NothingDeliveredTwice` is about `DeliveredOnce`. The count of what a
  participant was handed is not inductive: one must know that a datagram is in one place
  at a time, a post-remove, the queue, the routing, the link or the way back
  (`PlacesInv`); that what comes back is from a participant of the upstream and everything
  else from one of ours, so that `m_from` excludes the right one (`OriginInv`); and that
  nobody here had what still waits and nobody upstream had what still climbs
  (`HandedInv`). `UpmapInv` says that the upstream knows this director as one subscriber
  only. Together they are `TokenInv`.
* `Upstream_proofs`: `DirectorTypes` is `TypeOK`; `UpstreamStaysExact`, `RepliesArrive`
  and `PostRemovesSettle` are `UpstreamIsExact`, `NoReplyLost` and `PostRemovesSettled`,
  hypotheses included. `Telling` is what every step that sends upstream guarantees: the
  messages it sends add what is subscribed to from now on, drop only what nobody
  subscribes to any more, and likewise for post-removes; the tricky ones are the silent
  ranges of `unsubscribe_range` and of a removal. `Wins` says what the upstream will have
  once it has taken what is pending: a channel somebody subscribes to has been added after
  the last message that drops it. So `ExactInv` (the upstream's map plus what is pending is
  exactly what somebody here subscribes to) and `KeptInv` (the same of post-removes) are
  inductive, given that nothing overtakes (`InOrder`). An answer needs more: from each
  request on the link, and from each one handed out upstream, until its asker drops the
  channel, the channel wins already at that point of the link (`SecuredInv`). Then the
  upstream forwards the answer, and `ServedInv` follows it from queue to queue.
  `SettledInv` does the same for the post-removes of those who are gone. `Taken`, what the
  upstream makes of all pending messages, is a recursive function: it is shown to be what
  `Wins` says by its least counterexample. The null participant of a datagram from the
  upstream is none of `Local` (`MessageDirectorAssumption`).
* `MainLoop_proofs`: `LoopIsTyped` (a timer's callback is only ever the topmost call of the
  main thread; the size of the send queue is its length) and
  `CallbacksMeetLiveOperations`, which is `CallbackOnLiveOperation`. `CallbackInv`: while the callback is due,
  `m_callback_disabled` is set by the timer and `m_timeout` is not null, so nobody's
  `cancel` answers true and the operation is not finished. `ScenariosAssumption` says what handlers
  may call. `EveryWriteIsCounted` and `NothingIsLost` are `WritesAreCounted` and
  `NothingLost`. Their `ConnectionInv` types every call on every stack by where the
  connection is (`StacksNow`, `SocketTyped`): who is in the middle of `send_datagram`, of a
  flush or of `disconnect` decides what the next step may find. Until a write has timed out
  there is one write (`OneWrite`) and written, being written and queued are the accepted
  datagrams in order (`InOrder`); so the assertions of `flush_send_queue`, `send_finished`
  and `send_expired` hold until then. After a time-out they may fail (section 8).
* `ClientVisibility_proofs`: `SubscribedTheorem`, `NeverConfusedTheorem` and `TypesHold` are
  `SubscribedWhereInterested` (given `ZeroIsFree`: an interest 0 is not opened where daemons
  remove interests), `NeverConfused` and `TypeOK`. Every handler of `Client` keeps three
  things: the fields have their types, the subscriptions are the channel, the owned and
  session objects and the zones of the interests (`Interested`), and the game shows
  what the client takes for seen or owned (`Agrees`). The last is kept message by message:
  what a handler tells follows from what it changes. Handlers that call each other for a
  list of messages (`InTurn`) are unrolled step by step; the step at which one would fail
  is the least, and no step is. The inductive invariant `Inv` joins them (`Sane`,
  `ObjectsSane`) with the shape of what is on its way down (`Carries`). The part
  `OperationsAreThere` of `TypeOK` needs more (`OrderInv`). Where its hypothesis `Regular`
  holds, open operations look at different zones (`LooksApart`), every pending object's
  operation is open and will let it in (`Held`), and of what an operation holds back, the
  entries are in zones it looks at and come before everything else about their objects
  (`Replayable`). So what is replayed is not queued under another operation. `Watched`
  (where an operation looks, an interest does) keeps a second one from looking there.
* `DBStateServer_proofs`: `NothingWaitsInVain` is `Awaited`. Its `IInv` speaks of the questions
  under way, with the database or answered (`OnTheWay`). Each is what its context says:
  about the object, and of the type, that a loader or a caller waits for (`Recognised`),
  and every loader and caller has one (`Awaits`). A handler is a sequence of calls, each
  of which keeps this of the server and what it has routed so far (`Fine`), but for the
  answer that is being handled. Two calls are loops: a loader replays what it has queued to
  the object, or forwards it back to the server, which may start another load in the
  midst of it. `QuestionsAnsweredOnce` is `AnsweredOnce`: a question is in at most one
  place, among the answers, with the database, or in the queue of a loader (`Once`). What
  has to be known of the replay and the forwarding that follows it is that of a
  question that was replayed, and not unloaded behind, the second handling is heard by
  nobody; the ids in a queue increase, so none is in it twice (`InOrder`).
* `StateServer_proofs`: what somebody knows is a set of keys (a listener sees an object, a
  parent lists it in a zone); a datagram adds some and removes others. `Ev` is what will be
  known when all that is being handled, is in the queue, or is being made by a handler, has
  been taken in this order: the last one that mentions a key decides (`After`). The
  inductive invariant `IInv` says of `Ev`, in every state, what `PlacesKnown`, `RolesKnown`
  and `ChildrenListed` say in quiet ones (`PlacesInv`, `RolesInv`, `ListsInv`), and what
  datagrams there may be (`WireInv`). So a handler only has to announce all that it
  changes, in the right order, and the crossing of messages needs no cases: `Proper` says
  this once, and each handler is shown to be. A child that its parent does not list yet,
  because it was generated first, has the parent's question still to answer (`AskedFor`).
  `StateServerTypes` is `TypeOK`; `ListenersKnow` is `PlacesKnown`, for all requests and
  with the routing thread or without. `ParentsAgree` is `LocationsAgree`, of which the second
  half has a hypothesis, `Undeleted`: nothing is deleted (the run has deletions, too). `begin_delete` tells the parent that the object
  has left, but the object keeps its place until its children are gone, and may still be
  moved; that the parent's list agrees again at the end needs what the model checker sees
  and the invariant does not. `RolesAreTold` is `RolesKnown`, condition included: nothing is moved out of
  the world or nothing has an AI (`AIsStay`): `handle_location_change` drops an
  inherited AI without telling it (`DistributedObject.cpp:241`, section 8).
* `ClientAgent_proofs`: `AccountsRunOneOperation`, `SlotsAreKept` and `SessionsAreSole` are
  `OneOperation`, `PromisedSlots` and `SoleSession`. `ScenariosAssumption` says what a
  scenario is: who has logged in before plays for an account of his own. The inductive
  invariant `IInv` says four things of an agent (`Holds`). `Sound`: a client that is
  established has an account and listens on its channel, two on one account have an
  ejection under way (`Apart`), channels are nobody else's (`Allotted`, with `Tracked` of
  the free ones), and an operation is of the account its client is established on
  (`Served`), so that what it erases from `m_account2operation` is its own entry.
  `Progress`: how far an operation is. Most kinds have one question or answer under way
  (`Once`) and none when they are over, so no answer ends an operation a second time; a
  list of avatars is over only when nothing is pending (`Listing`). A creation that is
  storing a slot has read it empty, and one that is told of success has it `Filled`
  (`Creating`): what else happens to the object meanwhile (another agent's creation, a
  write by comparison) `Preserves` the slots that are taken. `Registered`: who is not over
  is the registered one. And what clients were told is filled. Each handler is shown once
  to keep this for its own operation and to leave the others alone (`Moves`, `Handles`);
  an answer is handled by a chain of calls, which goes through the same lemmas (`Answers`).
  `OneOperation` excepts what section 8 tells: a second kill, and accounts whose entry
  such calls have erased (`disowned`).

Only model-checked: everything temporal (liveness under fairness is outside the
prover), the properties of the runs that are findings, `AnswersAreTrue` where objects are created,
the refinement `StoredSpec`, `SeesTheWorld` of `ClientVisibility`, `AIInherited`, `QueriesAnswered` and
`SubtreesGo` of `StateServer`, `NoGhosts` and `FriendsAgree` of `ClientAgent`.

## 10. Not modelled

`PROJECT.json` lists every component. Left out for good: parsers (`config`,
`dclass`, `dna`), output (`eventlogger`, `Logger`), acceptors and address parsing,
file storage (`YAMLDatabase`), vendored code (`json.hpp` alone is a third of the
repository's lines). Their behaviour is sequential and has no state that outlives a call,
or none that others see. What remains of the modelled components is named in the notes of
`PROJECT.json`: permissions and the states of `OTPClient` before authentication, chat and
the composition of names, cutting the stream into datagrams.

## 11. Plan

1. Proofs: `AIInherited`, `SubtreesGo` and `QueriesAnswered` of `StateServer`, `ChildrenListed`
   with deletions; `NoGhosts` and `FriendsAgree` of `ClientAgent`; `SeesTheWorld` of `ClientVisibility`.
2. Whispers: a client that may whisper is one that has the other declared (`m_declared_objects`
   of `Client` and of `ClientAgent` as one).
3. `MainLoop` under `MessageDirector`: the routing thread's datagrams as its calls.

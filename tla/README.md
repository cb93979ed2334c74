# Verification of study-lib

study-lib is a collection of small, independent programs (`codes/*`) that its
author wrote to study a technology, next to plain-text notes (`esdoc`, `linux`,
`maven`, `mysql`, `jsdoc`, `javadoc`). There is no single system: the parts
share no state, and no code but utility classes. What is worth verifying are
the programs that coordinate threads, processes or servers, or that must not
lose, repeat or misorder work, and the one web application among them
(`mybatis-demo`) with the browser side it brings along: the pages made with the
DWZ library, and the parts of jQuery on which everything that these pages do
asynchronously rests. This directory holds TLA+ models of those, one
group of modules per program, model-checked with TLC and, where a theorem is
worth it, proved with TLAPS.

`PROJECT.json` is the index: components, runs, the mutant that shows each
property can fail, the source lines of each definition, findings, hazards and
theorems.

## 1. Inventory

### Modelled

| Part | State it keeps | Operations | Interaction | What is hard | What makes it correct |
|---|---|---|---|---|---|
| Distributed lock (`bigdata/zookeeper/.../lock`) | ephemeral nodes under `/disLocks`, sessions, watches; `selfPath`, `waitPath`, `hasCreateParentPath`, `TestLock.latch` | `doService`, `createParentPath`, `getLock`, `checkMinPath`, `process`, `unlock` | threads with a session each; the ZooKeeper event thread calls the watcher back; `main` waits for all threads | races on the flag and its monitor, watches against deletions, session expiry, lost answers, a process that ends under its daemon threads | one holder with a session, first come first served, no lost wake-up, everyone served |
| Snowflake ids (`base/.../SnowflakeIdGenerator`) | `lastTimestamp`, `sequence` | `nextId`, `getNextMs` | generators share nothing but the clock and the layout of ids | sequence exhausted inside a millisecond, clock set back, restart with empty memory | ids unique and increasing, the wait ends |
| RMI registry (`bigdata/zookeeper/.../rmi/ha`) | ephemeral nodes under `/registry`; `urlList` | `publish`, `watchNode`, `lookup`, `lookupService` | servers write, consumers watch; main thread and event thread share `urlList` | a list read node by node while servers come and go, two threads in `watchNode`, double reads of a volatile, retry by recursion | the list is the directory of one moment, moves forward and keeps up; dead servers leave it; a lookup ends |
| RabbitMQ RPC (`mq/rabbitmq/.../RPCClient, RPCServer`) | `rpc_queue`, a reply queue per client, correlation ids, the response of a call | `call`, `close`, two `handleDelivery`, the server's `main` | request, reply, acknowledgement through the broker | crash between reply and acknowledgement, repeated answers, consumers that stay after their call, an error in the handler | a call returns the answer to its own request; no request is lost; calls return |
| RabbitMQ work queue (`NewTask`, `Worker`) | `task_queue`, unacknowledged deliveries, messages on disk | publish, deliver, `doWork`, `basicAck` | broker between publisher and workers | crash inside `doWork`, restart of the broker, acknowledgement of an old channel | a stored task is done at least once; the queue is served |
| Student pages (`mybatis-demo`: `dwz.navTab.js`, `dwz.dialog.js`, `dwz.alertMsg.js`, `dwz.ajax.js`, `dwz.core.js`, `dwz.history.js`; `StudentController`, `StudentServiceImpl`, `Interceptor`) | tabs and panels, the shown index, reload flags; open dialogs, their registry, the current one; the alert box; the table of students; the session | open, close, switch, reload a tab; open, cancel, submit a dialog; search, edit, delete; list, save, delete on the server | the page's requests against a table that other users change, answers in any order | two lists that correspond by position, flags, closing by "current", check then write, answers that are late or lost, a session that ends in between | tabs and panels in step; lists follow the table; a save closes its own dialog; who inserts an id that is taken is told |
| jQuery requests and the overlay (`$.ajax`, `dwz.ui.js`) | the jqXHR, `active`, timers, the overlay | `ajax`, `abort`, `done`, the timer | functions of the program run inside, and start and abort others | abort, timeout and answer at once; nesting; a function that throws | each request is told of once and in order; the overlay is shown exactly while one is under way |
| jQuery callback lists and deferreds (`$.Callbacks`, `$.Deferred`) | `list`, `memory`, `firing`, the three indexes, `stack` | `add`, `remove`, `empty`, `disable`, `lock`, `fireWith`; `resolve`, `reject`, `notify`, `done`, `fail`, `progress` | a function that is called changes the list that calls it | indexes of a loop over a list that changes under it | a batch reaches its members in order; a Deferred settles once and serves each handler once |
| jQuery queues and animations (`queue`, `promise`, `animate`, `stop`, `finish`, `fx`) | `jQuery.timers`, the queue and its hooks per element, the interval | those, and `fx.tick` | step and complete functions call them again | positions in a list of timers that changes, several ways to dequeue, counting of what runs beside the queue | no timer lost, one animation of a queue at a time, the queue goes on, promises kept |

### Worth a model, not modelled

| Part | State | Operations | What is hard | What would make it correct |
|---|---|---|---|---|
| `ZookeeperUtil` | static session and latch | `getZookeeper`, `close` | the latch works once; two callers | a returned session is connected; no session is left over |
| Canal client | the server's batch cursor, `emptyCount` | get, handle, ack, rollback on start | exception between handling and ack, redelivery | every entry handled at least once, in order |
| Mongo scans | the collection, `startId`, page counters | `main` and eight `MyHandle.run` | fewer documents than a page, changes during the scan | every document that stays is scanned, once |
| Redisson payment check | lock with a lease, `payStatus` bucket | `testLock`, `testRedLock`, `getRedissonClient` | lease that ends under its holder, check then set | one payment per order and minute |
| App store crawler | `visitMap`, `apps`, `saveQueue`, the hour | `init`, `crawl`, `getDetail`, `Controller.run` | pages that fail at the wrong place | what was parsed is saved; one run a day |
| Proxy crawler | `ipList`, `gameOver` | `GetIP.run`, `webParseHtml`, `getAProxy` | list replaced between two reads, retry by recursion | the program ends; the index is in the list |
| Trie, DFA, Descartes | the tree, the word tree | `insert`, `countPrefix`, `hasPrefix`, `has`; `getSensitiveWord`; `getDescartes` | words that are prefixes of words; lengths with a common factor | equal to a definition over sets of words |

### Out of scope

The double-array trie is a port of a third-party library. The other RabbitMQ,
ActiveMQ and Kafka demos, the plain RMI pair, Cassandra, Elasticsearch, Solr,
Lucene, ShardingSphere, Jackson and Java agent programs call an API and keep no
state between calls. `base/util` is formatting, parsing, files and HTTP; AES and
MD5 are byte arithmetic. The design patterns, find-pic, the login of
mybatis-demo, the scripts, SQL triggers and notes have no behaviour that a model
checker would reach and a test would not.

Most lines of the repository are JavaScript libraries below `res/dwz` of
mybatis-demo: two versions of jQuery, the Raphael charts, jquery.validate,
uploadify with SWFUpload, xheditor's plug-ins and the DWZ widgets. Their bulk is
selectors, DOM and css access, drawing, date arithmetic and dragging: functions
from a document to a document, which a model would only repeat. What has state and order to
it, and what the pages of the demo use, is modelled; it is a small
share of those lines. jQuery 1.11.3 is not loaded by the pages and has the same
lists, requests and queues as 2.1.4. `PROJECT.json` lists each part with its reason.

## 2. Plan

Done: the lock, the ids, the registry, RPC and work queue, each with an
abstract specification where one says more than the invariants; then jQuery's callback lists and deferreds, with two
abstract specifications, its requests, its queues and animations, and the student
pages, which compose tabs, dialogs, alert box and server. Every safety property of the five
server programs, of `Ajax`, of the callback lists, of `Deferred` and of `Effects` is proved.

Next, in this order:

1. The invariants of `Workbench`, once what closing and reloading fold over is written so that
   the prover can expand it.
2. `PaymentCheck` (Redisson), `CanalClient`, `CollectionScan`, the two crawlers, the word
   trees and `ZookeeperSession`: each a program of a page with one question.

Every module takes its parameters as CONSTANTS with a named assumption, has one
action per operation and no RECURSIVE operator, so that it can be proved about.

## 3. Modules

| Module | Role | Extends |
|---|---|---|
| `FifoLock` | abstract: clients line up once and enter one at a time in the order of arrival | |
| `DistributedLock` | the lock with ZooKeeper, the processes and their faults | |
| `MCDistributedLock` | two threads in one process and one in another, or three in one | `DistributedLock` |
| `DistributedLockProofs` | proofs about the lock | `DistributedLock` |
| `SnowflakeIdGenerator` | generators and their clock | |
| `MCSnowflakeIdGenerator` | two generators with different nodes | `SnowflakeIdGenerator` |
| `SnowflakeProofs` | proofs about the ids | `SnowflakeIdGenerator` |
| `Directory` | abstract: readers hold the members of one moment, and moments move forward | |
| `ServiceRegistry` | servers, consumers, ZooKeeper and the RMI ports | |
| `MCServiceRegistry` | two servers and a consumer | `ServiceRegistry` |
| `ServiceRegistryProofs` | proofs about the registry | `ServiceRegistry` |
| `AckQueue` | abstract: a queue with acknowledgement loses nothing | |
| `RabbitRpc` | clients, servers and the broker of the RPC | |
| `WorkQueue` | publisher, workers and the broker | |
| `MCRabbit` | two RPC clients, the first of which may call twice, or three tasks and two workers | `RabbitRpc`, `WorkQueue` |
| `RabbitProofs` | proofs about the RPC and the work queue | `RabbitRpc`, `WorkQueue` |
| `Filter` | the elements of a sequence but one, as a recursive function | |
| `Callbacks` | `$.Callbacks`: the methods of a list and the loop of `fire`, for any number of lists | `Filter` |
| `Dispatch` | abstract: batches reach their members, one after another and in order | `Filter` |
| `CallbackList` | one list with any options and a program that calls everything | `Callbacks` |
| `Promise` | abstract: settled once, each handler of the outcome called once per registration | |
| `Deferred` | three lists wired together | `Callbacks` |
| `CallbackProofs` | proofs about lists and deferreds | `Deferred`, `CallbackList` |
| `MCCallbacks` | a program with one or the other | `Deferred`, `CallbackList` |
| `Ajax` | `$.ajax` with the overlay | |
| `AjaxProofs` | proofs about the requests | `Ajax` |
| `Effects` | queues, promises, animations and the interval | |
| `EffectsProofs` | proofs about animations: types and timers | `Effects` |
| `EffectsTurnProofs` | proofs about their queues and promises | `EffectsProofs` |
| `MCEffects` | two elements | `Effects` |
| `NavTab` | the tabs, as operators on the page | |
| `PDialog` | the dialogs, as operators on the page | `NavTab` |
| `Workbench` | the user, the alert box, the requests and the server | `PDialog` |
| `MCWorkbench` | two students | `Workbench` |

Definitions marked `Mutant:` are forms of the next definition with a plausible
bug. No specification uses them; `PROJECT.json` says which property each breaks.

### The lock

One client is one thread of `TestLock.main` that runs `doService` with its own
session, `DistributedLock` and `LockWatcher`. A program counter `pc[c]` stands at
the next call to ZooKeeper; when the first thread has returned and an event
arrives, the event thread goes on with the same counter (`onEvent`).
`EventMatchesWait` shows that the two are never active together.

`synchronized (hasCreateParentPath)` is two steps: `ReadFlag` evaluates the field
and `EnterMonitor` enters the monitor of the object it held. Both Boolean objects
are shared by the threads of a process, and the field changes under the monitor.
`RaiseFlag` and `CreateParent` are separate because another thread can read the
flag between them. `GetChildren`, `GetData`, `ExistsWait` are `checkMinPath`;
`DoSomething` is `LockWatcher.doSomething` with the task and the latch;
`ExistsSelf`, `Delete`, `Close` are `unlock`. A node is named by the client that
made it, since a client makes at most one. Every call may throw if the session is
gone or, under the fault `connloss`, at any time; a create that throws may have
happened. `Close` on a lost connection reaches nobody: the client takes its session for over
(`"left"`), and ZooKeeper keeps it, with the node, until nobody has pinged it for long enough
(`Expire`). `Exit` and `Crash` end a process, whose sessions stay in the same way; threads of the
event queue are daemons, so `Exit` cuts them off.

ZooKeeper reads are taken to be linearizable. A follower that lags answers a
read as of an earlier moment; since a session sees its own writes and its reads do
not go back, such an answer equals the same read made earlier, before steps of
other clients, and that order is among those explored. A deletion that a client
has not seen when it sets its watch reaches it as an event.

### The ids

`nextId` is synchronized: one step, except when it waits in `getNextMs`, where
the generator is in `waiting` and holds the monitor, so no other call of it
moves. What may go wrong in a behaviour, `faults`, is chosen at its start from the
constant `Faults`. All machines share one clock, as the strongest coupling; generators never
compare theirs, so clocks that differ add nothing to what two generators with
different node ids can do. Time counts from `startPoint`; before it and after its
41 bits are left out. A refused call changes nothing and is no step.

### The registry

`history` is the list of the sets of children of `/registry`, so that a moment has a
number; `seen` is the moment `urlList` shows and is written with it, `version` the
moment a thread read. `GetChildren` sets the watch with the read, `GetData` runs once per child in
any order ZooKeeper may return, `SetUrlList` assigns the field. The thread `main`
runs `watchNode` in the constructor, the thread `event` for each event; a consumer
serves its events one at a time. `LookupSize` and `LookupGet` are the two reads of the
field in `lookup`, `NamingLookup` and `RetryFirst` are `lookupService`; the depth of its
recursion is not bounded in the model (the code's ends in a stack overflow).
Ports and bindings are `exported` and `Bound`: a server listens before it is bound.

### The RPC

The broker keeps `rpc_queue` and the reply queues and does not fail. It hands the
messages of a queue to its consumers in turn, and `call` adds a consumer each
time, so `consumers[k]` rotates. `response` is the queue of one place of the current call.
`Deliver`, `PublishReply` and `BasicAck` are the server's handler; a negative number
overflows the stack inside `fib`, which `catch (RuntimeException)` does not stop, so
the channel closes after the acknowledgement. The value of `fib` is left out: an answer is the request
itself or empty.

### The work queue

`Enqueue` and `Persist` are the broker's: nothing in `NewTask` waits for either.
`Deliver` obeys the prefetch count of 1. The client library reconnects by itself after a `Restart`:
a worker finishes what it holds and its acknowledgement of an old delivery is
dropped, hence the epoch of a delivery. `doWork` and the acknowledgement in `finally`
are separate, so that a crash falls between. The order of tasks is left out, as
no property speaks of it.

### jQuery: lists and deferreds

JavaScript has one thread; what interleaves is re-entrance. `frames` is the stack of the
calls of `fire`, each at a point of its loop. While a function of the program is on top (`"call"`), the
program may call any method of any list, once per step. `lists[l]` holds the local
variables of `$.Callbacks` under their names, with the indexes counted from 0. `Throw` leaves
all calls, and `firing` stays set, as in the code. A Deferred is three such lists whose first
functions (`Wiring`) are called like others. `then` and `$.when`, which make further
Deferreds, are left out, as is what is passed as `this`.

### jQuery: requests

`stack` holds the calls of `ajax` and `done`, each at a point where functions of the
program run, who may start and abort requests and throw. `known` says that the program has the
jqXHR, `transport` that there is one to abort, `xhr` that the browser works on it, `outcome`
is the Deferred. A throw unwinds to any function of the program that may catch it.
A request for which there is no transport ends as one that fails to be sent, only without the handlers of
`ajaxSend`, who may do nothing; so `Send` covers it. Options, headers, prefilters, converters and the cross-domain transports are left out, as
are synchronous requests.

### jQuery: queues and animations

`fx` is one record: `timers`, whether the interval runs (`timerId`), the animations, and
per element the queue, the hooks of its queue and the flag `finish`. `stack` holds the calls
of jQuery that wait for a function of the program, with the loop index of `stop`, `finish`
and `fx.tick`. A step function is called in every tick, a complete
function when an animation that was not stopped early ends; between two ticks an animation may
or may not become due. Animations that have ended are forgotten (`Sweep`).

Some calls from within break jQuery. TLC found them as violations of the
properties below; the model lets the program make the call, remembers it in `odd`,
and makes no other call after it. They are:

- `stop` or `finish` from a function that the loop of another `stop` or `finish` calls: the outer
  loop removes the timer at its old position, which is another's or is no more (6765-6771,
  6803-6809);
- starting or stopping animations from the first tick of one without duration: `fx.timer`
  pops the last timer, which is another's (6869-6876);
- `stop` or `finish` of an element from the step function of the first tick of its animation: the animation
  settles before its complete and fail functions are attached (6627-6639);
- `stop` from a complete function of the same element with a queue that is not empty:
  both dequeue, and two animations of one queue run at once (6696, 6776);
- `animate` within `stop` or `finish` of the same element: the flag `finish` and the queue are
  those of the call under way (6793-6819);
- `clearQueue`, and `stop` with `clearQueue` while a promise waits: the queue loses its sentinel and the
  promise is told before the animation is stopped (3962-3972, 6743).

Delays, other queues than `fx`, animations without properties, tweens and css values are left out.

### The student pages

The page is one record. `NavTab` and `PDialog` are operators on it under the names of the
functions they stand for; `Workbench` has an action for each thing the user can do and for each step of the
server. Elements of the document are numbers (`key`); a request names the
element its answer fills, which may be out of the document by then. An overlay stops the mouse
while a request is under way, an alert's background or a dialog's covers what is below: `User`
counts anything done beneath as a use of the keyboard, which only the alert box swallows.
`disturbed` remembers what is out of the ordinary: the keyboard, a lost request or answer, the
session, other users, and two answers for a panel in the other order.

What the code does that one would not expect is in the model: entries of a tab's menu that look disabled
work; opening a tab that is open loads it, and once more when it is flagged; a form binds the close handler to
`button.close` of every open dialog; closing a dialog that is gone clears the registry
of all (`removeData(undefined)`); the interceptor replaces the answer after the
handler has changed the table; an update of a row that is gone reports success (`StudentGone`).
`index.jsp` replaces `ajaxDone` and `ajaxUrl` of DWZ by its own, which are the ones modelled; the branch
they add, for the status code 403, no controller sends. The overlay of a request ends with the page that sent it (`Overlay`).

Left out: dialogs that are not modal with the task bar, dragging and sizes,
uploads, other pages, `forward` and `closeCurrent` of `navTabAjaxDone`, which the
controllers do not send, and the key handlers that a replaced confirm box leaves behind. The address of a tab enters the
history when it opens; the url of a tab follows from its id.

## 4. Runs

### Runs that pass

| Run | Question | What it shows |
|---|---|---|
| `LockAllFaults` | safety under lost connections, expiry, failing tasks and crashes, `/disLocks` missing at first | `LeaseMutex`, `NoLostWakeup`, `NoHerd`, `ThreadsInv` (events meet their waiter, one thread creates `/disLocks`, `main` waits for all) and the refinement of `FifoLock` |
| `LockServed` | with `/disLocks` in place and under every fault, does everyone get a turn, and does a node go away? | `EveryoneServed`: everyone does, or loses its session or process, or gives up; only a client that gave up and still runs keeps others waiting. `NodeGivenBack`: whichever call of `unlock` fails and wherever the process ends, the node goes, by `delete`, `close` or the server |
| `SnowflakeClock` | are ids new and growing, on a clock that is set back or through restarts? | `UniqueIds`, `IncreasingIds` with either fault, not both in one behaviour; `WaitEnds` unless the clock is set back again and again |
| `RegistryFaults` | what is in the list, on a ZooKeeper in use with every fault and on an empty one with crashes? | `ListInv`: a list is the directory of one moment; the refinement of `Directory`; without lost connections `MembersSettle`, who is up is registered and who is dead dropped in the end, and `StaleOnlyByRace`: a list is out of date only by the race of the constructor with an event; `LookupEnds` while the first address answers |
| `RabbitSafe` | which answer does a call get, is a request or a stored task lost, does a call return, is a task done? | RPC: `AnswerInv` (a call takes one answer, its own), refinement of `AckQueue`, and `CallReturns` for first calls while no channel is closed. Work queue: `NoTaskLost` through a crash and a restart of the broker, `EveryTaskDone` after the restart, refinement of `AckQueue` before it |
| `CallbackPrograms` | do lists and deferreds stand programs that change them from within? | `ListInv` (one frame for each list, indexes that follow it) and the refinement of `Dispatch` for any options; `HandlersInv` (every handler served, no late progress) and the refinement of `Promise` |
| `AjaxRequests` | do requests end once, and does the overlay follow them? | `ToldInv` (each callback once), `CallbackOrder`, `OverlayFollows` (a throw can only leave the overlay behind, an abort in `ajaxSend` only take it away early), `TimedRequestsEnd` |
| `Animations` | is an animation, a queue or a promise forgotten? | `TypeOK`, `TimersInv` (no timer lost, the interval runs), `QueuesInv` (one animation at a time, and one as long as there are any), `PromisesKept`, `PromiseMeansIdle`, up to an odd call (above) |
| `StudentPages` | does the page stay consistent with itself and with the table? | `TypeOK`, `TabsInv` (tabs and panels in step, the shown one loaded), `ListsCurrent` but for named disturbances, `DialogIsModal` and `AnswerFindsItsDialog` with the mouse alone, `InsertTold` (of two inserts of one id one is told of the error) |

The type invariants of the lock, the ids and the work queue are not among the runs because they are proved.

### Runs that find a violation

| Run | What the source says | What the code does |
|---|---|---|
| `LockFirstStart` | all threads run (`TestLock.java:41`) | the flag is raised before `/disLocks` exists, and the monitor changes with the flag: a second thread gets NoNode, never counts down, and `main` waits forever, without any fault |
| `RegistryRace` | the children are watched for any change (`ServiceConsumer.java:82`) | the constructor can overwrite the newer list of an event and keep it |
| `StudentGone` | `save` returns null on success and otherwise the reason of the error (`IStudentService.java:53`) | the update of a student that another user has just deleted stores nothing and is answered with success |

What else the models reach, without a sentence in the source that denies it: `lookup` reads the
list twice and may ask a shorter one for an element it does not have, which ends the consumer
(`LookupGet`); `lookupService` calls itself as long as the first address is dead; a
negative number closes the channel of an RPC server, which goes on waiting; the second call of an RPC
client may wait forever, because its answer goes to the consumer of the first; a function that throws out
of `done` leaves `active` too high and the overlay on the page (8283), one that aborts
its request in `ajaxSend` makes it too low (8164); with the keyboard a save can close another dialog than its own.

### Bounds

- Lock: three clients, two in one process. Two are needed for a queue, three for
  a node in the middle of it, and two in a process for the flag. A client makes
  one node, so the runs are finite without further bounds. `LockAllFaults` uses the
  symmetry of the two threads of a process; the runs with liveness use none.
- Ids: two generators, sequences of two numbers, three milliseconds (`MaxTime`):
  the sequence wraps, the clock goes back and forth, and both node ids occur.
  The theorems lift this to any widths.
- Registry: two servers with an address each, one consumer. Consumers do not
  influence each other. Two servers make a list of two, a shorter and an empty
  one, and a change between any two calls. A server registers at most once, so
  `history` is finite. Three servers exceed 25 million states.
- RPC: two clients for the shared queue, the first with two calls for the repeated
  consumers (`MaxCalls`), two servers, and one crash (`MaxCrashes`), so that a
  request can be answered twice. Callers send a number or a negative one; a
  text gets the same empty answer as the latter and leaves the channel open.
- Lists: two functions, two values, six calls (`MaxOps`): enough to fill a list, fire it, and
  from within remove, add and fire again. A list has all sixteen combinations of options.
- Requests: three (`MaxRequests`), so that one starts or aborts another inside the
  callback of a third.
- Animations: three, on two elements, and five calls (`MaxOps`): a running, a
  queued and a third animation beside them or on the other element, and two calls that stop or wait. An animation is a call too.
  The elements are symmetric.
- Student pages: two students with one name, up to three requests and three dialogs at a time
  (`MaxRequests`, `MaxDialogs` bound them before a call), one disturbance
  (`MaxFaults`) of any kind and any number of overtaking answers. The three tabs of `index.jsp` are all there are.
  The students are symmetric. `StudentGone` needs one request, one dialog and one other user.
- Work queue: three tasks and two workers, one crash and one restart
  (`MaxWorkerCrashes`, `MaxRestarts`): a delivery of the epoch before is enough, since
  epochs are only compared for equality. `NoTaskLost` is proved for any number.

Deadlock is not checked: the lock's clients end, the clock and the calls are bounded, processes
stop. That something happens is what the liveness runs are for.

### Fairness

- Lock: weak fairness of each client's steps and of the events in its queue (Java
  schedules its threads, ZooKeeper answers every call or fails it), of `main` when it can return,
  and of the expiry of a session that nobody pings any more (`Silent`): its process is gone, or its
  client closed it on a lost connection. No fault is forced.
- Ids: time goes on, and a thread in `getNextMs` is scheduled.
- Registry: a thread that can go on does; started servers publish, but that a server
  is started is not assumed; sessions of dead processes expire.
- Requests: functions of the program return and timers fire; a server may never
  answer. No fairness is assumed for lists, animations and pages: they have safety properties only.
- RPC and work queue: the broker delivers, handlers go on, and a server or worker
  that went down is started again, as an operator does; `NewTask` and callers need
  not publish. `MCRabbit` states it, since its behaviours run one program or the other and fairness
  is about the one that runs.
- Every behaviour of the lock comes to an end, as a client makes one node: its liveness properties
  are therefore about how it ends (`<>[]`).

## 5. Proofs

All for every value of the constants allowed by the assumption of the module:

- `LockAssumption`: finitely many clients, with a process each.
- `SnowflakeAssumption`: at least one node id and one sequence number, and
  generators with different node ids.
- `QueueAssumption`, `RpcAssumption`, `AjaxAssumption`, `EffectsAssumption`: the bounds are naturals and "no request"
  is none. There may be any number of tasks, workers, clients and servers.
- `CallbacksAssumption`: `NoData` is not a value, and the functions of the program are not the three
  of the Deferred itself. There may be any number of functions, values and calls.
- `RegistryAssumption`: finitely many servers, as `Cardinality` counts the children, which are not
  consumers; any number of consumers.

Every proof has the same shape: an inductive invariant `IInv`, which TLC has checked on the
runs' instances before it was proved, `Init => IInv`, one lemma per action, and the
property from `IInv`.

- `DistributedLockProofs`: `LockTypeOK`, `LockLeaseMutex`, `LockNoLostWakeup`,
  `LockEventMatchesWait`, `LockNoHerd`, `LockOneCreator`, `LockMainReturnsLast`, `LockThreadsInv`,
  `LockImplementsFifo`. The inductive invariant
  `IInv` adds to the types: nodes have open sessions and unique numbers
  (`NodesOk`); a client between `getLock` and `unlock` has its node, and is
  first when it runs its task (`QueueOk`); a watch is on a node that exists
  (`WatchOk`); no node lies between a client and the one it waits for (`GapOk`).
  `LeaseMutex` is not inductive alone: that a second client cannot become first while
  the first works needs `QueueOk`. `NoHerd` follows from `GapOk` only, as two clients behind the
  same node would have each other in the gap. `OneCreator` rests on the flag and its monitors (`CreatorOk`):
  who read the raised flag finds it raised, and among the others the monitor lets one in.
  `MainReturnsLast` rests on a count (`LatchOk`): the latch is the number of threads of the
  process that have not counted down, and main returns when it is 0.
- `SnowflakeProofs`: `SnowflakeTypeOK` always; `SnowflakeIncreasing` and `SnowflakeUnique`
  under `OneFault`: no behaviour both sets clocks back and restarts processes. The
  condition is needed: `lastTimestamp` is only in memory, so a new process on a
  clock set back makes the ids of the old one again. `IssuedOk` orders the ids of a generator
  by time and number and bounds them by its fields; a lemma on products turns that order into
  that of the numbers, for any field widths.
- `RabbitProofs`, on the work queue: `WorkTypeOK` and `WorkNoTaskLost` for any number of crashes and
  restarts; `WorkImplements` up to the first restart of the broker, since a restart may lose
  a task that is not on disk, which `AckQueue` does not allow. `Steady` is the part of
  the invariant that holds while the epoch is 0: a worker's inbox agrees with what its
  channel has unacknowledged, and no task is both on the wire and in the queue. `WorkingOk`
  says that a worker about to acknowledge has done the task it acknowledges; without it
  `NoTaskLost` is not inductive.

- `ServiceRegistryProofs`: `RegistryListInv`, `RegistryImplements` (refinement of `Directory`)
  and `RegistryStaleOnlyByRace`. `ListIsSnapshot` speaks of a list that is complete; the invariant
  needs what a list is while it is read (`Reads`): the addresses in `urlListTmp` and those of the nodes in
  `todo` are together those of `history[version]`, and as many. That the moment moves forward
  needs `Ahead`: the watch belongs to the newest read, an event to an older one, so the event
  thread reads later children than the constructor, and than itself before. For `StaleOnlyByRace`,
  `Follows` adds that a consumer with an open session has a watch, an event or a read to come, and that a
  read of the last moment is in the list unless the constructor has overwritten it.
- `RabbitProofs`, on the RPC: `RpcAnswerInv` and `RpcImplements` (refinement of `AckQueue`). `RepliesOk`: a
  reply answers the request it names, however often it is repeated; `CallOk`: what `response`
  holds while a call waits is for the current request, though consumers of former calls still
  put answers into it. The refinement needs that a request is in one place only (`OnceOk`): in
  the queue, or with one server, and never twice.
- `AjaxProofs`: `AjaxToldInv`, `AjaxCallbackOrder`, `AjaxOverlayFollows`. A step pushes, pops or
  replaces calls of `ajax` and `done` on the stack, a throw cuts it anywhere; the invariant relates each call on the
  stack to its request (`FramesOk`), each request to its callbacks (`RequestsOk`), and a settled
  request with callbacks that are not called to a call of `done` that will (`Told`). For the overlay, `Counted`:
  `active` is the number of requests under way plus the calls of `done` that have settled
  one and not yet counted it off. A throw out of `done` can only make it larger and an abort in
  `ajaxSend` only smaller, so each half of the equation holds without one of them, and with it one
  half of `OverlayFollows`.
- `CallbackProofs`, on `Deferred`: `DeferredHandlersInv` and `DeferredImplements` (refinement of `Promise`).
  `HandlersInv` speaks of a Deferred that is at rest; the invariant needs what it is while its lists fire.
  `CountOk`: a handler was called as often as it was registered, but for the places of its list that
  the loop of `fire` has still to reach; a call takes one place away, `add` appends one, and
  the end of the loop leaves none, as the batch grows with the list. `StateOk`: the state, the disabling of the other list and
  the lock of progress come about in three steps of one loop, and its index tells how
  far they are. No function of the program runs in between, since all frames but the innermost run
  one (`FramesOk`); that is why no reader of the state can find it half settled. `ProgressOk`:
  what progress has in its memory, its stack and its loop was notified while the state was
  pending.
- `CallbackProofs`, on `CallbackList`: `CallbackListInv` and `CallbackListImplements` (refinement of
  `Dispatch`). The invariant counts the functions the loop has called (`Taken`): a list that fires ends with its loop and
  has at least that many, unless it was emptied (`LoopInList`); and the list fires in one frame
  (`OneFrame`). The batch of `Dispatch` is what lies behind `Taken`. The step that matters is `remove`: it takes
  every place of a function out of a list of which a part has been called, and moves the index back by the places
  found in that part. `WithoutRest` says that what is left to call is then what was left
  before, without that function. Lengths and positions of a filtered list are facts for every
  length; the induction theorems of the library cannot be instantiated here, so each is proved from the least
  length for which it would fail (`Least`). This is also why `remove` is written with the recursive function `Kept`:
  `SelectSeq` is a definition of the standard module that the prover does not expand.
- `EffectsProofs`: `EffectsTypeOK` always, `EffectsTimersInv` up to an odd call. The invariant has
  two halves. `Base` holds under every call: the records of the animations and the frames agree,
  an animation waits in at most one place (`Once`, `Apart`), and the hooks of an element count at
  least the animations beside its queue that have yet to report (`CountOk`); so the count never falls
  below 0. `Snd` holds while no call was odd: an animation that is not over
  is being ended by a frame or has its timer (`RunningOk`); a tick removes only timers of
  animations that are over (`TickOk`), `stop` only that of the one it stopped
  (`SpliceOk`, which needs that one loop of `stop` runs at a time, `OneStop`), and a first
  tick its own, as the last (`LastOk`); the interval runs unless the only timer is about to go
  (`IntervalOk`). While a step is half done these do not hold yet: the lemmas about the parts of a step
  take the sets of animations that are on their way to the end.
- `EffectsTurnProofs`: `EffectsQueuesInv`, `EffectsPromisesKept` and `EffectsPromiseMeansIdle`. `Turns` adds
  to `Snd` who has the turn of an element: the animation of its queue that is under way (`Serves`) or a
  call at the end of one that will dequeue (`Hands`), and never two of them (`Unique`). A queue that is not empty
  has one, or a `stop` that will dequeue when its loop is over (`Served`); an element with a
  promise has one of these, or an animation beside its queue (`Watched`), and `unqueued` is exactly the
  number of the latter (`Exact`): this is why `hooks.empty`, whoever fires it, finds the element idle.
  The hard part is `stop`, which dequeues itself or leaves it to the animations it ends. That it never does
  so while one is left needs that its loop will still reach the animation that has the turn, if there is
  one, or has just ended it (`DueOk`), and that what ends within a `stop` and goes on with the
  queue has told it (`Within`). `finish` empties the queue first and ends only animations of it (`Finishing`, `EmptiedOk`).
  `AttachOk`: until its first tick an animation has no functions of the program to call, which is why
  nothing can happen between its start and that tick.

Only model-checked:

- All liveness: the prover has no rules for fairness and ENABLED.
- The student pages. Closing and reloading fold over the open tabs and dialogs (`FoldLeft`, `SelectSeq`),
  library definitions that the prover does not expand.

## 6. What the models leave out

- ZooKeeper, the brokers and RMI are modelled from how the code uses them, without their
  replication. The RPC's broker does not fail; the registry's consumers see no lag beyond
  that of events.
- Names, addresses and payloads are model values; numbers do not overflow, apart from the
  sequence of the ids: the ten digits of ZooKeeper's counter, the int of `fib(47)` and the 41 bits
  of an id's time never run out.
- A process of the registry is started once; a server started again is another process with the
  same address. A client of the lock calls `doService` once, as in `TestLock`.
- `handleTimeMovedBackwards` of the generator is private and never called.
- Lost connections of the registry are explored for safety only: an error in `watchNode` is printed and
  its watch gone for good, so no promise about keeping up can hold; a create of the
  lock whose answer is lost leaves a node as long as its process runs, and all later clients wait
  (`EveryoneServed` states the lock's progress up to such clients).

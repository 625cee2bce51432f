# airtask in TLA+

airtask is a task service: clients add tasks over JSON-RPC (a command line, a
shell script or a plugin, with a delay in seconds), the service executes them
when they come due, stores the results in leveldb and tells subscribers. This
directory models the parts of it in which something can go wrong that a unit
test would hardly reach, checks them with TLC and proves the most important
results with TLAPS. Paths are relative to the repository.

1. [The system](#1-the-system)
2. [The modules](#2-the-modules)
3. [What is checked](#3-what-is-checked)
4. [Where code and documentation disagree](#4-where-code-and-documentation-disagree)
5. [What is proved](#5-what-is-proved)
6. [What is not modelled](#6-what-is-not-modelled)
7. [Plan](#7-plan)

## 1. The system

```
 main.go ── Node (admin/node.go) ── HTTP / WebSocket endpoints (airfk)
   signals      │ Start, Stop            │ a goroutine per request
                ▼                        ▼
            Manager (task/manager.go) ◄── task API (task/api.go), admin API
              │ mu          │  update(): ticker, file events ◄── Watcher ◄── plugin directory
              │             ▼
              │          TimeWheel (tw/timewheel.go)
              │ Feed.Send
              ▼
            EventMsg (subscribe/subscribe.go) ── subscriptions of clients
```

The client library (`client/client.go`) is the other end of the endpoints.

| Component | State | Operations | Interacts with | What is hard about it | What makes it correct |
|---|---|---|---|---|---|
| Timing wheel `node/tw` | slots with lists, the hand, id -> slot | Add, Delete, Trigger, Check, Get | called by the manager under its lock | slot and circle of a delay relative to the hand, delays of several revolutions or below zero | an item with a delay from zero up is handed out once, by exactly the tick its delay asks for; map and lists agree |
| Task manager `node/task/manager.go` | two databases, scripts on disk, the wheel, loaded modules, `mu`, ticker | AddTask, DeleteTask, update, executeJobs, Start, Stop | API goroutines, one goroutine per due list, wheel, Feeds, databases, process exit | everything fights for one mutex; due lists outlive the lock; stale ticks; crash between two writes; a Put fails | a task runs at most once, never after its deletion, is not lost while the process lives, and its result is stored before it is announced |
| Event distribution `node/subscribe` | index, two bounded channels, a channel per subscription | eventLoop, broadcast, install, uninstall, Unsubscribe | manager (sends with `mu` held), API goroutines | a chain of bounded channels back into a lock; unsubscribe during a broadcast | all events in order, none after Unsubscribe, the manager is not wedged |
| RPC client `client/client.go` | dispatch loop's locals, writeConn, requests in flight, subscriptions | Call, BatchCall, Subscribe, Unsubscribe, Close, reconnect | callers, reader goroutine, forward goroutines, the server | five kinds of goroutines over unbuffered channels; lost connections, repeated answers, contexts that end | one writer, one reader, no caller forgotten, no connection leaked, notifications in order, calls return |
| Node and admin API `node/admin`, `main.go` | services, endpoints, isRunning, signal channel | Register, Start, Stop, StartWS, StopWS, NodeInfo, the signal loop | manager (Start, Stop), airfk's server | two locks over the same fields; failures half way through Start and Stop | services start and stop together, nothing is served without them, no endpoint is lost, a signal ends the process |
| Module watcher `node/task/watcher.go`, and modules and file events in `manager.go` | two channels, `modules` | Watcher.Start and its goroutine, loadModules, the file events of update() | plugin directory, notify library, manager | full channels in a row, Stop at any point, three ways to cut a file name | the map follows the directory; an event of one file leaves the others alone; the goroutine ends |
| Task API arguments `node/task/api.go` | none | toJob; GetTask, GetResult, CheckTask and others only read | manager, wall clock | fractions of seconds cut off; a delay that ages while the call waits, and ticks from before the call | a task comes due no earlier and no later than the waits and the ticks on their way explain |
| Jobs, ids, results `node/common` | none | encodings | all | — | — |
| Modules and plugins `node/module` | loaded shared objects | Load, Execute, ExecuteWithRetry | manager | foreign code | — |
| Store `node/store`, configuration, metrics, version | leveldb | Put, Get, Delete, Has | manager | — | — |

What the concurrency of the system comes down to:

* `Manager.mu` is held by AddTask, DeleteTask, one step of update() and a whole
  execution of a due list, during which jobs run and events are sent.
* A list of due tasks leaves the wheel before the goroutine that executes it has
  the lock, so deletions and further ticks come in between.
* A file event passes two channels and two goroutines before update() takes the
  lock for it, and only the second channel makes its sender wait.
* The delay of a task is computed from the wall clock before AddTask waits for
  the lock, and counted from the ticks, whose phase is another.
* The ticker of update() has room for one tick, and update() may hold another
  one in its hand while it waits for the lock.
* `resultsCh` and `addsCh` are bounded, and so is every subscription's channel;
  a full one blocks the sender, who holds `Manager.mu`.
* In the client, dispatch, the reader, the callers and the goroutines of the
  subscriptions meet at unbuffered channels in both directions.
* `Node.lock` and `PrivateAdminAPI.mu` protect the same WebSocket fields, from
  different callers.

`PROJECT.json` lists the hazards one by one with their lines and properties.

## 2. The modules

| Module | Models | Role |
|---|---|---|
| `DelayQueue` | what a timing wheel promises: item -> ticks left | abstract specification |
| `TimeWheel` | `node/tw/timewheel.go` | implements `DelayQueue` |
| `TaskSchedule` | toJob of `node/task/api.go`, the wait for the lock, the wall clock and the ticker | extends `TimeWheel` |
| `TaskManager` | `node/task/manager.go` and the process around it | uses `DelayQueue` for its wheel |
| `ModuleWatch` | `node/task/watcher.go`, and loadModules, parseModuleName and the file events of `manager.go` | details `ModuleEvent` of `TaskManager` |
| `EventSpec` | what a subscriber is promised: one stream of events | abstract specification |
| `EventMsg` | `node/subscribe/subscribe.go`, and Results / NewTask of `task/api.go` | implements `EventSpec`; takes over where `TaskManager` publishes |
| `RpcSpec` | what callers and subscribers are promised: a request, its responses, a stream of notifications | abstract specification |
| `RpcClient` | `client/client.go` over a connection | implements `RpcSpec` |
| `NodeLifecycle` | `node/admin/node.go`, `node/admin/api.go`, `main.go` | |
| `TimeWheelProofs`, `TaskScheduleProofs`, `TaskManagerProofs`, `EventMsgProofs`, `RpcClientProofs`, `RpcSpecProofs`, `NodeLifecycleProofs`, `ModuleWatchProofs` | | theorems |
| `MC*` | | constants for TLC |

Operators next to a definition that it does not use (for example `PassedKeepingCircle` beside `Passed`)
are plausible mistakes in that definition: `PROJECT.json` pairs each property with
one that breaks it.

**TimeWheel.** `slots`, `currentSlot` and `mapItems` are the fields of the same
names; `jobList` is what the last Trigger returned. A slot is a set of ids, its list without the order, which
no caller sees; index and circle of an item are in `mapItems`. `Add`, `Delete` and `Trigger` are the three methods that change
state, `Trigger` with all of `retrieve`: items with circle 0 leave, the others
lose one circle, and the hand moves on. `Delete` looks where `mapItems` points. Delays are any integers, as toJob passes
negative ones on: `Quo` and `Rem` are Go's division, which rounds toward zero, so that an index can be below zero. `Add` has then
entered the item in the map when the access to `slots` panics (the RPC server recovers, and the lock is released by a defer), and
`Delete` of such an item panics before it changes anything (`Found`).
The refinement mapping gives each item that has a slot (`Linked`) the ticks left, from its circle and the
distance of its slot from the hand.

**TaskSchedule.** Time is counted in units of `1/R` seconds. `clock` is the time
since the last tick and `offset` the distance of the wall clock's second from it.
`ToJob` computes `Job.Interval` as toJob does: an interval as it is (zero becomes
one, one below zero stays), a date minus the present time, of which the broken second is cut off. The call then waits up to
`MaxWait` for the lock and `AddTask` puts the task in the wheel. `Elapse` is a
unit of time; with the last one of a period the ticker ticks (`Tick`), into its channel or, when that is full, into nothing.
update() takes the tick with `ReceiveTick`, waits for the same lock as the calls, as long as it waits, and moves the wheel with
`HandleTick`. `left` is what remains until the time
that was asked for, which the code never knows and the client observes; `waited` and `missed` count what can make a task late.

**TaskManager.** One action per stretch of code between two points where others
can see or change something: AddTask is `AddTask` (lock, id, checks, script),
`StoreTask` (record, wheel) or `StoreTaskFails`, `ReturnTask` (after Feed.Send);
update() is `ClockTick`, `ReceiveTick`, `Trigger`, `ModuleEvent`, `UpdateExits`; executeJobs
is `ExecuteHandle` (lock), then per task `MissTask` (no record, or a Get that fails) or `RunTask` and `StoreResult`
or `StoreResultFails`, then `PublishResults`. `Stop`, `Exit` (crash or exit at any
moment: memory goes, disk stays) and `Start` are the process. `waiting` holds
the lists whose goroutine waits for the lock. The disk is `dbTask`, `dbResult` and `scripts`;
file names are kept by what distinguishes them (`CmdFile`, `DeletedCmdFile`).
A job has a type, contents or plugin name, and an interval in ticks. `issued`,
`accepted`, `age`, `runs`, `deleted` and `published` are history variables.

**ModuleWatch.** A file name is a sequence of characters here, because what can go wrong
is how it is cut: `LoadKey` is what loadModules makes of it, `EventKey` what update() does (the part before
the first dot, from which parseModuleName cuts three characters again), and
`Panics` where the slices are out of range. `CreateFile`, `RemoveFile` and `MoveFileAway` are the
directory; a notification goes into `notify`, or is dropped when that is full, and then
through `WatcherReceives`, `WatcherSends` and `UpdateReceives` to `UpdateHandles`.
`LoadModules` and `FilesWatcher` are two steps of Start, between which the directory
may change. A panic of update() ends the process. `noticed` is a history
variable: the map that the notifications, each handled at once, would have made.

**EventSpec** has, per subscriber, `Join`, `Deliver` and `Leave`: while it is in, it is handed
the next number of its kind. `EventMsg` maps `taken` (what the loop has received) to
`published` and `notified` to `got`; a client is a member from the
rendezvous with the loop until it calls Unsubscribe.

**EventMsg.** An event is a number per kind. `Send` and `SendReturns` are
Feed.Send under the manager's lock; `Take`, `Broadcast`, `Install`, `Uninstall`
and `Exits` are the event loop; `Subscribe`, `Notify`, `Leave` and `Drain` are a
client's goroutine. Install and uninstall are rendezvous: one action of both
sides, enabled only while the loop is at its select. `Unsubscribe` drains results while
it waits, and cannot drain new-task events: the code reads `f.results`, which is
nil for those.

**RpcSpec** has no loops, goroutines or connections. A request is new, pending, ok or failed: `Begin`, then at most one
`Send`, not after `Close`; `Take` is a response, and the last one completes it; `Fail` may come at any time. A subscription is
accepted (`Accept`) after its request was sent, the server sends notifications (`Emit`), and `Hand` gives the subscriber the next
one until it leaves (`Leave`, `Unsubscribe`). `RpcClient` maps the position of the
caller (`StateOf`), the connection a request went out on (`via`), the responses received (`Received`), the connection of a
subscription (`live`), its closed quit channel, `sent`, `received`, and the loop at `quit`. Once quit is closed, the selects
of deliver() and forward() may still pick their other case: one notification is dropped and the next one handed over. A subscriber that
is leaving may therefore miss some, but gets none twice or out of order; hence the weaker guard of `Hand` for `left`.

**RpcClient.** `ops` are the requests in flight with their response channel,
`disp` the locals of dispatch, `net` a reader and a server per connection,
`subs` the two goroutines of a subscription, `out` the connection that callers
write to. Each unbuffered channel operation is one joint action. A batch of
messages is a set, and its elements are handled one by one. The server is
external: it answers what it has received, in any order, in parts, and (for the
ids in `Repeated`) more than once; it accepts or rejects a subscription once and sends
notifications in order. A batch has at least one element (`RpcAssumption`): an empty one registers
nothing and waits for nothing. The `reconnect` protocol, closeRequestOps in two
phases and the draining of dispatch at the end are modelled step by step. A reader ends because its connection broke or was
closed (`ReadFails`), or because it read what does not decode on a connection that works (`DecodeFails`). That closing a
connection ends its reads is so for sockets, WebSockets and pipes; for stdio it is not (section 4), and that transport is left out.

**NodeLifecycle.** The goroutine of main runs Register, Start, the signal loop
and Stop; each request to the admin API has a goroutine. StartWS and StopWS are
shared by both and split at every access to `wsListener` and `wsHandler`,
because their callers hold different locks; a call on a field that has become
nil is a panic, which ends the process in main and the request in a handler.
An endpoint is named after the goroutine that opens it. `Locked` stands for
Node.lock: only main writes under it. StopServices calls Manager.Stop, which waits for `Manager.mu` and may not
return: main may stay there (`StopHangs`, which has no fairness). `raced` is a history variable that becomes TRUE when
an admin call meets Start or Stop.

The modules are separate specifications with a seam between them. `TaskManager`
assumes that Feed.Send returns (fairness of `ReturnTask` and `PublishResults`),
`EventMsg` says when that is so (`EventsArrive`). `TaskManager` has the wheel as
a delay queue, `TimeWheel` shows that the wheel is one. `TaskSchedule` composes
the wheel with toJob, the clocks, and the ticks that wait or are dropped; who has the lock meanwhile is in `TaskManager`, whose
`NearlyOnTime` counts in ticks what `DueOnTime` counts in time.
`ModuleEvent` of `TaskManager` adds or drops any module, which is what `ModuleWatch` shows it to do,
and a panic there is an `Exit`. `NodeLifecycle` decides
when Manager.Stop is called; `TaskManager` and `EventMsg` let it happen at any time.

## 3. What is checked

`tlc -config X.cfg MCY` with the pairs below. All runs are exhaustive, rpc within its constraint.

| Run | Module, cfg | Instance | Distinct states |
|---|---|---|---|
| schedule | `MCTaskSchedule`, `TaskSchedule.cfg` | 2 symmetric items, 3 slots, interval 1 as in the code, delays -4 to 6, dates -1 to 6, half seconds, a wait of one unit, one dropped tick | 1.0 million |
| manager | `MCTaskManager`, `TaskManager.cfg` | 3 symmetric tasks, an sh job and a plugin by two names, one module, delays up to 3, failing Puts and Gets | 4.2 million |
| manager_live | `TaskManagerLive.cfg` | 2 tasks, sh and cmd, no database faults | 42 thousand |
| events | `MCEventMsg`, `EventMsg.cfg` | 2 results subscriptions and 1 for new tasks, channels of 1, 2 events of each kind | 478 thousand |
| rpc | `MCRpcClient`, `RpcClient.cfg` | a call, a batch of 2 with a repeated id, a subscription with up to 2 notifications, 2 messages of these in a behaviour, Close, 2 connections, a buffer of 1 | 769 thousand |
| rpc_live | `RpcClientLive.cfg` | a call, a subscription, contexts that end, Close, 2 connections | 281 thousand |
| node | `MCNodeLifecycle`, `NodeLifecycle.cfg` | 2 services, 2 admin calls, 2 addresses | 483 thousand |
| modules | `MCModuleWatch`, `ModuleWatch.cfg` | 4 file names, channels of 1, 3 changes of the directory | 276 thousand |
| manager_result_id, events_adds, rpc_reconnect, modules_created | | see section 4 | violations |

**schedule.** `Consistent`: the map and the lists describe the same items.
`ImplementsDelayQueue`: an item is handed out exactly once, by the tick its
delay asks for, and deletions take effect whatever the circle; one with a negative delay after the rest of a revolution, or never.
`DueOnTime`: a task is handed out less than three periods of the ticker before the time its client asked for: one because the
first tick after AddTask may come at once and a date loses its fraction of a second, two for the ticks that were in the ticker's
channel and in the hand of update(). In the wheel it is overdue by no more than its call waited for the lock, the ticks that were
dropped since, those that update() has still to handle, and what has gone by of the present period: how long the lock is held
has no bound in the code, but nothing else makes a task late. Three slots and delays from below minus one revolution to two above zero give every
combination of circle 0, 1 and 2 with a slot before, at and behind the hand, and of a negative delay with a slot, with none, and with an index that
the rounding makes zero; half seconds tell a broken second from a whole one, and `offset` takes every phase.

**manager.** `AtMostOnce`, `DeletedNeverRuns`, `NoTaskLost`, and `DiskKept` (`RecordKept` and
`ScriptKept`: what is to run has its record, and a stored sh task its script) over crashes, restarts, deletions in any place and database faults (a Put or the Get of executeJobs);
`NearlyOnTime` bounds how early a task may come due. Three tasks allow two due
lists waiting while a third task is being added or deleted; a delay of 3 is the least with
which two early ticks can be told from one. A task id is used once, as ids come
from a snowflake generator. The invariants that are for the life of a process say
so: pending tasks do not survive a restart (the wheel is not rebuilt from dbTask).

**manager_live.** `PublishedIsStored` needs a database that works. `TaskCompletes`:
every accepted task is executed and announced, or deleted, unless the service
stops. Fairness: the clock and runnable goroutines are weakly fair; those that wait for
`Manager.mu` are strongly fair, because sync.Mutex hands the lock to a waiter after
a millisecond (its starvation mode). API calls are not required to happen.

**events.** `NothingMissed`: a client that stays gets all events of its kind since its
installation, once and in order. `SilentAfterUnsubscribe`: nothing is sent to a channel after
Unsubscribe returned. `KeepsPromise`: it implements `EventSpec`. `ResultsUnsubscribe` and `EventsArrive`: unless the loop
has gone or somebody is unsubscribing from new-task events (`LoopHindered`), Unsubscribe returns, the
manager gets rid of its event, and the event reaches every subscriber that stays. Channels of one element fill up at once;
with 2 events of each kind an event can be in a subscription's channel, the next one in
broadcast, and another behind Feed.Send. A third subscription lets a broadcast
stand between two others. Weak fairness per goroutine (the sender, the loop, each
client's receive); that a select picks among ready cases at random needs no strong
fairness here, because events and subscriptions are finite. A client need not ever leave.

**rpc.** `ConnectionsKept`: `ConnectionNotShared` (`OneWriter`, `OneReader`: one goroutine at a time writes to
a connection, and one reads it) and `NoConnectionLeaks` (a connection that was replaced, or outlived the client, is closed).
`DispatchNotBlocked` (`NeverBlocksOnCaller`, `DeliverEnds`: dispatch never sends
to a full or closed response channel, and is never left alone in deliver(); that it can wait for a subscription at quitOnce is `Entangled`, below), `NoCallerForgotten` (each awaited
response is in the channel or registered, or the channel is closed). `NotesInOrder`: a subscriber gets the notifications in order and
without a gap, and none is missing while dispatch listens to the connection they come on; after a failed write it may stop to (section 4). `KeepsPromise`: it implements
`RpcSpec`, so that whatever reconnections, repeated answers and closing do in between, a request is written once at most and never
succeeds short of a response, and a stream has no gap before its end. Connections may break or carry what does not decode, writes may fail first,
and an answer may be repeated. Two connections are one reconnection; a batch of 2 has a partial answer; two
notifications overflow a buffer of one (the code has 20000). `LightTraffic` keeps the run to the behaviours with at most `MaxTraffic` messages
of calls and notifications, beside the requests that subscribe and unsubscribe: a batch, or a call and a notification, or two notifications,
each over every break, failed write, reconnection and Close. Dispatch handles a notification and a response in different batches, so
that what a notification can meet is a caller in each of its states, which one call shows; the proofs have no such bound.

**rpc_live.** `CallsReturn`, `CloseReturns`, `UnsubscribeReturns`, `Signalled`,
with contexts that may end at any wait. `Signalled`: who waits for a response, and who listens for notifications, has been told when the
reader of its connection has gone. Fairness is weak fairness of the disjunction of all the steps
the program and a well-behaved server owe: the behaviours are finite, so that each
gets its turn. Assumed: the server answers while the connection lasts, and
a write does not fail before the reader has seen the connection break
(`WriteFaults` FALSE). `Entangled` names the deadlock on quitOnce (end of section 4), which the
properties except.

**node.** `AllOrNothing`: outside of its loop Start has all services running or none, whichever fails.
`ServedByRunning`: no API is reachable without its service. `NoEndpointLost`:
among admin calls no listener or handler is dropped from the fields through
which it is closed. `StopSucceeds`: after a Stop nothing listens or runs (`StopTerminates`), and
main's second Stop does not close the channel twice (`MainSurvives`). `InfoAgrees`: a nodeInfo that
says running lists the services. `QuitEnds`, `RequestsReturn`: under weak
fairness of each request and of main, but for the services' Stop: Manager.Stop waits for `Manager.mu`, which `events_adds` shows held for
ever. If it does not return the process does not end, and a nodeInfo that waits for the read lock does not return; the two
properties except that (`StopHangs`) and nothing else. `NoEndpointLost`, `StopSucceeds` and the WebSocket half of
`ServedByRunning` except executions with `raced`; see the end of section 4. Two calls suffice for any
pair of startWS and stopWS, on the same address or on two.

**modules.** `InStep`: what is on its way through the two channels and the two hands, applied in order, turns the map
into what the notifications describe: none that got into the first channel is lost or overtaken, at Stop and at
a name that ends the process too. `Settles`: while the service is up, everything on its way
reaches the map. `WatcherEnds`: after Stop the watcher's goroutine ends, except
in the one state named `Stuck`. Strong fairness for the cases of the two selects: each picks at random among those
that are ready, so that one that is ready again and again is taken. The four
names are a plain plugin, one with a longer name that an event cuts down to the key of the first,
one with a version, and a file that is no plugin. Channels of one (128 and 64 in the code) fill
with the first event; three changes are one in update(), one that the watcher holds and one more
in either channel, and they allow a file that is created, removed and created again.

**Deadlock.** The runs of `EventMsg`, `RpcClient`, `ModuleWatch` and `NodeLifecycle` have
CHECK_DEADLOCK FALSE: the first three stop when the bounded events, operations or changes are
used up, and may block for good (that is what their liveness properties are about);
the last one ends with the process. `TaskSchedule` and `TaskManager` are checked for deadlock.

**Bounds.** `MaxAge` (ticks a task is old, so also the greatest interval), `MaxEvents`,
`MaxConn`, `MaxNote`, `MaxBuffer`, `MaxTraffic`, `MaxRegister`, `MaxChanges`, `MaxWait` (units a call waits for the lock), `MaxMissed` (ticks dropped while a task is in the wheel), `R` (units in a second); the sets of tasks, subscriptions,
calls and requests, each of which is used once. Channel sizes are parameters of `EventMsg` and `ModuleWatch`.

## 4. Where code and documentation disagree

Each is a run that TLC ends with a counterexample.

* **manager_result_id.** AddTask accepts a plugin by its bare name (it appends
  `@0.0.1` to look it up), executeJobs looks up the bare name, finds nothing and
  stores the zero Result: its id is 0, not the task's as in README.md 2.5.
* **modules_created.** A plugin that is created while the service runs does not become known under the
  name by which tasks call it: update() cuts the file name at its first dot and parseModuleName
  cuts three more characters off (`hello.so` becomes `he@0.0.1`), and its path
  is that of the directory. A name that is too short, or whose version is cut off, makes the slice panic and ends the process.
  The plugins that are there at Start are registered as README.md 2.2.3 has them.
* **events_adds.** "This prevents the eventLoop broadcast method to deadlock"
  (subscribe.go:153): not for subscriptions to new tasks, whose Unsubscribe reads
  a nil channel while broadcast waits for room in `f.adds`. Both wait for ever and,
  once `addsCh` is full, AddTask waits with `Manager.mu` held.
* **rpc_reconnect.** After a failed write and a reconnection dispatch waits for the
  old reader, which waits for dispatch if it has a message: "Close closes the client"
  (client.go:427) does not return.

Seen in the models, or while writing them, and not given a run:

* *Early tasks.* A task may come due up to two ticks early (`NearlyOnTime` is
  tight): one tick in the ticker's channel, one in the hand of update().
* *After Manager.Stop* the event loop is gone and Unsubscribe waits for ever; hence `LoopHindered` in the liveness properties of `EventMsg`.
* *A reconnection drops the error of the old reader* (client.go:738-745), so calls
  that wait on the old connection are not told (`Signalled` holds only without `WriteFaults`). What had arrived with that reader
  is lost, a notification among it, and a subscription of the old connection is orphaned: it is still in dispatch's table, gets
  nothing any more, never quits, and its Err is never told.
* *Closing stdio* closes nothing (client.go:357-359): after Close, the drain of dispatch (client.go:691-700) waits for a
  reader that waits for the standard input, and Close with it. The models leave that transport out.
* *A wrong test.* timewheel_test.go:42-48 expects a task of 3 seconds from the first Trigger and reports `no tasks` otherwise;
  the wheel hands it out with the fourth, as `DelayExact` has it.
* *A Subscribe whose context ends* leaves a subscription that runs and that nobody owns.
* *Admin calls against Start and Stop.* If `~raced` is taken out of
  `StopTerminates` or `MainSurvives`, TLC finds: an admin_startWS that
  checks the handler after Stop took the endpoint down opens one that outlives
  Stop; main panics in `n.wsListener.Close()` when an admin_stopWS clears the field
  after main's test; an admin_startWS between startHTTP and StartWS of Start
  makes Start lose a listener, or fail, with the services left running.
* *Scripts of deleted tasks.* AddTask names the script by the id as an integer (manager.go:448), DeleteTask
  removes one named by its bytes (manager.go:493): the script stays. `ScriptKept` is about tasks that have a record.
* *quitOnce.* ClientSubscription holds it while it asks the server to unsubscribe; when the connection ends, dispatch
  enters the same quitOnce (client.go:788) and cannot take the request: neither returns (`Entangled`).
* *Modules.* A file that is moved away keeps its module, as update() ignores renames; removing one file can drop the module of
  another whose key it is cut down to; files created between loadModules and Watch, or while the channel of the notify library
  is full, are not noticed; after Stop the watcher's goroutine stays if its channel is full (`Stuck`).
* *Negative intervals* are accepted by toJob: the task comes almost a revolution late, or
  TimeWheel.Add panics after it has entered the id in its map, from which Delete, which panics as well, does not get it out. job.go:46-48 replaces such an
  interval by 1, in a constructor that AddTask does not use.
* *ListModules and CheckModule* of the public API answer nothing when there is a manager and call it when there is none (api.go:241, 249).
* *StartWS* writes its arguments into the shared default configuration, which a later call without arguments gets.
* *HTTP batches.* An answer with more elements than the batch fills `op.resp` (client.go:218).
* *A dropped signal.* main's channel has one place: a SIGTERM that finds a SIGCHLD in it is lost.

## 5. What is proved

Proofs are for all values of the constants under the named assumptions.

**TimeWheelProofs** (any number of slots and interval above zero, any set of
ids, delays that are integers, negative ones too: `MaxSlotAssumption`, `IntervalAssumption`, `DelaysAssumption`).
The inductive invariant is `TypeOK /\ Consistent`: without `Consistent`, Delete
could leave an item that a later Trigger hands out although the map has forgotten it. The heart is
`PlacementExact`: slot and circle lose nothing of a delay from zero up, whether
the slot is at, before or behind the hand; `PlacementBehind` is its counterpart for a negative delay, from `QuoRem` and `RemZero` on division
that rounds toward zero, and `ItemPlacement` has both. From it follow `TriggerRemaining` (a tick takes one off
every item that stays) and `DueExact` (what Trigger hands out is what has none
left), for the items that have a slot (`LinkedItem`, `TriggerLinked`), then `Implementation` (every step is a step of the delay queue or
stutters) and `DelayExact`: the same in terms of the seconds that were passed to Add (`DelayKept`, a part of `ImplementsDelayQueue`).

**TaskManagerProofs** (any tasks, jobs and modules, with and without database
faults; `NoIDAssumption`, `JobAssumption`, `VersionedAssumption`, `AgeAssumption`).
Proved: `TypeOK`, `AtMostOnce`, `NoTaskLost`, `RecordKept` and `ScriptKept` (together `DiskKept`),
`PublishedIsStored` without database faults, `DeletedNeverRuns`, `NearlyOnTime`.
None is inductive; the invariant is
`TypeOK /\ Placed /\ Recorded /\ Accounted /\ Timely /\ (StoreFaults \/ Kept)`:

* `Placed`: a task is in at most one of: being added, in the wheel, in one waiting
  list, in the list under execution; and nothing upcoming has run. `AtMostOnce` needs that no two lists share a task.
* `Recorded`: what is in the wheel or in flight has its record unless deleted, and
  deleted ids are not added again. `DeletedNeverRuns` follows: RunTask finds no record.
* `Accounted`: `NoTaskLost` and where the task is at each point of AddTask.
* `Timely`: the ticks a task has left, its age and the ticks on their way add up;
  `NearlyOnTime` is the case of zero ticks left.
* `Kept`: results that are announced or about to be are stored.

**TaskScheduleProofs** (on top of `TimeWheelProofs`; any resolution `R`, any wait, any number of dropped ticks, any arguments with
integers for interval and date: `ResolutionAssumption`, `BoundsAssumption`, `ArgsAssumption`). `DueOnTime` speaks of
a task when it is handed out and when it is overdue; the invariant (`ScheduleIInv`) follows it from toJob on:
`CallFits` (the call carries the whole seconds of what was wanted, and the fraction that was cut off is the
broken second of that moment), `ItemFits` (the ticks an item has left, less the part of
the period that is over, are what is left of its time: but for the wait of its call and the ticks dropped or not yet handled on the
one side, and the two ticks that were on their way when it was added on the other) and `HandedOut`. `AddRemaining` of
`TimeWheelProofs`, which rests on `ItemPlacement`, leads from the first to the second, and `TriggerRemaining`
keeps the second from tick to tick. A task with a negative interval has no time that could be kept; it is in the wheel beside the others. `WheelAgrees`, `WheelInService` and `QueueInService` carry the
results about the wheel over to the wheel in its service. The last two assume that `Delays`, which bounds what a wheel by itself is given, has all
that toJob can compute of `Args` (`DelaysCovered`): the constants of the run meet that, and so does `Int`.

**EventMsgProofs** (any subscriptions, events and sizes of channels above zero: `TypeOfAssumption`,
`SizesAssumption`). Proved: `TypeOK`, `NothingMissed`, `SilentAfterUnsubscribe` and the refinement `KeepsPromise`. The invariant is
`TypeOK /\ Queued /\ Underway /\ Installed /\ Streams`:

* `Queued`: a bounded channel holds exactly the numbers that were sent and not yet taken, in order, so that `Take` takes the next one.
* `Underway`: the event under broadcast is the last one taken, for every subscription that has still to get it.
* `Installed`: broadcast has targets only among the subscriptions between install and uninstall, which is why nothing is
  sent after Unsubscribe.
* `Streams`: `NothingMissed`, with the start of each run of numbers before its end, and that a client that was not installed yet has got nothing.

**NodeLifecycleProofs** (any services, requests and addresses: `NodeAssumption`). Proved: `TypeOK`, `AllOrNothing`,
`ServedByRunning`, `NoEndpointLost`, `StopTerminates` and `MainSurvives` (together `StopSucceeds`), `InfoAgrees`. The invariant is
`TypeOK /\ Roles /\ Phases /\ Services /\ Exclusive /\ Endpoints /\ Answers`:

* `Roles`, `Phases`: which steps main and a request can be at, and what isRunning, the channel of Stop and the
  list of constructors are at each step of main.
* `Services`: only what is registered is built and started; between Start and Stop all of it runs, after Stop none.
* `Exclusive`: the WebSocket endpoint is in the hands of one goroutine at a time. The two locks over the same fields do not ensure it; `raced` says when
  they do not, and no request comes in before the HTTP endpoint serves.
* `Endpoints`: under `~raced` the two fields are what the goroutine that has the endpoint has made of them, step by step of StartWS and StopWS.
* `Answers`: what a nodeInfo has read so far.

**RpcClientProofs** (any calls, batches of every size, subscriptions, connections, notifications and buffers, with and
without `WriteFaults`: `RpcAssumption`). Proved: `TypeOK`, `ConnectionsKept` (from `ConnectionNotShared` and `NoConnectionLeaks`),
`DispatchNotBlocked`, `NoCallerForgotten`, `Signalled`, `NotesInOrder`. None is inductive by itself; the invariant is `Types` and

* `SendLock`: only the operation that dispatch has accepted last writes or dials, and sendDone is empty while it does.
  `OneWriter` follows.
* `Ledger`, per operation: each of its responses has been received, is in its channel or is registered, from the moment
  dispatch accepts it to the moment its channel is closed. From it come `NoCallerForgotten` and that a registered response finds room
  (`NeverBlocksOnCaller`), whatever the server repeats.
* `LoopStates`, `Readers`: what dispatch waits for where it is, and that the one reader that has not ended is the one dispatch knows of (`OneReader`).
* `Connections`: an open connection is that of dispatch or the one on its way to it.
* `Signals`, without `WriteFaults`: the writer has the connection of dispatch or finds it closed, so that what is registered has a reader.
* `QuitOnce`: whoever is through quitOnce has closed quit, and the server is asked to unsubscribe once at most.
* `Notifications`: a subscription is accepted once and on one connection (`Accepted`), the notification the server sent last is in
  a message, in the batch or handed on (`Underway`), and until the subscription quits, what it has got and what is on its way make up all that
  was sent (`InOrder`). What is on its way may be with a reader that dispatch has given up: `NotesInOrder` does not count that, and
  follows by cases: dispatch listens to the reader that has the last notification, or nothing but the batch is left to come.
* `Service`, beside the invariant and from it: a subscription is served on the connection its request went out on, and without
  `WriteFaults` that is the one whose reader dispatch listens to. With `Signals` it gives `Signalled`, for callers and for subscribers.

**RpcSpecProofs** (the same constants and assumption). Proved: `KeepsPromise`, the refinement of `RpcSpec`. The invariant of
`RpcClientProofs` says where responses are, not why they are there; `SInv` adds:

* `Source`, per operation: what has responses, or a closed channel, was written, and "ok" means all of its responses, or, for
  a subscription, that the server has accepted it. Without it `Take` could complete a request that was never sent.
* `Replied`: every id at the server, in a message or in the batch of dispatch is one of a request that was written. It carries
  `Source` through a reconnection, where answers of the old connection still come in.
* `Plain`: no response to a subscription enters its channel, which is only ever closed; so it completes with its first answer.
* `Rising`: what a subscription has got rises, was sent, and comes before all that is still on its way. `InOrder` says so until the subscription
  quits; this is what remains of it afterwards, which the case of `Hand` for those that are leaving rests on.
* `Asked`: who unsubscribes has an accepted subscription.

Each step of `RpcClient` is then given its abstract step: `Write` is a `Send`, `Receive` a `Take`, the end of the channel a `Take`
(`ReceiveClosed` with a closed channel) or a `Fail` (with an error), the server's answer an `Accept`, forward() handing the first of its buffer to the
subscriber a `Hand`, closing quit a `Leave` or an `Unsubscribe`, the end of the loop a `Close`; all others, reconnection and the
handling of batches among them, change nothing that `RpcSpec` knows of.

**ModuleWatchProofs** (any file names, channels of any size above zero, any number of changes: `FileAssumption`,
`DefaultAssumption`, `ChannelAssumption`, `ChangesAssumption`). Proved: `TypeOK` and `InStep`. The invariant adds that nothing is on its way before the goroutines run
(`Channels`), without which loadModules would overwrite what a notification has done. `InStep` is a fold over the events on their way: a step that
moves an event from one place to the next leaves their sequence as it is, a report adds one at the end (`FoldLast`), and update()
takes one from the front (`FoldFirst`). Those two lemmas are proved from the definition of FoldLeft in the community modules.
It is a recursive function on sets of indices, and neither an induction theorem (they
take an operator as parameter) nor a RECURSIVE operator is needed for it: `Least`, a set of natural numbers that is not empty has a least element,
gives the least counterexample, in `FoldsExist` for the existence of that function and in `OneTrace` for its value.

**Only model-checked** are the liveness properties: `TaskCompletes`, `ResultsUnsubscribe`, `EventsArrive`, `CallsReturn`,
`CloseReturns`, `UnsubscribeReturns`, `QuitEnds`, `RequestsReturn`, `Settles`, `WatcherEnds`. TLAPS reasons about neither fairness
nor ENABLED. Every safety property that a passing run checks is proved, each for the specification without fairness, which allows more
behaviours than the one with it. No module uses RECURSIVE.

## 6. What is not modelled

* Encodings of jobs, results, ids (`node/common`, partly generated): no decision depends on them. The models have the
  fields that decide something.
* Configuration, metrics, version: constants and formatting.
* Plugins and shell commands: foreign code; an execution happens and ends. A job
  that never ends would hold `Manager.mu` for ever, so `TaskCompletes` assumes that jobs end.
* The store: a prefix before leveldb's keys; a function with atomic, possibly failing Puts.
* airfk (RPC server, feeds) and leveldb: external, modelled by what the code needs of them.
* The client over HTTP: one request and response per call, no shared state. The client over stdio, whose connection does not close (section 4).
* Node.Restart (nobody calls it; it could not work, Manager.Stop leaves the
  databases open), reading of `Check`, `Get` and the read-only API calls, NewNode's directories.
* Negative intervals in `TaskManager` (`JobAssumption`), whose wheel is the abstract queue: what becomes of them is in `TimeWheel` and `TaskSchedule`.
* Who holds `Manager.mu` while `Node.Stop` calls Manager.Stop: that it may not return is in `NodeLifecycle` as an exception of
  `QuitEnds` and `RequestsReturn`, when it does not is `EventMsg`.
* The retries of a plugin (`ExecuteWithRetry`): an execution with its retries is one step under `Manager.mu`. It
  returns nil whatever the plugin did, so that a result does not tell a failure.
* Time: a tick is a step; how long a step takes is open, so that ticks can be late without bound.

## 7. Plan

Done, in this order: the wheel with its abstract specification and proofs; the
manager with its proofs; events; the client; the node; toJob and the clocks around the wheel; the
module watcher; the abstract stream of events that `EventMsg` implements; the abstract requests and streams that `RpcClient` implements.

What is left unmodelled (section 6) has no state or decisions of its own, or is foreign code. What
would still pay: `ModuleWatch` with `Manager.mu` in place of the lock it leaves out.

Theorems that are left:

1. `NodeLifecycle`: that the fields under `raced` still are those of some goroutine, which would bound what is
   lost when an admin call meets Start or Stop.
2. `ModuleWatch`: a step of update() is a `ModuleEvent` of `TaskManager`, in terms of the keys it knows.

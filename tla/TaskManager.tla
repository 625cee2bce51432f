----------------------------- MODULE TaskManager -----------------------------
(***************************************************************************)
(* node/task/manager.go: the task service.  API goroutines add and delete  *)
(* tasks; the goroutine of update() moves the wheel at every tick of its   *)
(* ticker and starts a goroutine that executes the tasks that came due;    *)
(* files appearing in the plugin directory change the set of modules.  All *)
(* of them meet at Manager.mu.  Task records, results and scripts are on   *)
(* disk and survive the process; the wheel is in memory and does not.      *)
(*                                                                         *)
(* The wheel is the delay queue that TimeWheel is proved to implement,     *)
(* with one tick per second of Job.Interval (the only wheel the manager    *)
(* builds has an interval of one second).  Readers (GetTask, CheckTask,    *)
(* GetResult, ListModules, CheckModule) change no state.  A call that      *)
(* returns an error before it changed anything is not a step.              *)
(***************************************************************************)
EXTENDS Naturals, Functions

CONSTANTS
    Task,         \* the task ids the id generator can issue
    NoID,         \* the zero value of Result.ID
    Job,          \* the jobs that are added: [type, extra, interval]
    Module,       \* keys of Manager.modules, "name@version"
    Versioned,    \* plugin name without a version -> its key at DefaultVersion
    NoContents,   \* the empty Extra
    MaxAge,       \* bound: where the history variable age saturates
    StoreFaults   \* TRUE if a Put of the database may fail, and a Get of a record

ASSUME NoIDAssumption == NoID \notin Task
ASSUME JobAssumption ==
    \A job \in Job : job.type \in {"cmd", "sh", "plugin"} /\ job.interval \in Nat
ASSUME VersionedAssumption ==
    \A name \in DOMAIN Versioned : Versioned[name] \in Module /\ name \notin Module
ASSUME AgeAssumption == MaxAge \in Nat /\ \A job \in Job : job.interval <= MaxAge

VARIABLES
    \* on disk
    dbTask,     \* task id -> the job stored for it
    dbResult,   \* task id -> the ID of the Result stored for it
    scripts,    \* names of the files in the shells directory
    \* in the process
    process,    \* "up", "stopped" (Manager.Stop was called) or "down"
    mu,         \* what holds Manager.mu: "free", AddTask at its Put ("storing"),
                \* AddTask at its Send ("sending"), or "executing"
    adding,     \* the task of the AddTask that holds the lock -> its job
    wheel,      \* task id -> the ticks that will still pass it by
    modules,    \* keys of Manager.modules
    update,     \* update(): at its "select", at the lock before Trigger
                \* ("trigger"), or "exited"
    ticker,     \* ticks in ticker.C
    waiting,    \* the job lists whose executeHandle waits for the lock
    todo,       \* executeJobs: the ids its loop has not reached
    unstored,   \* executeJobs: the task that ran and whose result is not stored
    results,    \* executeJobs: task id -> the ID of its Result
    \* history
    issued,     \* ids the generator has handed out
    accepted,   \* tasks whose AddTask returned in this process
    age,        \* task in the wheel -> ticks of the clock since it was added
    runs,       \* task -> number of times it was executed
    deleted,    \* tasks DeleteTask was called for
    published   \* tasks whose result went out on resultsFeed

disk == <<dbTask, dbResult, scripts>>
batch == <<todo, unstored, results>>
history == <<issued, accepted, age, runs, deleted, published>>
vars == <<disk, process, mu, adding, wheel, modules, update, ticker, waiting,
          batch, history>>

Empty == [t \in {} |-> NoID]

Put(f, t, v) == [x \in DOMAIN f \cup {t} |-> IF x = t THEN v ELSE f[x]]
Without(f, S) == Restrict(f, DOMAIN f \ S)

(* Names in the shells directory.  AddTask and executeJobs print the id as *)
(* an integer; DeleteTask prints job.UUID, a byte array without a String   *)
(* method.                                                                 *)
CmdFile(t) == <<"int64", t>>
DeletedCmdFile(t) == <<"bytes", t>>

Wheel == INSTANCE DelayQueue WITH
            ID <- Task, Ticks <- {job.interval : job \in Job},
            remaining <- wheel, fired <- {}

(* A new process starts from an empty wheel: Start opens dbTask and reads  *)
(* none of its records.                                                    *)
WheelFromRecords == [t \in DOMAIN dbTask |-> dbTask[t].interval]

WheelAtStart == Empty

Init ==
    /\ dbTask = Empty /\ dbResult = Empty /\ scripts = {}
    /\ process = "up" /\ mu = "free" /\ adding = Empty
    /\ wheel = Empty
    /\ modules \in SUBSET Module
    /\ update = "select" /\ ticker = 0 /\ waiting = {}
    /\ todo = {} /\ unstored = {} /\ results = Empty
    /\ issued = {} /\ accepted = {} /\ age = [t \in Task |-> 0]
    /\ runs = [t \in Task |-> 0] /\ deleted = {} /\ published = {}

-----------------------------------------------------------------------------
(* AddTask.  It holds the lock until it returns; while it does, the disk   *)
(* already has the script and then the record of a task nobody knows of.   *)

(* The name under which AddTask looks a plugin up. *)
TaskName(extra) == IF extra \in DOMAIN Versioned THEN Versioned[extra] ELSE extra

Acceptable(job) ==
    /\ job.type = "sh" => job.extra # NoContents
    /\ job.type = "plugin" => TaskName(job.extra) \in modules

ScriptsUnchanged(t, job) == scripts

ScriptsWith(t, job) == IF job.type = "sh" THEN scripts \cup {CmdFile(t)} ELSE scripts

(* Lock, NextId, the checks, the script. *)
AddTask(t, job) ==
    /\ process # "down"
    /\ mu = "free"
    /\ t \notin issued
    /\ Acceptable(job)
    /\ issued' = issued \cup {t}
    /\ scripts' = ScriptsWith(t, job)
    /\ adding' = Put(Empty, t, job)
    /\ mu' = "storing"
    /\ UNCHANGED <<dbTask, dbResult, process, wheel, modules, update, ticker, waiting,
                   batch, accepted, age, runs, deleted, published>>

(* dbTask.Put and tw.Add: the wheel lives in memory, so a crash between    *)
(* the two looks like a crash after both.                                  *)
StoreTask(t) ==
    /\ mu = "storing"
    /\ t \in DOMAIN adding
    /\ dbTask' = Put(dbTask, t, adding[t])
    /\ Wheel!Add(t, adding[t].interval)
    /\ mu' = "sending"
    /\ UNCHANGED <<dbResult, scripts, process, adding, modules, update, ticker, waiting,
                   batch, history>>

(* dbTask.Put returns an error: AddTask returns it, its script stays. *)
StoreTaskFails ==
    /\ StoreFaults
    /\ mu = "storing"
    /\ mu' = "free"
    /\ adding' = Empty
    /\ UNCHANGED <<disk, process, wheel, modules, update, ticker, waiting, batch, history>>

(* addFeed.Send returns, and AddTask with it. *)
ReturnTask ==
    /\ mu = "sending"
    /\ mu' = "free"
    /\ accepted' = accepted \cup DOMAIN adding
    /\ adding' = Empty
    /\ UNCHANGED <<disk, process, wheel, modules, update, ticker, waiting, batch,
                   issued, age, runs, deleted, published>>

-----------------------------------------------------------------------------
(* DeleteTask holds the lock from its first step to its last, and a crash  *)
(* in between leaves what a crash at one end or the other leaves.  The     *)
(* script is removed when tw.Delete returns TRUE, which it always does     *)
(* (TimeWheel: Consistent).                                                *)
RecordsUntouched(t) == dbTask

RecordsWithout(t) == Without(dbTask, {t})

NotDequeued(t) == UNCHANGED wheel

Dequeue(t) == IF t \in Wheel!Pending THEN Wheel!Cancel(t) ELSE UNCHANGED wheel

DeleteTask(t) ==
    /\ process # "down"
    /\ mu = "free"
    /\ t \in issued
    /\ dbTask' = RecordsWithout(t)
    /\ Dequeue(t)
    /\ scripts' = scripts \ {DeletedCmdFile(t)}
    /\ deleted' = deleted \cup {t}
    /\ age' = [age EXCEPT ![t] = 0]
    /\ UNCHANGED <<dbResult, process, mu, adding, modules, update, ticker, waiting, batch,
                   issued, accepted, runs, published>>

-----------------------------------------------------------------------------
(* The clock and update().                                                 *)

(* Capacity of time.Ticker's channel; a tick that finds it full is dropped. *)
TickerSizeTwo == 2

TickerSize == 1

(* A second passes. *)
ClockTick ==
    /\ process # "down"
    /\ update # "exited"
    /\ ticker' = IF ticker < TickerSize THEN ticker + 1 ELSE ticker
    /\ age' = [t \in Task |-> IF t \in DOMAIN wheel /\ age[t] < MaxAge
                              THEN age[t] + 1 ELSE age[t]]
    /\ UNCHANGED <<disk, process, mu, adding, wheel, modules, update, waiting, batch,
                   issued, accepted, runs, deleted, published>>

(* The select takes the tick; from here on update() waits for the lock. *)
ReceiveTick ==
    /\ update = "select"
    /\ ticker > 0
    /\ ticker' = ticker - 1
    /\ update' = "trigger"
    /\ UNCHANGED <<disk, process, mu, adding, wheel, modules, waiting, batch, history>>

(* Lock, Trigger, Unlock, and the goroutine that will execute the jobs.    *)
SpawnedIfIdle(jobs) == IF jobs = {} \/ waiting # {} THEN waiting ELSE waiting \cup {jobs}

Spawned(jobs) == IF jobs = {} THEN waiting ELSE waiting \cup {jobs}

Trigger ==
    /\ update = "trigger"
    /\ mu = "free"
    /\ wheel' = Wheel!Elapsed
    /\ waiting' = Spawned(Wheel!Due)
    /\ age' = [t \in Task |-> IF t \in Wheel!Due THEN 0 ELSE age[t]]
    /\ update' = "select"
    /\ UNCHANGED <<disk, process, mu, adding, modules, ticker, batch,
                   issued, accepted, runs, deleted, published>>

(* A file event adds or drops the key update() computes from its name; an  *)
(* event whose name makes it panic is an Exit.  ModuleWatch has the names, *)
(* and the channels an event passes on its way here.                       *)
ModuleEvent(id) ==
    /\ update = "select"
    /\ mu = "free"
    /\ \/ modules' = modules \cup {id}
       \/ modules' = modules \ {id}
    /\ UNCHANGED <<disk, process, mu, adding, wheel, update, ticker, waiting, batch, history>>

(* The select takes ctx.Done() instead of a tick. *)
UpdateExits ==
    /\ update = "select"
    /\ process = "stopped"
    /\ update' = "exited"
    /\ ticker' = 0
    /\ UNCHANGED <<disk, process, mu, adding, wheel, modules, waiting, batch, history>>

-----------------------------------------------------------------------------
(* executeHandle: one goroutine per list of due tasks.  The order of the   *)
(* list only orders its runs, and is left open.                            *)
ExecuteHandle(jobs) ==
    /\ mu = "free"
    /\ mu' = "executing"
    /\ waiting' = waiting \ {jobs}
    /\ todo' = jobs
    /\ UNCHANGED <<disk, process, adding, wheel, modules, update, ticker,
                   unstored, results, history>>

(* The Result of a task: a plugin that is not loaded under its name leaves *)
(* the zero Result in place.  The name is looked up as it was written.     *)
PluginName(extra) == extra

ResultID(t, job) ==
    IF job.type = "plugin" /\ PluginName(job.extra) \notin modules THEN NoID ELSE t

(* dbTask.Get fails, because there is no such record or for a reason of    *)
(* its own: an error Result, and on to the next task.                      *)
MissTask(t) ==
    /\ mu = "executing"
    /\ unstored = {}
    /\ t \in todo
    /\ StoreFaults \/ t \notin DOMAIN dbTask
    /\ todo' = todo \ {t}
    /\ results' = Put(results, t, t)
    /\ UNCHANGED <<disk, process, mu, adding, wheel, modules, update, ticker, waiting,
                   unstored, history>>

RunTask(t) ==
    /\ mu = "executing"
    /\ unstored = {}
    /\ t \in todo \cap DOMAIN dbTask
    /\ runs' = [runs EXCEPT ![t] = IF @ < 2 THEN @ + 1 ELSE @]
    /\ todo' = todo \ {t}
    /\ unstored' = {t}
    /\ results' = Put(results, t, ResultID(t, dbTask[t]))
    /\ UNCHANGED <<disk, process, mu, adding, wheel, modules, update, ticker, waiting,
                   issued, accepted, age, deleted, published>>

StoreResult(t) ==
    /\ t \in unstored
    /\ unstored' = {}
    /\ dbResult' = Put(dbResult, t, results[t])
    /\ UNCHANGED <<dbTask, scripts, process, mu, adding, wheel, modules, update, ticker,
                   waiting, todo, results, history>>

(* dbResult.Put fails: logged, and on to the next task. *)
StoreResultFails(t) ==
    /\ StoreFaults
    /\ t \in unstored
    /\ unstored' = {}
    /\ UNCHANGED <<disk, process, mu, adding, wheel, modules, update, ticker,
                   waiting, todo, results, history>>

(* resultsFeed.Send returns, and the lock is released. *)
LoopDoneEarly == todo = {}

LoopDone == todo = {} /\ unstored = {}

PublishResults ==
    /\ mu = "executing"
    /\ LoopDone
    /\ mu' = "free"
    /\ published' = published \cup DOMAIN results
    /\ results' = Empty
    /\ UNCHANGED <<disk, process, adding, wheel, modules, update, ticker, waiting, todo,
                   unstored, issued, accepted, age, runs, deleted>>

-----------------------------------------------------------------------------
(* Stop cancels the context and waits for nobody: update() and the         *)
(* executing goroutines are still there afterwards, and so is AddTask.     *)
Stop ==
    /\ process = "up"
    /\ mu = "free"
    /\ process' = "stopped"
    /\ UNCHANGED <<disk, mu, adding, wheel, modules, update, ticker, waiting, batch, history>>

(* The process ends, at any point: what was in memory is gone. *)
Exit ==
    /\ process # "down"
    /\ process' = "down"
    /\ mu' = "free" /\ adding' = Empty
    /\ wheel' = Empty
    /\ modules' = {}
    /\ update' = "exited" /\ ticker' = 0 /\ waiting' = {}
    /\ todo' = {} /\ unstored' = {} /\ results' = Empty
    /\ accepted' = {} /\ age' = [t \in Task |-> 0]
    /\ UNCHANGED <<disk, issued, runs, deleted, published>>

(* NewManager and Start in a new process: loadModules reads the plugin     *)
(* directory, whatever it holds by now.                                    *)
Start ==
    /\ process = "down"
    /\ process' = "up"
    /\ modules' \in SUBSET Module
    /\ wheel' = WheelAtStart
    /\ update' = "select"
    /\ UNCHANGED <<disk, mu, adding, ticker, waiting, batch, history>>

-----------------------------------------------------------------------------
API ==
    \/ \E t \in Task, job \in Job : AddTask(t, job)
    \/ \E t \in Task : StoreTask(t)
    \/ StoreTaskFails
    \/ ReturnTask
    \/ \E t \in Task : DeleteTask(t)

Update ==
    \/ ReceiveTick
    \/ Trigger
    \/ \E id \in Module : ModuleEvent(id)
    \/ UpdateExits

Execute ==
    \/ \E jobs \in waiting : ExecuteHandle(jobs)
    \/ \E t \in Task : MissTask(t) \/ RunTask(t) \/ StoreResult(t) \/ StoreResultFails(t)
    \/ PublishResults

Next == API \/ Update \/ Execute \/ ClockTick \/ Stop \/ Exit \/ Start

Spec == Init /\ [][Next]_vars

(* Scheduling: the clock runs, goroutines that can run do, sync.Mutex      *)
(* starves no waiter (it hands over to one that waits for a millisecond),  *)
(* jobs end, and Feed.Send returns (EventMsg says when it does).           *)
Fairness ==
    /\ WF_vars(ClockTick)
    /\ WF_vars(ReceiveTick)
    /\ SF_vars(Trigger)
    /\ \A jobs \in SUBSET Task : SF_vars(jobs \in waiting /\ ExecuteHandle(jobs))
    /\ WF_vars(\E t \in Task : StoreTask(t))
    /\ WF_vars(ReturnTask)
    /\ WF_vars(\E t \in Task : MissTask(t) \/ RunTask(t))
    /\ WF_vars(\E t \in Task : StoreResult(t))
    /\ WF_vars(PublishResults)

FairSpec == Spec /\ Fairness

-----------------------------------------------------------------------------
InFlight == (UNION waiting) \cup todo

PartialFunction(f, S, T) == DOMAIN f \subseteq S /\ f \in [DOMAIN f -> T]

TypeOK ==
    /\ PartialFunction(dbTask, Task, Job)
    /\ PartialFunction(dbResult, Task, Task \cup {NoID})
    /\ scripts \subseteq {CmdFile(t) : t \in Task}
    /\ process \in {"up", "stopped", "down"}
    /\ mu \in {"free", "storing", "sending", "executing"}
    /\ PartialFunction(adding, Task, Job)
    /\ \A t, u \in DOMAIN adding : t = u
    /\ mu \notin {"storing", "sending"} => adding = Empty
    /\ PartialFunction(wheel, Task, 0 .. MaxAge)
    /\ modules \subseteq Module
    /\ update \in {"select", "trigger", "exited"}
    /\ ticker \in Nat
    /\ waiting \subseteq (SUBSET Task) \ {{}}
    /\ todo \subseteq Task /\ unstored \subseteq Task
    /\ PartialFunction(results, Task, Task \cup {NoID})
    /\ mu # "executing" => todo = {} /\ unstored = {} /\ results = Empty
    /\ unstored \subseteq DOMAIN results /\ \A t, u \in unstored : t = u
    /\ issued \subseteq Task /\ accepted \subseteq Task
    /\ age \in [Task -> 0 .. MaxAge] /\ runs \in [Task -> 0 .. 2]
    /\ deleted \subseteq issued /\ published \subseteq Task

(* A task is executed at most once, however the ticks, the deletions, the  *)
(* crashes and the restarts fall: the wheel hands it out once, one job     *)
(* list carries it, and no later process finds it again although its       *)
(* record stays in dbTask (manager.go:229-248, 312-401).                   *)
AtMostOnce == \A t \in Task : runs[t] <= 1

(* A task that was accepted is somewhere as long as the process lives: in  *)
(* the wheel, in one of the job lists that wait for the lock, in the list  *)
(* that is being executed, or done with (manager.go:241-248, 427-478).     *)
NoTaskLost ==
    accepted \subseteq DOMAIN wheel \cup InFlight \cup DOMAIN results \cup published \cup deleted

(* The record of a task is there when its turn comes: a task in the wheel  *)
(* has one, and a due task without one was deleted while its list waited   *)
(* for the lock.  Only then, or when the database fails, may executeJobs   *)
(* report a task it did not run (manager.go:329-338, 471-474, 487-491).    *)
RecordKept ==
    /\ DOMAIN wheel \subseteq DOMAIN dbTask
    /\ InFlight \ DOMAIN dbTask \subseteq deleted

(* A stored sh task has its script, also after a crash in the middle of    *)
(* AddTask (manager.go:443-452, 361-364).                                  *)
ScriptKept ==
    \A t \in DOMAIN dbTask : dbTask[t].type = "sh" => CmdFile(t) \in scripts

(* What a task needs to run outlives, on disk, everything that happens to  *)
(* its id in memory: the record while the task is to run, and the script   *)
(* as long as the record (manager.go:443-474, 487-491).                    *)
DiskKept == RecordKept /\ ScriptKept

(* A subscriber that is told the result of a task that ran can read it     *)
(* with GetResult (manager.go:389-399), unless the database failed.        *)
PublishedIsStored ==
    \A t \in published : runs[t] > 0 => t \in DOMAIN dbResult

(* Once DeleteTask has returned, the task is not executed, even when it    *)
(* was already due and its list was waiting for the lock (manager.go:      *)
(* 241-248, 329-338, 481-499).                                             *)
DeletedNeverRuns == [][\A t \in deleted : runs'[t] = runs[t]]_vars

ComesDue(t) == t \in DOMAIN wheel /\ t \in UNION waiting'

(* A task comes due at most two ticks early: two ticks that were sent      *)
(* before it was added can still be ahead of it, one in update() waiting   *)
(* for the lock and one in the ticker's channel (manager.go:229-244).      *)
NearlyOnTime ==
    [][\A t \in Task : ComesDue(t) => age[t] + 1 >= dbTask[t].interval]_vars

(* An accepted task is executed and its result published, or deleted,      *)
(* unless the service stops first (manager.go:229-248, 312-401).           *)
TaskCompletes ==
    \A t \in Task :
        t \in accepted ~> t \in published \cup deleted \/ process # "up"

(* What the repository says and the code does not do. *)

(* A Result carries the id of the task it is the result of: README.md      *)
(* (2.5) reads the result of task 362666528966967296 and gets that id.     *)
ResultNamesItsTask == \A t \in DOMAIN dbResult : dbResult[t] = t
=============================================================================

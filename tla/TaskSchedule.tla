---------------------------- MODULE TaskSchedule ----------------------------
(***************************************************************************)
(* From the time a client asks for to the tick that hands the task out:    *)
(* toJob in node/task/api.go turns the arguments of task_addTask into a    *)
(* delay in whole seconds, Manager.AddTask waits for Manager.mu and puts   *)
(* the task in the wheel, and the ticker of update() moves the wheel       *)
(* (node/task/manager.go, node/tw/timewheel.go).  Three clocks meet here:  *)
(* the client's wall clock, of which toJob reads the whole and the broken  *)
(* seconds; the delay, from which a fraction was cut off and which is out  *)
(* of date when the task gets into the wheel; and the ticks, whose phase   *)
(* has nothing to do with either.                                          *)
(*                                                                         *)
(* The lock is not a variable here (TaskManager has it): a call, and       *)
(* update() with the tick it has received, wait for it as long as they     *)
(* wait.  Meanwhile the ticker's channel holds one tick, and further ones  *)
(* are dropped.  A call that toJob or AddTask refuses (no name, no type, a *)
(* date in the past) changes nothing and is not a step.                    *)
(***************************************************************************)
EXTENDS TimeWheel

CONSTANTS
    R,        \* resolution: units of time in a second
    Args,     \* arguments of task_addTask: interval, and datetime if it is given
    MaxWait,  \* bound: units a call waits for Manager.mu
    MaxMissed \* bound: ticks that are dropped while a task is in the wheel

ASSUME ResolutionAssumption == R \in Nat \ {0}
ASSUME BoundsAssumption == MaxWait \in Nat /\ MaxMissed \in Nat

(* datetime is {} when it is not given (or not above zero, which is the    *)
(* same to toJob), and otherwise holds how many seconds it is after the    *)
(* whole second of the call: a date is in seconds, and before or after now.*)
(* toJob accepts any interval, below zero too.                             *)
ASSUME ArgsAssumption ==
    \A args \in Args : args.interval \in Int /\ args.datetime \subseteq Int

VARIABLES
    clock,    \* units since the last tick
    offset,   \* how far the wall clock's second is ahead of the ticks, in units
    ticker,   \* ticks in ticker.C
    received, \* ticks with which update() waits for Manager.mu
    calls,    \* the calls between toJob and the wheel: id -> Job.Interval
    left,     \* id -> units until the time that was asked for, unless that was
              \* before the call; for a task that was handed out, as it was then
    waited,   \* id -> units its call waited for Manager.mu
    missed    \* id -> ticks that were dropped while it was in the wheel

times == <<clock, offset, ticker, received, calls, left, waited, missed>>
scheduleVars == <<vars, times>>

(* The ticker's period. *)
Period == Interval * R

Put(f, x, v) == [y \in DOMAIN f \cup {x} |-> IF y = x THEN v ELSE f[y]]
Without(f, S) == [y \in DOMAIN f \ S |-> f[y]]

ScheduleInit ==
    /\ Init
    /\ clock = 0
    /\ offset \in 0 .. R - 1
    /\ ticker = 0 /\ received = 0
    /\ calls = [id \in {} |-> 0]
    /\ left = [id \in {} |-> 0]
    /\ waited = [id \in {} |-> 0]
    /\ missed = [id \in {} |-> 0]

-----------------------------------------------------------------------------
(* toJob *)

(* The units of the present second that have gone by on the wall clock. *)
Broken == (clock + offset) % R

(* dt.Sub(now), in units. *)
UntilDate(d) == d * R - Broken

(* dt.After(now), or ErrInvalidDatetime *)
Accepted(args) == \A d \in args.datetime : UntilDate(d) > 0

DefaultedInterval(args) == IF args.interval = 0 THEN 1 ELSE args.interval

SecondsRoundedUp(units) == (units + R - 1) \div R

(* int(dt.Sub(now).Seconds()) *)
Seconds(units) == units \div R

JobInterval(args) ==
    IF args.datetime = {} THEN DefaultedInterval(args)
    ELSE Seconds(UntilDate(CHOOSE d \in args.datetime : TRUE))

(* When the client wants the task, counted from now. *)
Wanted(args) ==
    IF args.datetime = {} THEN DefaultedInterval(args) * R
    ELSE UntilDate(CHOOSE d \in args.datetime : TRUE)

Awaited(id, units) ==
    IF units >= 0
    THEN left' = Put(left, id, units) /\ waited' = Put(waited, id, 0) /\ missed' = Put(missed, id, 0)
    ELSE UNCHANGED <<left, waited, missed>>

Forgotten(S) ==
    left' = Without(left, S) /\ waited' = Without(waited, S) /\ missed' = Without(missed, S)

(* An id is drawn under the lock, later; here it names the call. *)
ToJob(id, args) ==
    /\ id \notin DOMAIN calls \cup DOMAIN mapItems \cup jobList
    /\ Accepted(args)
    /\ calls' = Put(calls, id, JobInterval(args))
    /\ Awaited(id, Wanted(args))
    /\ UNCHANGED <<vars, clock, offset, ticker, received>>

(* Manager.AddTask has the lock. *)
AddTask(id) ==
    /\ id \in DOMAIN calls
    /\ Add(id, calls[id])
    /\ calls' = Without(calls, {id})
    /\ UNCHANGED <<clock, offset, ticker, received, left, waited, missed>>

DeleteTask(id) ==
    /\ id \in DOMAIN mapItems
    /\ Delete(id)
    /\ Forgotten({id})
    /\ UNCHANGED <<clock, offset, ticker, received, calls>>

-----------------------------------------------------------------------------
(* A unit of time passes, and with the last one of a period the ticker     *)
(* ticks.                                                                  *)

TickerSize == 1

Later == [id \in DOMAIN left |-> IF id \in jobList THEN left[id] ELSE left[id] - 1]

Longer == [id \in DOMAIN waited |-> IF id \in DOMAIN calls THEN waited[id] + 1 ELSE waited[id]]

Dropped ==
    [id \in DOMAIN missed |-> IF id \in DOMAIN mapItems THEN missed[id] + 1 ELSE missed[id]]

Tick ==
    IF ticker < TickerSize
    THEN ticker' = ticker + 1 /\ UNCHANGED missed
    ELSE /\ \A id \in DOMAIN missed \cap DOMAIN mapItems : missed[id] < MaxMissed
         /\ missed' = Dropped
         /\ UNCHANGED ticker

Elapse ==
    /\ \A id \in DOMAIN waited \cap DOMAIN calls : waited[id] < MaxWait
    /\ clock' = (clock + 1) % Period
    /\ IF clock' = 0 THEN Tick ELSE UNCHANGED <<ticker, missed>>
    /\ left' = Later
    /\ waited' = Longer
    /\ UNCHANGED <<vars, offset, received, calls>>

-----------------------------------------------------------------------------
(* update() *)

(* Its select takes a tick; from here on it waits for the lock. *)
ReceiveTick ==
    /\ ticker > 0 /\ received = 0
    /\ ticker' = ticker - 1
    /\ received' = 1
    /\ UNCHANGED <<vars, clock, offset, calls, left, waited, missed>>

(* It has the lock.  What the Trigger before handed out is forgotten, and *)
(* of what this one does only the time that is left is kept.              *)
HandleTick ==
    /\ received = 1
    /\ Trigger
    /\ received' = 0
    /\ left' = Without(left, jobList)
    /\ waited' = Without(waited, jobList')
    /\ missed' = Without(missed, jobList')
    /\ UNCHANGED <<clock, offset, ticker, calls>>

ScheduleNext ==
    \/ \E id \in ID, args \in Args : ToJob(id, args)
    \/ \E id \in ID : AddTask(id) \/ DeleteTask(id)
    \/ Elapse
    \/ ReceiveTick
    \/ HandleTick

Schedule == ScheduleInit /\ [][ScheduleNext]_scheduleVars

-----------------------------------------------------------------------------
(* The ticks that update() has still to handle. *)
Pending == ticker + received

(* Whatever time from now on the client asked for, as an interval or as a  *)
(* date, at whatever phase of the wall clock and of the ticker, and        *)
(* however many revolutions of the wheel lie between (api.go:80-98,        *)
(* manager.go:229-248, timewheel.go:64-155): a task is handed out less     *)
(* than three periods of the ticker early, two of them for ticks that were *)
(* on their way when it was added; and as long as it is in the wheel, it   *)
(* is overdue by no more than its call has waited for Manager.mu, the      *)
(* ticks that were dropped since, the ticks that update() has still to     *)
(* handle, and what has gone by of the present period.                     *)
DueOnTime ==
    /\ \A id \in DOMAIN left \cap jobList : left[id] < 3 * Period
    /\ \A id \in DOMAIN left \cap DOMAIN mapItems :
          left[id] + waited[id] + (missed[id] + Pending) * Period + clock >= 0
=============================================================================

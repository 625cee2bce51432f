-------------------------- MODULE TaskManagerProofs --------------------------
(***************************************************************************)
(* Proofs about TaskManager, for every set of task ids, jobs and modules,  *)
(* with or without database faults: its types, and the safety properties   *)
(* its runs check on three tasks.                                          *)
(***************************************************************************)
EXTENDS TaskManager, TLAPS

-----------------------------------------------------------------------------
(* Types. *)

(* The initial state is well typed. *)
LEMMA InitTypeOK == Init => TypeOK
  BY AgeAssumption DEF Init, TypeOK, PartialFunction, Empty

(* Adding an entry to a partial function leaves a partial function.        *)
LEMMA PutPartial ==
    ASSUME NEW S, NEW T, NEW f, PartialFunction(f, S, T), NEW t \in S, NEW v \in T
    PROVE  /\ PartialFunction(Put(f, t, v), S, T)
           /\ DOMAIN Put(f, t, v) = DOMAIN f \cup {t}
           /\ Put(f, t, v)[t] = v
           /\ \A x \in DOMAIN f \ {t} : Put(f, t, v)[x] = f[x]
  BY DEF Put, PartialFunction

(* So does taking entries out of it. *)
LEMMA WithoutPartial ==
    ASSUME NEW S, NEW T, NEW f, PartialFunction(f, S, T), NEW D
    PROVE  /\ PartialFunction(Without(f, D), S, T)
           /\ DOMAIN Without(f, D) = DOMAIN f \ D
           /\ \A x \in DOMAIN f \ D : Without(f, D)[x] = f[x]
  BY DEF Without, Restrict, PartialFunction

(* The empty function is one, too. *)
LEMMA EmptyPartial ==
    ASSUME NEW S, NEW T
    PROVE  PartialFunction(Empty, S, T) /\ DOMAIN Empty = {}
  BY DEF Empty, PartialFunction

(* What one more second does to the wheel: no entry gains ticks.           *)
LEMMA ElapsedPartial ==
    ASSUME TypeOK
    PROVE  /\ PartialFunction(Wheel!Elapsed, Task, 0 .. MaxAge)
           /\ Wheel!Due \subseteq DOMAIN wheel
           /\ DOMAIN Wheel!Elapsed = DOMAIN wheel \ Wheel!Due
           /\ \A t \in DOMAIN wheel \ Wheel!Due : Wheel!Elapsed[t] = wheel[t] - 1
           /\ \A t \in Wheel!Due : wheel[t] = 0
  BY AgeAssumption DEF TypeOK, PartialFunction, Wheel!Elapsed, Wheel!Due, Wheel!Pending

(* Every step keeps the types. *)
LEMMA NextTypeOK == TypeOK /\ [Next]_vars => TypeOK'
<1> SUFFICES ASSUME TypeOK, [Next]_vars
             PROVE  TypeOK'
  OBVIOUS
<1>1. ASSUME NEW t \in Task, NEW job \in Job, AddTask(t, job)
      PROVE  TypeOK'
  <2>1. PartialFunction(adding', Task, Job) /\ DOMAIN adding' = {t}
    <3>1. PartialFunction(Empty, Task, Job) /\ DOMAIN Empty = {}
      BY EmptyPartial
    <3>2. adding' = Put(Empty, t, job)
      BY <1>1 DEF AddTask
    <3> QED
      BY <3>1, <3>2, PutPartial
  <2>2. scripts' \subseteq {CmdFile(x) : x \in Task}
    BY <1>1 DEF AddTask, ScriptsWith, TypeOK
  <2>3. mu = "free" /\ mu' = "storing" /\ issued' = issued \cup {t}
    BY <1>1 DEF AddTask
  <2>4. UNCHANGED <<dbTask, dbResult, process, wheel, modules, update, ticker, waiting,
                    batch, accepted, age, runs, deleted, published>>
    BY <1>1 DEF AddTask
  <2> QED
    BY <2>1, <2>2, <2>3, <2>4 DEF TypeOK, batch
<1>2. ASSUME NEW t \in Task, StoreTask(t)
      PROVE  TypeOK'
  <2>1. adding[t] \in Job
    BY <1>2 DEF StoreTask, TypeOK, PartialFunction
  <2>2. PartialFunction(dbTask', Task, Job)
    BY <1>2, <2>1, PutPartial DEF StoreTask, TypeOK
  <2>3. PartialFunction(wheel', Task, 0 .. MaxAge)
    BY <1>2, <2>1, AgeAssumption, JobAssumption
       DEF StoreTask, TypeOK, PartialFunction, Wheel!Add, Wheel!Pending
  <2> QED
    BY <1>2, <2>2, <2>3 DEF StoreTask, TypeOK, batch, history
<1>3. CASE StoreTaskFails
  BY <1>3, EmptyPartial DEF StoreTaskFails, TypeOK, disk, batch, history
<1>4. CASE ReturnTask
  <2>1. DOMAIN adding \subseteq Task
    BY DEF TypeOK, PartialFunction
  <2> QED
    BY <1>4, <2>1, EmptyPartial DEF ReturnTask, TypeOK, disk, batch
<1>5. ASSUME NEW t \in Task, DeleteTask(t)
      PROVE  TypeOK'
  <2>1. PartialFunction(dbTask', Task, Job)
    BY <1>5, WithoutPartial DEF DeleteTask, RecordsWithout, TypeOK
  <2>2. PartialFunction(wheel', Task, 0 .. MaxAge)
    BY <1>5 DEF DeleteTask, Dequeue, TypeOK, PartialFunction, Wheel!Cancel, Wheel!Pending
  <2> QED
    BY <1>5, <2>1, <2>2, AgeAssumption DEF DeleteTask, TypeOK, batch
<1>6. CASE ClockTick
  BY <1>6, AgeAssumption DEF ClockTick, TickerSize, TypeOK, disk, batch
<1>7. CASE ReceiveTick
  BY <1>7 DEF ReceiveTick, TypeOK, disk, batch, history
<1>8. CASE Trigger
  <2>1. PartialFunction(wheel', Task, 0 .. MaxAge) /\ Wheel!Due \subseteq Task
    BY <1>8, ElapsedPartial DEF Trigger, TypeOK, PartialFunction
  <2>2. waiting' \subseteq (SUBSET Task) \ {{}}
    BY <1>8, <2>1 DEF Trigger, Spawned, TypeOK
  <2> QED
    BY <1>8, <2>1, <2>2, AgeAssumption DEF Trigger, TypeOK, disk, batch
<1>9. ASSUME NEW id \in Module, ModuleEvent(id)
      PROVE  TypeOK'
  BY <1>9 DEF ModuleEvent, TypeOK, disk, batch, history
<1>10. CASE UpdateExits
  BY <1>10 DEF UpdateExits, TypeOK, disk, batch, history
<1>11. ASSUME NEW jobs \in waiting, ExecuteHandle(jobs)
       PROVE  TypeOK'
  BY <1>11 DEF ExecuteHandle, TypeOK, disk, history
<1>12. ASSUME NEW t \in Task, MissTask(t)
       PROVE  TypeOK'
  <2>1. PartialFunction(results', Task, Task \cup {NoID}) /\ DOMAIN results' = DOMAIN results \cup {t}
    <3>1. PartialFunction(results, Task, Task \cup {NoID})
      BY DEF TypeOK
    <3>2. results' = Put(results, t, t) /\ t \in Task \cup {NoID}
      BY <1>12 DEF MissTask
    <3> QED
      BY <3>1, <3>2, PutPartial
  <2>2. mu = "executing" /\ todo' = todo \ {t}
    BY <1>12 DEF MissTask
  <2>3. UNCHANGED <<disk, process, mu, adding, wheel, modules, update, ticker, waiting,
                    unstored, history>>
    BY <1>12 DEF MissTask
  <2> QED
    BY <2>1, <2>2, <2>3 DEF TypeOK, disk, history
<1>13. ASSUME NEW t \in Task, RunTask(t)
       PROVE  TypeOK'
  <2>1. ResultID(t, dbTask[t]) \in Task \cup {NoID}
    BY DEF ResultID
  <2>2. PartialFunction(results', Task, Task \cup {NoID}) /\ DOMAIN results' = DOMAIN results \cup {t}
    <3>1. PartialFunction(results, Task, Task \cup {NoID})
      BY DEF TypeOK
    <3>2. results' = Put(results, t, ResultID(t, dbTask[t]))
      BY <1>13 DEF RunTask
    <3>3. ASSUME NEW id \in Task \cup {NoID}
          PROVE  /\ PartialFunction(Put(results, t, id), Task, Task \cup {NoID})
                 /\ DOMAIN Put(results, t, id) = DOMAIN results \cup {t}
      BY <3>1, PutPartial
    <3> QED
      BY <2>1, <3>2, <3>3
  <2>3. mu = "executing" /\ todo' = todo \ {t} /\ unstored' = {t}
    BY <1>13 DEF RunTask
  <2>4. runs' \in [Task -> 0 .. 2]
    BY <1>13 DEF RunTask, TypeOK
  <2>5. UNCHANGED <<disk, process, mu, adding, wheel, modules, update, ticker, waiting,
                    issued, accepted, age, deleted, published>>
    BY <1>13 DEF RunTask
  <2> QED
    BY <2>2, <2>3, <2>4, <2>5 DEF TypeOK, disk
<1>14. ASSUME NEW t \in Task, StoreResult(t)
       PROVE  TypeOK'
  <2>1. results[t] \in Task \cup {NoID}
    BY <1>14 DEF StoreResult, TypeOK, PartialFunction
  <2>2. PartialFunction(dbResult', Task, Task \cup {NoID})
    BY <1>14, <2>1, PutPartial DEF StoreResult, TypeOK
  <2> QED
    BY <1>14, <2>2 DEF StoreResult, TypeOK, history
<1>15. ASSUME NEW t \in Task, StoreResultFails(t)
       PROVE  TypeOK'
  BY <1>15 DEF StoreResultFails, TypeOK, disk, history
<1>16. CASE PublishResults
  <2>1. DOMAIN results \subseteq Task
    BY DEF TypeOK, PartialFunction
  <2> QED
    BY <1>16, <2>1, EmptyPartial DEF PublishResults, LoopDone, TypeOK, disk
<1>17. CASE Stop
  BY <1>17 DEF Stop, TypeOK, disk, batch, history
<1>18. CASE Exit
  BY <1>18, EmptyPartial, AgeAssumption DEF Exit, TypeOK, disk
<1>19. CASE Start
  BY <1>19, EmptyPartial DEF Start, WheelAtStart, TypeOK, disk, batch, history
<1>20. CASE UNCHANGED vars
  BY <1>20 DEF TypeOK, vars, disk, batch, history
<1> QED
  BY <1>1, <1>2, <1>3, <1>4, <1>5, <1>6, <1>7, <1>8, <1>9, <1>10, <1>11, <1>12, <1>13,
     <1>14, <1>15, <1>16, <1>17, <1>18, <1>19, <1>20 DEF Next, API, Update, Execute

(* The state of the task service is well typed in every reachable state.   *)
THEOREM TypeCorrect == Spec => []TypeOK
  BY InitTypeOK, NextTypeOK, PTL DEF Spec
-----------------------------------------------------------------------------
(* The strengthening.  A task that may still be executed is in one place:  *)
(* about to be stored, in the wheel, in one waiting list or in the list    *)
(* that is being executed.                                                 *)
Storing == IF mu = "storing" THEN DOMAIN adding ELSE {}

Upcoming == Storing \cup DOMAIN wheel \cup InFlight

Over == published \cup DOMAIN results

Placed ==
    /\ Storing \cap (DOMAIN wheel \cup InFlight) = {}
    /\ DOMAIN wheel \cap InFlight = {}
    /\ todo \cap (UNION waiting) = {}
    /\ \A a, b \in waiting : a = b \/ a \cap b = {}
    /\ Upcoming \cup Over \subseteq issued
    /\ Upcoming \cap Over = {} /\ published \cap DOMAIN results = {}
    /\ \A t \in Task : t \in Upcoming \/ t \notin issued => runs[t] = 0
    /\ AtMostOnce

(* Records and scripts of the tasks that are under way. *)
Recorded ==
    /\ RecordKept
    /\ deleted \cap (DOMAIN dbTask \cup Storing) = {}
    /\ ScriptKept
    /\ \A t \in Storing : adding[t].type = "sh" => CmdFile(t) \in scripts

Accounted ==
    /\ NoTaskLost
    /\ mu = "sending" => DOMAIN adding \subseteq DOMAIN wheel
    /\ process = "down" =>
           accepted = {} /\ DOMAIN wheel = {} /\ mu \notin {"storing", "sending"}

(* Of the ticks that moved a task or are on their way to it, all but two   *)
(* belong to seconds it has waited.                                        *)
Pulled == IF update = "trigger" THEN ticker + 1 ELSE ticker

Timely ==
    /\ ticker \in 0 .. 1
    /\ \A t \in Task \ DOMAIN wheel : age[t] = 0
    /\ \A t \in DOMAIN wheel :
           /\ wheel[t] <= dbTask[t].interval
           /\ dbTask[t].interval + Pulled <= age[t] + 2 + wheel[t]

Kept ==
    \A t \in Over \ unstored : runs[t] > 0 => t \in DOMAIN dbResult

IInv == TypeOK /\ Placed /\ Recorded /\ Accounted /\ Timely /\ (StoreFaults \/ Kept)

-----------------------------------------------------------------------------
(* What the actions do to the sets of tasks they touch. *)

(* AddTask at its Put: the task enters the records and the wheel.          *)
LEMMA StoreTaskEffect ==
    ASSUME TypeOK, NEW t \in Task, StoreTask(t)
    PROVE  /\ DOMAIN adding = {t} /\ adding[t] \in Job
           /\ DOMAIN wheel' = DOMAIN wheel \cup {t}
           /\ wheel'[t] = adding[t].interval
           /\ \A x \in DOMAIN wheel : wheel'[x] = wheel[x]
           /\ DOMAIN dbTask' = DOMAIN dbTask \cup {t}
           /\ dbTask'[t] = adding[t]
           /\ \A x \in DOMAIN dbTask \ {t} : dbTask'[x] = dbTask[x]
<1>1. DOMAIN adding = {t} /\ adding[t] \in Job
  <2>1. t \in DOMAIN adding
    BY DEF StoreTask
  <2>2. PartialFunction(adding, Task, Job) /\ \A x, y \in DOMAIN adding : x = y
    BY DEF TypeOK
  <2> QED
    BY <2>1, <2>2 DEF PartialFunction
<1>2. /\ DOMAIN wheel' = DOMAIN wheel \cup {t} /\ t \notin DOMAIN wheel
      /\ wheel'[t] = adding[t].interval
      /\ \A x \in DOMAIN wheel : wheel'[x] = wheel[x]
  BY DEF StoreTask, Wheel!Add, Wheel!Pending
<1>3. /\ DOMAIN dbTask' = DOMAIN dbTask \cup {t}
      /\ dbTask'[t] = adding[t]
      /\ \A x \in DOMAIN dbTask \ {t} : dbTask'[x] = dbTask[x]
  BY DEF StoreTask, Put
<1> QED
  BY <1>1, <1>2, <1>3

(* DeleteTask: the task leaves both. *)
LEMMA DeleteTaskEffect ==
    ASSUME TypeOK, NEW t \in Task, DeleteTask(t)
    PROVE  /\ DOMAIN wheel' = DOMAIN wheel \ {t}
           /\ \A x \in DOMAIN wheel \ {t} : wheel'[x] = wheel[x]
           /\ DOMAIN dbTask' = DOMAIN dbTask \ {t}
           /\ \A x \in DOMAIN dbTask \ {t} : dbTask'[x] = dbTask[x]
<1>1. /\ DOMAIN wheel' = DOMAIN wheel \ {t}
      /\ \A x \in DOMAIN wheel \ {t} : wheel'[x] = wheel[x]
  BY DEF DeleteTask, Dequeue, Wheel!Cancel, Wheel!Pending
<1>2. /\ DOMAIN dbTask' = DOMAIN dbTask \ {t}
      /\ \A x \in DOMAIN dbTask \ {t} : dbTask'[x] = dbTask[x]
  BY DEF DeleteTask, RecordsWithout, Without, Restrict
<1> QED
  BY <1>1, <1>2

(* Trigger: the due tasks change from the wheel to a list of their own.    *)
LEMMA TriggerEffect ==
    ASSUME TypeOK, Trigger
    PROVE  /\ Wheel!Due \subseteq DOMAIN wheel
           /\ DOMAIN wheel' = DOMAIN wheel \ Wheel!Due
           /\ \A t \in DOMAIN wheel' : wheel[t] > 0 /\ wheel'[t] = wheel[t] - 1
           /\ \A t \in Wheel!Due : wheel[t] = 0
           /\ waiting \subseteq waiting'
           /\ waiting' \subseteq waiting \cup {Wheel!Due}
           /\ UNION waiting' = (UNION waiting) \cup Wheel!Due
<1>1. \A t \in DOMAIN wheel : wheel[t] \in Nat
  BY AgeAssumption DEF TypeOK, PartialFunction
<1>2. wheel' = Wheel!Elapsed
  BY DEF Trigger
<1>3. waiting' = IF Wheel!Due = {} THEN waiting ELSE waiting \cup {Wheel!Due}
  BY DEF Trigger, Spawned
<1>4. \A t \in DOMAIN wheel' : wheel[t] > 0 /\ wheel'[t] = wheel[t] - 1
  BY <1>1, <1>2 DEF Wheel!Elapsed, Wheel!Due, Wheel!Pending
<1>5. UNION waiting' = (UNION waiting) \cup Wheel!Due
  <2>1. CASE Wheel!Due = {}
    BY <1>3, <2>1
  <2>2. CASE Wheel!Due # {}
    <3>1. waiting' = waiting \cup {Wheel!Due}
      BY <1>3, <2>2
    <3>2. \A D : UNION (waiting \cup {D}) = (UNION waiting) \cup D
      OBVIOUS
    <3> QED
      BY <3>1, <3>2
  <2> QED
    BY <2>1, <2>2
<1>6. waiting \subseteq waiting' /\ waiting' \subseteq waiting \cup {Wheel!Due}
  BY <1>3
<1>7. DOMAIN wheel' = DOMAIN wheel \ Wheel!Due
  BY <1>2, ElapsedPartial
<1> QED
  BY <1>4, <1>5, <1>6, <1>7, ElapsedPartial

(* executeJobs: one task of the list gets its result. *)
LEMMA ResultEffect ==
    ASSUME TypeOK, NEW t \in Task, MissTask(t) \/ RunTask(t)
    PROVE  /\ mu = "executing" /\ t \in todo /\ unstored = {}
           /\ todo' = todo \ {t}
           /\ DOMAIN results' = DOMAIN results \cup {t}
           /\ UNCHANGED <<disk, process, mu, adding, wheel, modules, update, ticker, waiting,
                          issued, accepted, age, deleted, published>>
<1>1. CASE MissTask(t)
  <2>1. DOMAIN results' = DOMAIN results \cup {t}
    BY <1>1 DEF MissTask, Put
  <2> QED
    BY <1>1, <2>1 DEF MissTask, history
<1>2. CASE RunTask(t)
  <2>1. DOMAIN results' = DOMAIN results \cup {t}
    BY <1>2 DEF RunTask, Put
  <2> QED
    BY <1>2, <2>1 DEF RunTask
<1> QED
  BY <1>1, <1>2

-----------------------------------------------------------------------------
(* Each part of the strengthening is kept by every step. *)

(* A task stays in one place until it is over. *)
LEMMA NextPlaced == TypeOK /\ Placed /\ [Next]_vars => Placed'
<1> SUFFICES ASSUME TypeOK, Placed, [Next]_vars
             PROVE  Placed'
  OBVIOUS
<1> USE DEF Placed, Upcoming, Over, Storing, InFlight, AtMostOnce
<1>1. ASSUME NEW t \in Task, NEW job \in Job, AddTask(t, job)
      PROVE  Placed'
  <2>1. DOMAIN adding' = {t} /\ mu = "free" /\ mu' = "storing"
    BY <1>1 DEF AddTask, Put, Empty
  <2>2. t \notin issued /\ issued' = issued \cup {t}
    BY <1>1 DEF AddTask
  <2>3. UNCHANGED <<wheel, waiting, todo, results, runs, published>>
    BY <1>1 DEF AddTask, batch
  <2> QED
    BY <2>1, <2>2, <2>3
<1>2. ASSUME NEW t \in Task, StoreTask(t)
      PROVE  Placed'
  <2>1. mu = "storing" /\ mu' = "sending"
    BY <1>2 DEF StoreTask
  <2>2. UNCHANGED <<waiting, todo, results, issued, runs, published>>
    BY <1>2 DEF StoreTask, batch, history
  <2>3. DOMAIN adding = {t} /\ DOMAIN wheel' = DOMAIN wheel \cup {t}
    BY <1>2, StoreTaskEffect
  <2> QED
    BY <2>1, <2>2, <2>3
<1>3. CASE StoreTaskFails \/ ReturnTask
  <2>1. mu' = "free" /\ UNCHANGED <<wheel, waiting, todo, results, issued, runs, published>>
    BY <1>3 DEF StoreTaskFails, ReturnTask, batch, history
  <2> QED
    BY <2>1
<1>4. ASSUME NEW t \in Task, DeleteTask(t)
      PROVE  Placed'
  <2>1. DOMAIN wheel' = DOMAIN wheel \ {t}
    BY <1>4, DeleteTaskEffect
  <2>2. UNCHANGED <<mu, adding, waiting, todo, results, issued, runs, published>>
    BY <1>4 DEF DeleteTask, batch
  <2> QED
    BY <2>1, <2>2
<1>5. CASE Trigger
  <2>1. UNCHANGED <<mu, adding, todo, results, issued, runs, published>>
    BY <1>5 DEF Trigger, batch
  <2>2. /\ Wheel!Due \subseteq DOMAIN wheel
        /\ DOMAIN wheel' = DOMAIN wheel \ Wheel!Due
        /\ waiting' \subseteq waiting \cup {Wheel!Due}
        /\ UNION waiting' = (UNION waiting) \cup Wheel!Due
    BY <1>5, TriggerEffect
  <2>3. \A a \in waiting : a \cap Wheel!Due = {}
    BY <2>2
  <2>4. \A a, b \in waiting' : a = b \/ a \cap b = {}
    BY <2>2, <2>3
  <2> QED
    BY <2>1, <2>2, <2>4
<1>6. ASSUME NEW jobs \in waiting, ExecuteHandle(jobs)
      PROVE  Placed'
  <2>1. mu = "free" /\ mu' = "executing" /\ todo = {}
    BY <1>6 DEF ExecuteHandle, TypeOK
  <2>2. waiting' = waiting \ {jobs} /\ todo' = jobs
    BY <1>6 DEF ExecuteHandle
  <2>3. UNCHANGED <<adding, wheel, results, issued, runs, published>>
    BY <1>6 DEF ExecuteHandle, history
  <2>4. UNION waiting = (UNION waiting') \cup todo' /\ todo' \cap (UNION waiting') = {}
    BY <2>2
  <2> QED
    BY <2>1, <2>2, <2>3, <2>4
<1>7. ASSUME NEW t \in Task, MissTask(t) \/ RunTask(t)
      PROVE  Placed'
  <2>1. /\ t \in todo /\ todo' = todo \ {t}
        /\ DOMAIN results' = DOMAIN results \cup {t}
        /\ UNCHANGED <<mu, adding, wheel, waiting, issued, published>>
    BY <1>7, ResultEffect
  <2>2. \A x \in Task : runs'[x] = runs[x] \/ (x = t /\ runs'[t] <= runs[t] + 1)
    BY <1>7 DEF MissTask, RunTask, history, TypeOK
  <2>3. \A x \in Task : runs[x] \in Nat
    BY DEF TypeOK
  <2>4. runs[t] = 0 /\ runs'[t] <= 1
    BY <2>1, <2>2
  <2>5. \A x \in Task : x \in Upcoming' \/ x \notin issued' => runs'[x] = 0
    BY <2>1, <2>2
  <2> QED
    BY <2>1, <2>2, <2>4, <2>5
<1>8. CASE PublishResults
  <2>1. mu' = "free" /\ published' = published \cup DOMAIN results /\ DOMAIN results' = {}
    BY <1>8 DEF PublishResults, Empty
  <2>2. UNCHANGED <<adding, wheel, waiting, todo, issued, runs>>
    BY <1>8 DEF PublishResults
  <2> QED
    BY <2>1, <2>2
<1>9. CASE Exit
  <2>1. mu' = "free" /\ DOMAIN wheel' = {} /\ waiting' = {} /\ todo' = {} /\ DOMAIN results' = {}
    BY <1>9 DEF Exit, Empty
  <2>2. UNCHANGED <<issued, runs, published>>
    BY <1>9 DEF Exit
  <2> QED
    BY <2>1, <2>2
<1>10. CASE Start
  <2>1. DOMAIN wheel' = {}
    BY <1>10 DEF Start, WheelAtStart, Empty
  <2>2. UNCHANGED <<mu, adding, waiting, todo, results, issued, runs, published>>
    BY <1>10 DEF Start, batch, history
  <2> QED
    BY <2>1, <2>2
<1>11. CASE UNCHANGED <<mu, adding, wheel, waiting, todo, results, issued, runs, published>>
  BY <1>11
<1>12. CASE \/ ClockTick \/ ReceiveTick \/ UpdateExits \/ Stop \/ UNCHANGED vars
            \/ \E id \in Module : ModuleEvent(id)
            \/ \E t \in Task : StoreResult(t) \/ StoreResultFails(t)
  BY <1>11, <1>12 DEF ClockTick, ReceiveTick, UpdateExits, Stop, vars, ModuleEvent,
                      StoreResult, StoreResultFails, batch, history
<1> HIDE DEF Placed, Upcoming, Over, Storing, InFlight, AtMostOnce
<1> QED
  BY <1>1, <1>2, <1>3, <1>4, <1>5, <1>6, <1>7, <1>8, <1>9, <1>10, <1>12
     DEF Next, API, Update, Execute

(* Records and scripts precede the tasks they belong to, and follow them   *)
(* only into deletion.                                                     *)
LEMMA NextRecorded == TypeOK /\ Placed /\ Recorded /\ [Next]_vars => Recorded'
<1> SUFFICES ASSUME TypeOK, Placed, Recorded, [Next]_vars
             PROVE  Recorded'
  OBVIOUS
<1> USE DEF Recorded, RecordKept, ScriptKept, Storing, InFlight
<1>1. ASSUME NEW t \in Task, NEW job \in Job, AddTask(t, job)
      PROVE  Recorded'
  <2>1. DOMAIN adding' = {t} /\ adding'[t] = job /\ mu' = "storing"
    BY <1>1 DEF AddTask, Put, Empty
  <2>2. t \notin deleted
    BY <1>1 DEF AddTask, TypeOK
  <2>3. UNCHANGED <<dbTask, wheel, waiting, todo, deleted>>
    BY <1>1 DEF AddTask, batch
  <2>4. scripts \subseteq scripts' /\ (job.type = "sh" => CmdFile(t) \in scripts')
    BY <1>1 DEF AddTask, ScriptsWith
  <2> QED
    BY <2>1, <2>2, <2>3, <2>4
<1>2. ASSUME NEW t \in Task, StoreTask(t)
      PROVE  Recorded'
  <2>1. mu = "storing" /\ mu' = "sending" /\ t \in Storing
    BY <1>2 DEF StoreTask
  <2>2. UNCHANGED <<scripts, waiting, todo, deleted>>
    BY <1>2 DEF StoreTask, batch, history
  <2>3. /\ DOMAIN wheel' = DOMAIN wheel \cup {t}
        /\ DOMAIN dbTask' = DOMAIN dbTask \cup {t}
        /\ dbTask'[t] = adding[t]
        /\ \A x \in DOMAIN dbTask \ {t} : dbTask'[x] = dbTask[x]
    BY <1>2, StoreTaskEffect
  <2> QED
    BY <2>1, <2>2, <2>3
<1>3. ASSUME NEW t \in Task, DeleteTask(t)
      PROVE  Recorded'
  <2>1. mu = "free" /\ mu' = "free" /\ deleted' = deleted \cup {t}
    BY <1>3 DEF DeleteTask
  <2>2. \A x \in Task : CmdFile(x) \in scripts => CmdFile(x) \in scripts'
    BY <1>3 DEF DeleteTask, CmdFile, DeletedCmdFile
  <2>3. UNCHANGED <<waiting, todo>>
    BY <1>3 DEF DeleteTask, batch
  <2>4. /\ DOMAIN wheel' = DOMAIN wheel \ {t}
        /\ DOMAIN dbTask' = DOMAIN dbTask \ {t}
        /\ \A x \in DOMAIN dbTask \ {t} : dbTask'[x] = dbTask[x]
    BY <1>3, DeleteTaskEffect
  <2>5. DOMAIN dbTask \subseteq Task
    BY DEF TypeOK, PartialFunction
  <2> QED
    BY <2>1, <2>2, <2>3, <2>4, <2>5
<1>4. CASE Trigger
  <2>1. UNCHANGED <<dbTask, scripts, mu, adding, todo, deleted>>
    BY <1>4 DEF Trigger, disk, batch
  <2>2. /\ Wheel!Due \subseteq DOMAIN wheel
        /\ DOMAIN wheel' \subseteq DOMAIN wheel
        /\ UNION waiting' = (UNION waiting) \cup Wheel!Due
    BY <1>4, TriggerEffect
  <2> QED
    BY <2>1, <2>2
<1>5. ASSUME NEW jobs \in waiting, ExecuteHandle(jobs)
      PROVE  Recorded'
  <2>1. mu = "free" /\ mu' = "executing" /\ waiting' = waiting \ {jobs} /\ todo' = jobs
    BY <1>5 DEF ExecuteHandle
  <2>2. UNCHANGED <<dbTask, scripts, adding, wheel, deleted>>
    BY <1>5 DEF ExecuteHandle, disk, history
  <2> QED
    BY <2>1, <2>2
<1>6. ASSUME NEW t \in Task, MissTask(t) \/ RunTask(t)
      PROVE  Recorded'
  <2>1. todo' = todo \ {t} /\ UNCHANGED <<dbTask, scripts, mu, adding, wheel, waiting, deleted>>
    BY <1>6, ResultEffect DEF disk
  <2> QED
    BY <2>1
<1>7. CASE Exit
  <2>1. mu' = "free" /\ DOMAIN wheel' = {} /\ waiting' = {} /\ todo' = {}
    BY <1>7 DEF Exit, Empty
  <2>2. UNCHANGED <<dbTask, scripts, deleted>>
    BY <1>7 DEF Exit, disk
  <2> QED
    BY <2>1, <2>2
<1>8. CASE Start
  <2>1. DOMAIN wheel' = {}
    BY <1>8 DEF Start, WheelAtStart, Empty
  <2>2. UNCHANGED <<dbTask, scripts, mu, adding, waiting, todo, deleted>>
    BY <1>8 DEF Start, disk, batch, history
  <2> QED
    BY <2>1, <2>2
<1>9. CASE StoreTaskFails \/ ReturnTask \/ PublishResults
  <2>1. mu' = "free" /\ UNCHANGED <<dbTask, scripts, wheel, waiting, todo, deleted>>
    BY <1>9 DEF StoreTaskFails, ReturnTask, PublishResults, disk, batch, history
  <2> QED
    BY <2>1
<1>10. CASE \/ ClockTick \/ ReceiveTick \/ UpdateExits \/ Stop \/ UNCHANGED vars
            \/ \E id \in Module : ModuleEvent(id)
            \/ \E t \in Task : StoreResult(t) \/ StoreResultFails(t)
  <2>1. UNCHANGED <<dbTask, scripts, mu, adding, wheel, waiting, todo, deleted>>
    BY <1>10 DEF ClockTick, ReceiveTick, UpdateExits, Stop, vars, ModuleEvent,
                StoreResult, StoreResultFails, disk, batch, history
  <2> QED
    BY <2>1
<1> HIDE DEF Recorded, RecordKept, ScriptKept, Storing, InFlight
<1> QED
  BY <1>1, <1>2, <1>3, <1>4, <1>5, <1>6, <1>7, <1>8, <1>9, <1>10
     DEF Next, API, Update, Execute

(* No step forgets an accepted task. *)
LEMMA NextAccounted == TypeOK /\ Accounted /\ [Next]_vars => Accounted'
<1> SUFFICES ASSUME TypeOK, Accounted, [Next]_vars
             PROVE  Accounted'
  OBVIOUS
<1> USE DEF Accounted, NoTaskLost, InFlight
<1>1. ASSUME NEW t \in Task, NEW job \in Job, AddTask(t, job)
      PROVE  Accounted'
  <2>1. process # "down" /\ mu' = "storing" /\ UNCHANGED <<process, wheel, waiting, batch, accepted, deleted, published>>
    BY <1>1 DEF AddTask
  <2> QED
    BY <2>1 DEF batch
<1>2. ASSUME NEW t \in Task, StoreTask(t)
      PROVE  Accounted'
  <2>1. mu = "storing" /\ UNCHANGED <<process, adding, waiting, batch, history>>
    BY <1>2 DEF StoreTask
  <2>2. DOMAIN adding = {t} /\ DOMAIN wheel' = DOMAIN wheel \cup {t}
    BY <1>2, StoreTaskEffect
  <2> QED
    BY <2>1, <2>2 DEF batch, history
<1>3. CASE ReturnTask
  <2>1. mu = "sending" /\ mu' = "free" /\ accepted' = accepted \cup DOMAIN adding
    BY <1>3 DEF ReturnTask
  <2>2. UNCHANGED <<process, wheel, waiting, batch, deleted, published>>
    BY <1>3 DEF ReturnTask
  <2> QED
    BY <2>1, <2>2 DEF batch
<1>4. ASSUME NEW t \in Task, DeleteTask(t)
      PROVE  Accounted'
  <2>1. mu' = "free" /\ deleted' = deleted \cup {t} /\ UNCHANGED <<process, waiting, batch, accepted, published>>
    BY <1>4 DEF DeleteTask
  <2>2. DOMAIN wheel' = DOMAIN wheel \ {t}
    BY <1>4, DeleteTaskEffect
  <2> QED
    BY <2>1, <2>2 DEF batch
<1>5. CASE Trigger
  <2>1. mu' = "free" /\ UNCHANGED <<process, batch, accepted, deleted, published>>
    BY <1>5 DEF Trigger
  <2>2. /\ DOMAIN wheel' = DOMAIN wheel \ Wheel!Due
        /\ UNION waiting' = (UNION waiting) \cup Wheel!Due
    BY <1>5, TriggerEffect
  <2> QED
    BY <2>1, <2>2 DEF batch
<1>6. ASSUME NEW jobs \in waiting, ExecuteHandle(jobs)
      PROVE  Accounted'
  <2>1. todo = {}
    BY <1>6 DEF ExecuteHandle, TypeOK
  <2>2. mu' = "executing" /\ waiting' = waiting \ {jobs} /\ todo' = jobs
    BY <1>6 DEF ExecuteHandle
  <2>3. UNCHANGED <<process, wheel, results, history>>
    BY <1>6 DEF ExecuteHandle
  <2>4. UNION waiting \subseteq (UNION waiting') \cup todo'
    BY <2>2
  <2> QED
    BY <2>1, <2>2, <2>3, <2>4 DEF history
<1>7. ASSUME NEW t \in Task, MissTask(t) \/ RunTask(t)
      PROVE  Accounted'
  <2>1. /\ mu = "executing" /\ todo' = todo \ {t}
        /\ DOMAIN results' = DOMAIN results \cup {t}
        /\ UNCHANGED <<process, mu, wheel, waiting, accepted, deleted, published>>
    BY <1>7, ResultEffect
  <2> QED
    BY <2>1
<1>8. CASE PublishResults
  <2>1. mu' = "free" /\ published' = published \cup DOMAIN results /\ todo' = todo
    BY <1>8 DEF PublishResults
  <2>2. UNCHANGED <<process, wheel, waiting, accepted, deleted>>
    BY <1>8 DEF PublishResults
  <2> QED
    BY <2>1, <2>2
<1>9. CASE Exit
  BY <1>9 DEF Exit, Empty
<1>10. CASE Start
  <2>1. accepted = {} /\ mu \notin {"storing", "sending"}
    BY <1>10 DEF Start
  <2>2. process' = "up" /\ mu' = mu /\ accepted' = accepted
    BY <1>10 DEF Start, history
  <2> QED
    BY <2>1, <2>2
<1>11. CASE StoreTaskFails
  BY <1>11 DEF StoreTaskFails, batch, history
<1>12. CASE \/ ClockTick \/ ReceiveTick \/ UpdateExits \/ Stop \/ UNCHANGED vars
            \/ \E id \in Module : ModuleEvent(id)
            \/ \E t \in Task : StoreResult(t) \/ StoreResultFails(t)
  <2>1. /\ process' = "down" => process = "down"
        /\ UNCHANGED <<mu, adding, wheel, waiting, todo, results, accepted, deleted, published>>
    BY <1>12 DEF ClockTick, ReceiveTick, UpdateExits, Stop, vars, ModuleEvent,
                 StoreResult, StoreResultFails, batch, history
  <2> QED
    BY <2>1
<1> HIDE DEF Accounted, NoTaskLost, InFlight
<1> QED
  BY <1>1, <1>2, <1>3, <1>4, <1>5, <1>6, <1>7, <1>8, <1>9, <1>10, <1>11, <1>12
     DEF Next, API, Update, Execute

(* A second of the clock is worth one tick, and at most two are ahead.     *)
LEMMA NextTimely ==
    TypeOK /\ Placed /\ Recorded /\ Accounted /\ Timely /\ [Next]_vars => Timely'
<1> SUFFICES ASSUME TypeOK, Placed, Recorded, Accounted, Timely, [Next]_vars
             PROVE  Timely'
  OBVIOUS
<1>a. /\ \A t \in Task : age[t] \in Nat /\ age[t] <= MaxAge
      /\ MaxAge \in Nat
  BY AgeAssumption DEF TypeOK
<1>b. /\ DOMAIN wheel \subseteq DOMAIN dbTask
      /\ DOMAIN dbTask \subseteq Task
      /\ \A t \in DOMAIN wheel : wheel[t] \in Nat
      /\ \A t \in DOMAIN dbTask : dbTask[t].interval \in Nat /\ dbTask[t].interval <= MaxAge
  BY AgeAssumption, JobAssumption DEF TypeOK, PartialFunction, Recorded, RecordKept
<1>c. ticker \in 0 .. 1
  BY DEF Timely
<1>1. ASSUME NEW t \in Task, StoreTask(t)
      PROVE  Timely'
  <2>1. /\ DOMAIN adding = {t} /\ adding[t] \in Job
        /\ DOMAIN wheel' = DOMAIN wheel \cup {t}
        /\ wheel'[t] = adding[t].interval
        /\ \A x \in DOMAIN wheel : wheel'[x] = wheel[x]
        /\ DOMAIN dbTask' = DOMAIN dbTask \cup {t}
        /\ dbTask'[t] = adding[t]
        /\ \A x \in DOMAIN dbTask \ {t} : dbTask'[x] = dbTask[x]
    BY <1>1, StoreTaskEffect
  <2>2. UNCHANGED <<update, ticker, age>>
    BY <1>1 DEF StoreTask, history
  <2>3. t \notin DOMAIN wheel
    BY <1>1 DEF StoreTask, Placed, Storing
  <2>4. adding[t].interval \in Nat
    BY <2>1, JobAssumption
  <2>5. wheel'[t] <= dbTask'[t].interval /\ Pulled <= 2
    BY <1>c, <2>1, <2>4 DEF Pulled
  <2>6. dbTask'[t].interval + Pulled <= age[t] + 2 + wheel'[t]
    BY <1>a, <1>c, <2>1, <2>4, <2>5 DEF Pulled
  <2>7. \A x \in DOMAIN wheel : wheel'[x] = wheel[x] /\ dbTask'[x] = dbTask[x]
    BY <1>b, <2>1, <2>3
  <2>8. Pulled' = Pulled
    BY <2>2 DEF Pulled
  <2> QED
    BY <2>1, <2>2, <2>5, <2>6, <2>7, <2>8 DEF Timely
<1>2. ASSUME NEW t \in Task, DeleteTask(t)
      PROVE  Timely'
  <2>1. /\ DOMAIN wheel' = DOMAIN wheel \ {t}
        /\ \A x \in DOMAIN wheel \ {t} : wheel'[x] = wheel[x]
        /\ \A x \in DOMAIN dbTask \ {t} : dbTask'[x] = dbTask[x]
    BY <1>2, DeleteTaskEffect
  <2>2. age'[t] = 0 /\ \A x \in Task \ {t} : age'[x] = age[x]
    BY <1>2 DEF DeleteTask, TypeOK
  <2>3. ticker' = ticker /\ Pulled' = Pulled
    BY <1>2 DEF DeleteTask, Pulled
  <2> QED
    BY <1>b, <2>1, <2>2, <2>3 DEF Timely
<1>3. CASE ClockTick
  <2>1. UNCHANGED <<dbTask, wheel, update>>
    BY <1>3 DEF ClockTick, disk
  <2>2. ticker' \in 0 .. 1 /\ Pulled \in Nat /\ Pulled' \in 0 .. 2 /\ Pulled' <= Pulled + 1
    BY <1>3, <1>c DEF ClockTick, TickerSize, Pulled
  <2>3. \A t \in Task \ DOMAIN wheel : age'[t] = age[t]
    BY <1>3 DEF ClockTick
  <2>4. ASSUME NEW t \in DOMAIN wheel
        PROVE  dbTask[t].interval + Pulled' <= age'[t] + 2 + wheel[t]
    <3>1. t \in Task
      BY <1>b
    <3>2. age'[t] = IF age[t] < MaxAge THEN age[t] + 1 ELSE age[t]
      BY <1>3, <3>1 DEF ClockTick
    <3>3. dbTask[t].interval + Pulled <= age[t] + 2 + wheel[t]
      BY DEF Timely
    <3>4. /\ dbTask[t].interval \in Nat /\ dbTask[t].interval <= MaxAge
          /\ wheel[t] \in Nat /\ age[t] \in Nat /\ age[t] <= MaxAge
      BY <1>a, <1>b, <3>1
    <3> QED
      BY <1>a, <2>2, <3>2, <3>3, <3>4
  <2> QED
    BY <2>1, <2>2, <2>3, <2>4 DEF Timely
<1>4. CASE ReceiveTick
  <2>1. UNCHANGED <<dbTask, wheel, age>>
    BY <1>4 DEF ReceiveTick, disk, history
  <2>2. ticker' \in 0 .. 1 /\ Pulled' = Pulled
    BY <1>4, <1>c DEF ReceiveTick, Pulled
  <2> QED
    BY <2>1, <2>2 DEF Timely
<1>5. CASE Trigger
  <2>1. UNCHANGED <<dbTask, ticker>>
    BY <1>5 DEF Trigger, disk
  <2>2. /\ Wheel!Due \subseteq DOMAIN wheel
        /\ DOMAIN wheel' = DOMAIN wheel \ Wheel!Due
        /\ \A t \in DOMAIN wheel' : wheel[t] > 0 /\ wheel'[t] = wheel[t] - 1
    BY <1>5, TriggerEffect
  <2>3. \A t \in Task : age'[t] = IF t \in Wheel!Due THEN 0 ELSE age[t]
    BY <1>5 DEF Trigger
  <2>4. Pulled = ticker + 1 /\ Pulled' = ticker
    BY <1>5 DEF Trigger, Pulled
  <2>5. \A t \in Task \ DOMAIN wheel' : age'[t] = 0
    BY <2>2, <2>3 DEF Timely
  <2>6. ASSUME NEW t \in DOMAIN wheel'
        PROVE  /\ wheel'[t] <= dbTask[t].interval
               /\ dbTask[t].interval + Pulled' <= age'[t] + 2 + wheel'[t]
    <3>1. t \in DOMAIN wheel /\ t \in Task /\ age'[t] = age[t]
      BY <1>b, <2>2, <2>3
    <3>2. wheel[t] <= dbTask[t].interval /\ dbTask[t].interval + ticker + 1 <= age[t] + 2 + wheel[t]
      BY <1>b, <1>c, <2>4, <3>1 DEF Timely
    <3> QED
      BY <1>a, <1>b, <1>c, <2>2, <2>4, <3>1, <3>2
  <2> QED
    BY <1>c, <2>1, <2>5, <2>6 DEF Timely
<1>6. CASE UpdateExits
  <2>1. UNCHANGED <<dbTask, wheel, age>>
    BY <1>6 DEF UpdateExits, disk, history
  <2>2. ticker' = 0 /\ Pulled' = 0 /\ Pulled \in Nat
    BY <1>6, <1>c DEF UpdateExits, Pulled
  <2>3. \A t \in DOMAIN wheel : dbTask[t].interval + Pulled' <= age[t] + 2 + wheel[t]
    BY <1>a, <1>b, <2>2 DEF Timely
  <2> QED
    BY <2>1, <2>2, <2>3 DEF Timely
<1>7. CASE Exit
  <2>1. DOMAIN wheel' = {} /\ ticker' = 0 /\ \A t \in Task : age'[t] = 0
    BY <1>7 DEF Exit, Empty
  <2> QED
    BY <2>1 DEF Timely
<1>8. CASE Start
  <2>1. DOMAIN wheel' = {} /\ ticker' = ticker
    BY <1>8 DEF Start, WheelAtStart, Empty
  <2>2. age' = age /\ DOMAIN wheel = {}
    BY <1>8 DEF Start, history, Accounted
  <2> QED
    BY <1>c, <2>1, <2>2 DEF Timely
<1>9. CASE \/ \E t \in Task, job \in Job : AddTask(t, job)
           \/ StoreTaskFails \/ ReturnTask \/ PublishResults \/ Stop \/ UNCHANGED vars
           \/ \E id \in Module : ModuleEvent(id)
           \/ \E jobs \in waiting : ExecuteHandle(jobs)
           \/ \E t \in Task : MissTask(t) \/ RunTask(t) \/ StoreResult(t) \/ StoreResultFails(t)
  <2>1. UNCHANGED <<dbTask, wheel, update, ticker, age>>
    BY <1>9 DEF AddTask, StoreTaskFails, ReturnTask, PublishResults, Stop, vars, ModuleEvent,
                ExecuteHandle, MissTask, RunTask, StoreResult, StoreResultFails, disk, history
  <2> QED
    BY <2>1 DEF Timely, Pulled
<1> QED
  BY <1>1, <1>2, <1>3, <1>4, <1>5, <1>6, <1>7, <1>8, <1>9
     DEF Next, API, Update, Execute

(* A task leaves executeJobs' hands with its result stored. *)
LEMMA NextKept ==
    ~StoreFaults /\ TypeOK /\ Placed /\ Kept /\ [Next]_vars => Kept'
<1> SUFFICES ASSUME ~StoreFaults, TypeOK, Placed, Kept, [Next]_vars
             PROVE  Kept'
  OBVIOUS
<1>1. ASSUME NEW t \in Task, MissTask(t)
      PROVE  Kept'
  <2>1. t \in todo /\ DOMAIN results' = DOMAIN results \cup {t} /\ published' = published
    BY <1>1, ResultEffect
  <2>2. UNCHANGED <<dbResult, unstored, runs>>
    BY <1>1 DEF MissTask, disk, history
  <2>3. runs[t] = 0
    BY <2>1 DEF Placed, Upcoming, InFlight
  <2> QED
    BY <2>1, <2>2, <2>3 DEF Kept, Over
<1>2. ASSUME NEW t \in Task, RunTask(t)
      PROVE  Kept'
  <2>1. /\ DOMAIN results' = DOMAIN results \cup {t} /\ published' = published
        /\ dbResult' = dbResult /\ unstored = {}
    BY <1>2, ResultEffect DEF disk
  <2>2. unstored' = {t} /\ \A x \in Task \ {t} : runs'[x] = runs[x]
    BY <1>2 DEF RunTask, TypeOK
  <2>3. Over \subseteq Task
    BY DEF Over, TypeOK, PartialFunction
  <2> QED
    BY <2>1, <2>2, <2>3 DEF Kept, Over
<1>3. ASSUME NEW t \in Task, StoreResult(t)
      PROVE  Kept'
  <2>1. DOMAIN dbResult' = DOMAIN dbResult \cup {t} /\ unstored' = {}
    BY <1>3 DEF StoreResult, Put
  <2>2. unstored = {t}
    BY <1>3 DEF StoreResult, TypeOK
  <2>3. UNCHANGED <<results, runs, published>>
    BY <1>3 DEF StoreResult, history
  <2> QED
    BY <2>1, <2>2, <2>3 DEF Kept, Over
<1>4. CASE PublishResults
  <2>1. published' = published \cup DOMAIN results /\ DOMAIN results' = {} /\ unstored' = {}
    BY <1>4 DEF PublishResults, LoopDone, Empty
  <2>2. unstored = {} /\ UNCHANGED <<dbResult, runs>>
    BY <1>4 DEF PublishResults, LoopDone, disk
  <2> QED
    BY <2>1, <2>2 DEF Kept, Over
<1>5. CASE Exit
  <2>1. DOMAIN results' = {} /\ UNCHANGED <<dbResult, runs, published>>
    BY <1>5 DEF Exit, Empty, disk
  <2>2. published \cap unstored = {}
    BY DEF TypeOK, Placed
  <2> QED
    BY <2>1, <2>2 DEF Kept, Over
<1>6. ASSUME NEW t \in Task, StoreResultFails(t)
      PROVE  FALSE
  BY <1>6 DEF StoreResultFails
<1>7. CASE \/ \E t \in Task, job \in Job : AddTask(t, job)
           \/ \E t \in Task : StoreTask(t) \/ DeleteTask(t)
           \/ StoreTaskFails \/ ReturnTask \/ ReceiveTick \/ Trigger \/ UpdateExits
           \/ \E id \in Module : ModuleEvent(id)
           \/ \E jobs \in waiting : ExecuteHandle(jobs)
           \/ ClockTick \/ Stop \/ Start \/ UNCHANGED vars
  <2>1. UNCHANGED <<dbResult, unstored, results, runs, published>>
    BY <1>7 DEF AddTask, StoreTask, DeleteTask, StoreTaskFails, ReturnTask, ReceiveTick, Trigger,
                UpdateExits, ModuleEvent, ExecuteHandle, ClockTick, Stop, Start, vars,
                disk, batch, history
  <2> QED
    BY <2>1 DEF Kept, Over
<1> QED
  BY <1>1, <1>2, <1>3, <1>4, <1>5, <1>6, <1>7 DEF Next, API, Update, Execute

-----------------------------------------------------------------------------
(* The strengthening is inductive. *)

(* Nothing is under way in the initial state. *)
LEMMA InitIInv == Init => IInv
<1> SUFFICES ASSUME Init
             PROVE  IInv
  OBVIOUS
<1>1. TypeOK
  BY InitTypeOK
<1>2. /\ mu = "free" /\ process = "up" /\ waiting = {} /\ todo = {} /\ DOMAIN wheel = {}
      /\ DOMAIN results = {} /\ published = {} /\ issued = {} /\ deleted = {} /\ accepted = {}
      /\ DOMAIN dbTask = {} /\ ticker = 0
      /\ \A t \in Task : runs[t] = 0 /\ age[t] = 0
  BY DEF Init, Empty
<1>3. Placed
  BY <1>2 DEF Placed, Upcoming, Over, Storing, InFlight, AtMostOnce
<1>4. Recorded
  BY <1>2 DEF Recorded, RecordKept, ScriptKept, Storing, InFlight
<1>5. Accounted
  BY <1>2 DEF Accounted, NoTaskLost
<1>6. Timely
  BY <1>2 DEF Timely
<1>7. Kept
  BY <1>2 DEF Kept, Over
<1> QED
  BY <1>1, <1>3, <1>4, <1>5, <1>6, <1>7 DEF IInv

(* Every step keeps it. *)
LEMMA NextIInv == IInv /\ [Next]_vars => IInv'
  BY NextTypeOK, NextPlaced, NextRecorded, NextAccounted, NextTimely, NextKept DEF IInv

(* It holds in every reachable state. *)
THEOREM Invariance == Spec => []IInv
  BY InitIInv, NextIInv, PTL DEF Spec

-----------------------------------------------------------------------------
(* What follows from it. *)

(* No task is executed twice, whatever ticks, deletions, crashes and       *)
(* restarts (manager.go:229-248, 312-401) happen.                          *)
THEOREM ExecutedAtMostOnce == Spec => []AtMostOnce
<1>1. IInv => AtMostOnce
  BY DEF IInv, Placed
<1> QED
  BY <1>1, Invariance, PTL

(* An accepted task is waiting, being executed, published or deleted as    *)
(* long as the process lives (manager.go:241-248, 427-478).                *)
THEOREM AcceptedIsKept == Spec => []NoTaskLost
<1>1. IInv => NoTaskLost
  BY DEF IInv, Accounted
<1> QED
  BY <1>1, Invariance, PTL

(* A task that is waited for has its record, unless it was deleted when    *)
(* already due (manager.go:329-338, 471-474, 487-491).                     *)
THEOREM RecordsKept == Spec => []RecordKept
<1>1. IInv => RecordKept
  BY DEF IInv, Recorded
<1> QED
  BY <1>1, Invariance, PTL

(* A stored sh task has its script (manager.go:443-452).                   *)
THEOREM ScriptsKept == Spec => []ScriptKept
<1>1. IInv => ScriptKept
  BY DEF IInv, Recorded
<1> QED
  BY <1>1, Invariance, PTL

(* The record of a task that is to run, and the script of a record, are on *)
(* disk (manager.go:443-474, 487-491).                                     *)
THEOREM DiskAlwaysKept == Spec => []DiskKept
<1>1. RecordKept /\ ScriptKept => DiskKept
  BY DEF DiskKept
<1> QED
  BY <1>1, RecordsKept, ScriptsKept, PTL

(* With a database that does not fail, a published result of a task that   *)
(* ran can be read (manager.go:389-399).                                   *)
THEOREM PublishedStored == ~StoreFaults => (Spec => []PublishedIsStored)
<1> SUFFICES ASSUME ~StoreFaults
             PROVE  Spec => []PublishedIsStored
  OBVIOUS
<1>1. IInv => PublishedIsStored
  <2> SUFFICES ASSUME IInv, NEW t \in published, runs[t] > 0
               PROVE  t \in DOMAIN dbResult
    BY DEF PublishedIsStored
  <2>1. published \cap unstored = {}
    BY DEF IInv, TypeOK, Placed, Upcoming, Over
  <2> QED
    BY <2>1 DEF IInv, Kept, Over
<1> QED
  BY <1>1, Invariance, PTL

(* A deleted task is not executed any more, even when it was due already   *)
(* (manager.go:241-248, 329-338, 481-499).                                 *)
THEOREM NoRunAfterDelete == Spec => DeletedNeverRuns
<1>1. IInv /\ [Next]_vars => [\A t \in deleted : runs'[t] = runs[t]]_vars
  <2> SUFFICES ASSUME IInv, [Next]_vars, NEW t \in deleted
               PROVE  runs'[t] = runs[t]
    OBVIOUS
  <2>1. t \in Task /\ t \notin DOMAIN dbTask
    BY DEF IInv, Recorded, TypeOK
  <2>2. ASSUME NEW u \in Task, RunTask(u)
        PROVE  runs'[t] = runs[t]
    BY <2>1, <2>2 DEF RunTask, IInv, TypeOK
  <2>3. CASE runs' = runs
    BY <2>3
  <2>4. (\E u \in Task : RunTask(u)) \/ runs' = runs
    BY DEF Next, API, Update, Execute, AddTask, StoreTask, StoreTaskFails, ReturnTask, DeleteTask,
           ReceiveTick, Trigger, ModuleEvent, UpdateExits, ExecuteHandle, MissTask, StoreResult,
           StoreResultFails, PublishResults, ClockTick, Stop, Exit, Start, history, vars
  <2> QED
    BY <2>2, <2>3, <2>4
<1> QED
  BY <1>1, Invariance, PTL DEF Spec, DeletedNeverRuns

(* No task comes due more than two ticks early (manager.go:229-244).       *)
THEOREM AtMostTwoTicksEarly == Spec => NearlyOnTime
<1>1. IInv /\ [Next]_vars =>
          [\A t \in Task : ComesDue(t) => age[t] + 1 >= dbTask[t].interval]_vars
  <2> SUFFICES ASSUME IInv, [Next]_vars, NEW t \in Task, ComesDue(t)
               PROVE  age[t] + 1 >= dbTask[t].interval
    OBVIOUS
  <2>1. t \in DOMAIN wheel /\ t \notin UNION waiting /\ t \in UNION waiting'
    BY DEF ComesDue, IInv, Placed, InFlight
  <2>2. Trigger \/ waiting' \subseteq waiting
    BY DEF Next, API, Update, Execute, AddTask, StoreTask, StoreTaskFails, ReturnTask, DeleteTask,
           ReceiveTick, ModuleEvent, UpdateExits, ExecuteHandle, MissTask, RunTask, StoreResult,
           StoreResultFails, PublishResults, ClockTick, Stop, Exit, Start, vars
  <2>3. Trigger
    BY <2>1, <2>2
  <2>4. t \in Wheel!Due /\ wheel[t] = 0
    BY <2>1, <2>3, TriggerEffect DEF IInv
  <2>5. Pulled >= 1 /\ Pulled \in Nat
    BY <2>3 DEF IInv, Timely, Trigger, Pulled
  <2>6. dbTask[t].interval + Pulled <= age[t] + 2 + wheel[t]
    BY <2>1 DEF IInv, Timely
  <2>7. age[t] \in Nat /\ dbTask[t].interval \in Nat
    BY <2>1, AgeAssumption, JobAssumption DEF IInv, TypeOK, PartialFunction, Recorded, RecordKept
  <2> QED
    BY <2>4, <2>5, <2>6, <2>7
<1> QED
  BY <1>1, Invariance, PTL DEF Spec, NearlyOnTime
=============================================================================

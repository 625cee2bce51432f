-------------------------- MODULE TaskScheduleProofs --------------------------
(***************************************************************************)
(* Proofs about TaskSchedule, for every resolution of the clock, number of *)
(* slots, interval, delay and date, and however long calls and ticks wait  *)
(* for the lock: a task is handed out less than three periods of the       *)
(* ticker before the time its client asked for, and after it by no more    *)
(* than the waits and the dropped ticks account for.                       *)
(***************************************************************************)
EXTENDS TaskSchedule, TimeWheelProofs

-----------------------------------------------------------------------------
(* The invariant. *)

(* A call carries the whole seconds of the time that was wanted when it    *)
(* was made: what is left of it, and what it has waited since.             *)
CallFits(id) ==
    LET wanted == left[id] + waited[id] IN
    calls[id] * R <= wanted /\ wanted < calls[id] * R + R

(* The ticks that remain for an item are what is left of its time, but for *)
(* the wait of its call, the ticks that were dropped and those that are    *)
(* still to be handled on the one side, and on the other for the two ticks *)
(* that can have been on their way when it was added.                      *)
ItemFits(id) ==
    /\ Remaining(id) * Period <= left[id] + waited[id] + clock + (missed[id] + Pending) * Period
    /\ left[id] + clock + Pending * Period < Remaining(id) * Period + 4 * Period

HandedOut(id) == left[id] < 3 * Period

(* A task is with its call, in the wheel, or handed out; one whose time is *)
(* awaited gets a slot.                                                    *)
Tasks ==
    /\ DOMAIN calls \subseteq ID
    /\ DOMAIN left \subseteq DOMAIN calls \cup DOMAIN mapItems \cup jobList
    /\ DOMAIN waited = DOMAIN left \ jobList
    /\ DOMAIN missed = DOMAIN left \ jobList
    /\ DOMAIN calls \cap (DOMAIN mapItems \cup jobList) = {}
    /\ DOMAIN mapItems \cap jobList = {}
    /\ DOMAIN left \cap DOMAIN mapItems \subseteq Linked
    /\ \A id \in DOMAIN left : left[id] \in Int
    /\ \A id \in DOMAIN waited : waited[id] \in Nat /\ missed[id] \in Nat
    /\ \A id \in DOMAIN calls : calls[id] \in Int /\ (id \in DOMAIN left => calls[id] \in Nat)

Clocks ==
    /\ clock \in 0 .. Period - 1 /\ offset \in 0 .. R - 1
    /\ ticker \in {0, 1} /\ received \in {0, 1}

ScheduleIInv ==
    /\ IInv /\ Clocks /\ Tasks
    /\ \A id \in DOMAIN left \cap DOMAIN calls : CallFits(id)
    /\ \A id \in DOMAIN left \cap DOMAIN mapItems : ItemFits(id)
    /\ \A id \in DOMAIN left \cap jobList : HandedOut(id)

-----------------------------------------------------------------------------
(* Arithmetic of the clocks. *)

(* A period is some units long.                                            *)
LEMMA PeriodNat == Period \in Nat \ {0} /\ R \in Nat \ {0} /\ Period = Interval * R
BY IntervalAssumption, ResolutionAssumption DEF Period

(* The next unit of the period, and the last.                              *)
LEMMA NextUnit ==
    ASSUME NEW p \in Nat \ {0}, NEW c \in 0 .. p - 1
    PROVE  (c + 1) % p = IF c = p - 1 THEN 0 ELSE c + 1
<1>1. CASE c = p - 1
    <2>1. 1 * p + 0 = c + 1 BY <1>1
    <2>2. (1 * p + 0) % p = 0 BY ModUnique
    <2>. QED BY <1>1, <2>1, <2>2
<1>2. CASE c # p - 1
    <2>1. c + 1 \in 0 .. p - 1 BY <1>2
    <2>2. (0 * p + (c + 1)) % p = c + 1 BY <2>1, ModUnique
    <2>3. 0 * p + (c + 1) = c + 1 BY <2>1
    <2>. QED BY <1>2, <2>2, <2>3
<1>. QED BY <1>1, <1>2

(* What is broken of the present second is less than a second.             *)
LEMMA BrokenType == ASSUME Clocks PROVE Broken \in 0 .. R - 1
<1>1. clock + offset \in Nat BY PeriodNat DEF Clocks
<1>2. (clock + offset) % R \in 0 .. R - 1 BY <1>1, PeriodNat, DivMod
<1>. QED BY <1>2 DEF Broken

(* toJob cuts off less than a second, and gives no negative delay to a     *)
(* task whose time is still to come.                                       *)
LEMMA CutOff ==
    ASSUME Clocks, NEW args \in Args, Accepted(args)
    PROVE  /\ JobInterval(args) \in Int /\ Wanted(args) \in Int
           /\ Wanted(args) >= 0 => /\ JobInterval(args) \in Nat
                                   /\ JobInterval(args) * R <= Wanted(args)
                                   /\ Wanted(args) < JobInterval(args) * R + R
<1>1. CASE args.datetime = {}
    <2>. DEFINE i == DefaultedInterval(args)
    <2>1. args.interval \in Int BY ArgsAssumption
    <2>2. i \in Int BY <2>1 DEF DefaultedInterval
    <2>3. JobInterval(args) = i /\ Wanted(args) = i * R
        BY <1>1 DEF JobInterval, Wanted
    <2>. HIDE DEF i
    <2>4. i * R \in Int BY <2>2, PeriodNat
    <2>5. i < 0 => i * R < 0
        <3>. SUFFICES ASSUME i < 0 PROVE i * R < 0 OBVIOUS
        <3>1. (i + 1) * R = i * R + R BY <2>2, PeriodNat
        <3>2. -(i + 1) \in Nat BY <2>2
        <3>3. (-(i + 1)) * R \in Nat BY <3>2, PeriodNat
        <3>4. (-(i + 1)) * R = -((i + 1) * R) BY <2>2, PeriodNat
        <3>. QED BY <2>4, <3>1, <3>3, <3>4, PeriodNat
    <2>6. i * R >= 0 => i \in Nat BY <2>2, <2>4, <2>5
    <2>. QED BY <2>2, <2>3, <2>4, <2>6, PeriodNat
<1>2. CASE args.datetime # {}
    <2>. DEFINE d == CHOOSE e \in args.datetime : TRUE
                units == UntilDate(d)
    <2>1. d \in args.datetime /\ d \in Int BY <1>2, ArgsAssumption
    <2>2. units > 0 BY <2>1 DEF Accepted
    <2>3. units \in Int BY <2>1, BrokenType, PeriodNat DEF UntilDate
    <2>4. units \in Nat BY <2>2, <2>3
    <2>5. JobInterval(args) = units \div R /\ Wanted(args) = units
        BY <1>2 DEF JobInterval, Wanted, Seconds
    <2>. HIDE DEF units
    <2>6. /\ units \div R \in Nat /\ units % R \in 0 .. R - 1
          /\ units = (units \div R) * R + (units % R)
        BY <2>4, PeriodNat, DivMod
    <2>. DEFINE q == units \div R
                r == units % R
    <2>7. q * R \in Nat BY <2>6, PeriodNat
    <2>. HIDE DEF q, r
    <2>8. q \in Nat /\ units = q * R + r /\ r \in 0 .. R - 1 BY <2>6 DEF q, r
    <2>9. q * R <= units /\ units < q * R + R BY <2>7, <2>8, PeriodNat
    <2>. QED BY <2>3, <2>5, <2>8, <2>9 DEF q
<1>. QED BY <1>1, <1>2

(* A delay that is cut to steps of the hand loses less than a period and   *)
(* at least the fraction of a second.                                      *)
LEMMA StepsFit ==
    ASSUME NEW d \in Nat
    PROVE  /\ Steps(d) = TicksOf(d)
           /\ Steps(d) * Period \in Nat
           /\ Steps(d) * Period <= d * R
           /\ d * R + R <= Steps(d) * Period + Period
<1>. DEFINE n == Steps(d)
            m == d % Interval
<1>1. n \in Nat /\ m \in 0 .. Interval - 1 /\ d = n * Interval + m
    <2>1. n = d \div Interval BY StepsInt
    <2>2. /\ d \div Interval \in Nat /\ m \in 0 .. Interval - 1
          /\ d = (d \div Interval) * Interval + m
        BY IntervalAssumption, DivMod
    <2>. HIDE DEF n, m
    <2>. QED BY <2>1, <2>2
<1>0. n = TicksOf(d) BY DEF TicksOf
<1>. HIDE DEF n, m
<1>2. d * R = n * Interval * R + m * R BY <1>1, PeriodNat, IntervalAssumption
<1>3. n * Period = n * Interval * R /\ n * Period \in Nat
    BY <1>1, PeriodNat, IntervalAssumption
<1>4. m * R \in Nat /\ m * R + R <= Interval * R
    <2>1. (m + 1) * R = m * R + R BY <1>1, PeriodNat
    <2>2. m + 1 <= Interval /\ m + 1 \in Nat BY <1>1, IntervalAssumption
    <2>3. (m + 1) * R <= Interval * R BY <2>2, PeriodNat, IntervalAssumption
    <2>. QED BY <1>1, <2>1, <2>3, PeriodNat
<1>. QED BY <1>0, <1>2, <1>3, <1>4, PeriodNat DEF n

(* One tick less is one period less, and one more is one more.             *)
LEMMA PeriodLess ==
    ASSUME NEW n \in Nat
    PROVE  /\ n * Period \in Nat /\ 0 * Period = 0
           /\ (n - 1) * Period = n * Period - Period
           /\ (n + 1) * Period = n * Period + Period
BY PeriodNat

-----------------------------------------------------------------------------
(* The items of the wheel. *)

(* As many ticks remain for an item as a natural number counts.            *)
LEMMA RemainingNat ==
    ASSUME IInv, NEW id \in Linked
    PROVE  Remaining(id) \in Nat
<1>. DEFINE c == Circles(mapItems[id])
            a == Ahead(mapItems[id].index)
<1>1. c \in Nat /\ a \in Nat BY LinkedItem
<1>2. Remaining(id) = c * MaxSlot + a BY DEF Remaining
<1>. HIDE DEF c, a
<1>3. c * MaxSlot \in Nat BY <1>1, MaxSlotAssumption
<1>. QED BY <1>1, <1>2, <1>3

(* What the invariant says of an item whose time is awaited, with every    *)
(* product by the period under a name of its own.                          *)
LEMMA ItemNumbers ==
    ASSUME ScheduleIInv, NEW id \in DOMAIN left \cap DOMAIN mapItems
    PROVE  /\ id \in Linked /\ id \notin jobList /\ id \in DOMAIN waited /\ id \in DOMAIN missed
           /\ left[id] \in Int /\ waited[id] \in Nat /\ missed[id] \in Nat
           /\ Remaining(id) \in Nat /\ Pending \in 0 .. 2
           /\ Remaining(id) * Period \in Nat /\ Pending * Period \in Nat
           /\ (missed[id] + Pending) * Period \in Nat
           /\ Remaining(id) * Period <= left[id] + waited[id] + clock + (missed[id] + Pending) * Period
           /\ left[id] + clock + Pending * Period < Remaining(id) * Period + 4 * Period
<1>1. /\ id \in Linked /\ id \notin jobList /\ id \in DOMAIN waited /\ id \in DOMAIN missed
      /\ left[id] \in Int /\ waited[id] \in Nat /\ missed[id] \in Nat
    BY DEF ScheduleIInv, Tasks
<1>2. Remaining(id) \in Nat BY <1>1, RemainingNat DEF ScheduleIInv
<1>3. Pending \in 0 .. 2 BY DEF ScheduleIInv, Clocks, Pending
<1>4. missed[id] + Pending \in Nat BY <1>1, <1>3
<1>. QED BY <1>1, <1>2, <1>3, <1>4, PeriodLess DEF ScheduleIInv, ItemFits

-----------------------------------------------------------------------------
(* Every step preserves the invariant. *)

(* It holds at the start.                                                  *)
LEMMA ScheduleInitIInv == ScheduleInit => ScheduleIInv
<1>. SUFFICES ASSUME ScheduleInit PROVE ScheduleIInv OBVIOUS
<1>1. IInv BY InitIInv DEF ScheduleInit
<1>2. DOMAIN mapItems = {} /\ jobList = {} BY DEF ScheduleInit, Init
<1>3. DOMAIN calls = {} /\ DOMAIN left = {} /\ DOMAIN waited = {} /\ DOMAIN missed = {}
    BY DEF ScheduleInit
<1>4. Clocks BY PeriodNat DEF ScheduleInit, Clocks
<1>. QED BY <1>1, <1>2, <1>3, <1>4 DEF ScheduleIInv, Tasks

(* A call is made.                                                         *)
LEMMA ToJobIInv ==
    ASSUME ScheduleIInv, NEW id \in ID, NEW args \in Args, ToJob(id, args)
    PROVE  ScheduleIInv'
<1>. IInv /\ Clocks /\ Tasks BY DEF ScheduleIInv
<1>1. /\ id \notin DOMAIN calls \cup DOMAIN mapItems \cup jobList /\ Accepted(args)
      /\ calls' = Put(calls, id, JobInterval(args))
      /\ Awaited(id, Wanted(args))
      /\ UNCHANGED <<vars, clock, offset, ticker, received>>
    BY DEF ToJob
<1>2. UNCHANGED <<slots, mapItems, currentSlot, jobList>> BY <1>1 DEF vars
<1>3. IInv' /\ Clocks'
    BY <1>1, <1>2 DEF IInv, TypeOK, Consistent, Clocks, Period
<1>4. id \notin DOMAIN left BY <1>1 DEF Tasks
<1>5. /\ DOMAIN calls' = DOMAIN calls \cup {id} /\ calls'[id] = JobInterval(args)
      /\ \A x \in DOMAIN calls : calls'[x] = calls[x]
    BY <1>1 DEF Put
<1>6. /\ \A x \in DOMAIN left : x \in DOMAIN left' /\ left'[x] = left[x]
      /\ \A x \in DOMAIN waited : waited'[x] = waited[x] /\ missed'[x] = missed[x]
    BY <1>1 DEF Awaited, Put, Tasks
<1>7. \/ /\ Wanted(args) >= 0
         /\ DOMAIN left' = DOMAIN left \cup {id}
         /\ DOMAIN waited' = DOMAIN waited \cup {id} /\ DOMAIN missed' = DOMAIN missed \cup {id}
         /\ left'[id] = Wanted(args) /\ waited'[id] = 0 /\ missed'[id] = 0
      \/ /\ DOMAIN left' = DOMAIN left /\ DOMAIN waited' = DOMAIN waited
         /\ DOMAIN missed' = DOMAIN missed
    BY <1>1 DEF Awaited, Put
<1>8. Linked' = Linked BY <1>2 DEF Linked, Slot
<1>. DEFINE j == JobInterval(args)
            w == Wanted(args)
<1>9. /\ j \in Int /\ w \in Int
      /\ w >= 0 => j \in Nat /\ j * R <= w /\ w < j * R + R
    BY <1>1, CutOff
<1>10. id \in DOMAIN left' => /\ w >= 0 /\ DOMAIN left' = DOMAIN left \cup {id}
                              /\ DOMAIN waited' = DOMAIN waited \cup {id}
                              /\ DOMAIN missed' = DOMAIN missed \cup {id}
                              /\ left'[id] = w /\ waited'[id] = 0 /\ missed'[id] = 0
    BY <1>4, <1>7
<1>11. id \notin DOMAIN left' => /\ DOMAIN left' = DOMAIN left
                                 /\ DOMAIN waited' = DOMAIN waited
                                 /\ DOMAIN missed' = DOMAIN missed
    BY <1>7
<1>12. calls'[id] = j BY <1>5
<1>. HIDE DEF j, w
<1>13. Tasks'
    <2>0. DOMAIN calls' \subseteq ID
        BY <1>5 DEF Tasks
    <2>1. CASE id \in DOMAIN left'
        <3>1. \A x \in DOMAIN left' : left'[x] \in Int BY <1>6, <1>9, <1>10, <2>1 DEF Tasks
        <3>2. \A x \in DOMAIN waited' : waited'[x] \in Nat /\ missed'[x] \in Nat
            BY <1>6, <1>10, <2>1 DEF Tasks
        <3>3. \A x \in DOMAIN calls' : calls'[x] \in Int /\ (x \in DOMAIN left' => calls'[x] \in Nat)
            BY <1>5, <1>9, <1>10, <1>12, <2>1 DEF Tasks
        <3>. QED BY <1>1, <1>2, <1>5, <1>8, <1>10, <2>0, <2>1, <3>1, <3>2, <3>3 DEF Tasks
    <2>2. CASE id \notin DOMAIN left'
        <3>1. \A x \in DOMAIN left' : left'[x] \in Int BY <1>6, <1>11, <2>2 DEF Tasks
        <3>2. \A x \in DOMAIN waited' : waited'[x] \in Nat /\ missed'[x] \in Nat
            BY <1>6, <1>11, <2>2 DEF Tasks
        <3>3. \A x \in DOMAIN calls' : calls'[x] \in Int /\ (x \in DOMAIN left' => calls'[x] \in Nat)
            BY <1>5, <1>9, <1>11, <1>12, <2>2 DEF Tasks
        <3>. QED BY <1>1, <1>2, <1>5, <1>8, <1>11, <2>0, <2>2, <3>1, <3>2, <3>3 DEF Tasks
    <2>. QED BY <2>1, <2>2
<1>14. ASSUME NEW x \in DOMAIN left' \cap DOMAIN calls' PROVE CallFits(x)'
    <2>1. CASE x = id
        <3>1. w >= 0 /\ left'[x] = w /\ waited'[x] = 0 /\ calls'[x] = j
            BY <1>10, <1>12, <1>14, <2>1
        <3>. QED BY <1>9, <3>1 DEF CallFits
    <2>2. CASE x # id
        <3>1. x \in DOMAIN calls /\ x \in DOMAIN left /\ x \in DOMAIN waited
            BY <1>5, <1>7, <1>14, <2>2 DEF Tasks
        <3>. QED BY <1>5, <1>6, <3>1 DEF CallFits, ScheduleIInv
    <2>. QED BY <2>1, <2>2
<1>15. ASSUME NEW x \in DOMAIN left' \cap DOMAIN mapItems' PROVE ItemFits(x)'
    <2>1. x \in DOMAIN mapItems /\ x \in DOMAIN left /\ x \in DOMAIN waited
        BY <1>1, <1>2, <1>7, <1>15 DEF Tasks
    <2>2. Remaining(x)' = Remaining(x) BY <1>2 DEF Remaining, Ahead, Circles
    <2>. QED BY <1>1, <1>6, <2>1, <2>2 DEF ItemFits, ScheduleIInv, Period, Pending
<1>16. ASSUME NEW x \in DOMAIN left' \cap jobList' PROVE HandedOut(x)'
    <2>1. x \in jobList /\ x \in DOMAIN left BY <1>1, <1>2, <1>7, <1>16
    <2>. QED BY <1>6, <2>1 DEF HandedOut, ScheduleIInv, Period
<1>. QED BY <1>3, <1>13, <1>14, <1>15, <1>16 DEF ScheduleIInv

(* A call has the lock and puts its task in the wheel.                     *)
LEMMA AddTaskIInv ==
    ASSUME ScheduleIInv, NEW id \in ID, AddTask(id)
    PROVE  ScheduleIInv'
<1>. IInv /\ Clocks /\ Tasks BY DEF ScheduleIInv
<1>1. /\ id \in DOMAIN calls /\ Add(id, calls[id]) /\ calls' = Without(calls, {id})
      /\ UNCHANGED <<clock, offset, ticker, received, left, waited, missed>>
    BY DEF AddTask
<1>2. calls[id] \in Int /\ (id \in DOMAIN left => calls[id] \in Nat) BY <1>1 DEF Tasks
<1>3. IInv' BY <1>1, <1>2, AddIInv
<1>4. Clocks' BY <1>1 DEF Clocks, Period
<1>. DEFINE placed == calcSlotAndCircle(calls[id]).index >= 0
<1>5. /\ DOMAIN mapItems' = DOMAIN mapItems \cup {id} /\ UNCHANGED jobList
      /\ Linked' = IF placed THEN Linked \cup {id} ELSE Linked
      /\ placed => Remaining(id)' = TicksOf(calls[id])
      /\ \A x \in DOMAIN mapItems : Remaining(x)' = Remaining(x)
    BY <1>1, <1>2, AddRemaining
<1>6. id \in DOMAIN left => placed BY <1>2, ItemPlacement DEF IInv, TypeOK
<1>. HIDE DEF placed
<1>7. DOMAIN calls' = DOMAIN calls \ {id} /\ \A x \in DOMAIN calls' : calls'[x] = calls[x]
    BY <1>1 DEF Without
<1>8. Tasks' BY <1>1, <1>5, <1>6, <1>7 DEF Tasks
<1>9. ASSUME NEW x \in DOMAIN left' \cap DOMAIN calls' PROVE CallFits(x)'
    BY <1>1, <1>7, <1>9 DEF CallFits, ScheduleIInv
<1>10. ASSUME NEW x \in DOMAIN left' \cap DOMAIN mapItems' PROVE ItemFits(x)'
    <2>1. CASE x # id
        BY <1>1, <1>5, <1>10, <2>1 DEF ItemFits, ScheduleIInv, Period, Pending
    <2>2. CASE x = id
        <3>. DEFINE n == Steps(calls[id]) * Period
                    s == calls[id] * R
                    k == (missed[id] + Pending) * Period
                    q == Pending * Period
        <3>1. id \in DOMAIN left /\ id \in DOMAIN waited /\ calls[id] \in Nat
            BY <1>1, <1>2, <1>10, <2>2 DEF Tasks
        <3>2. s <= left[id] + waited[id] /\ left[id] + waited[id] < s + R
            BY <1>1, <3>1 DEF CallFits, ScheduleIInv
        <3>3. n \in Nat /\ n <= s /\ s + R <= n + Period /\ Steps(calls[id]) = TicksOf(calls[id])
            BY <3>1, StepsFit
        <3>4. s \in Nat BY <3>1, PeriodNat
        <3>5. left[id] \in Int /\ waited[id] \in Nat /\ clock \in 0 .. Period - 1 /\ Period \in Nat
            BY <3>1, PeriodNat DEF Tasks, Clocks
        <3>6. missed[id] + Pending \in Nat /\ Pending \in 0 .. 2
            BY <3>1 DEF Tasks, Clocks, Pending
        <3>7. k \in Nat BY <3>6, PeriodLess
        <3>8. q <= 2 * Period /\ q \in Nat
            <4>1. Pending = 0 \/ Pending = 1 \/ Pending = 2 BY <3>6
            <4>. QED BY <4>1, <3>5
        <3>9. Remaining(id)' * Period = n BY <1>5, <1>6, <3>1, <3>3
        <3>. HIDE DEF n, s, k, q
        <3>10. n <= left[id] + waited[id] + clock + k /\ left[id] + clock + q < n + 4 * Period
            BY <3>2, <3>3, <3>4, <3>5, <3>7, <3>8, PeriodNat
        <3>. QED BY <1>1, <2>2, <3>9, <3>10 DEF ItemFits, Period, Pending, k, q
    <2>. QED BY <2>1, <2>2
<1>11. ASSUME NEW x \in DOMAIN left' \cap jobList' PROVE HandedOut(x)'
    BY <1>1, <1>5, <1>11 DEF HandedOut, ScheduleIInv, Period
<1>. QED BY <1>3, <1>4, <1>8, <1>9, <1>10, <1>11 DEF ScheduleIInv

(* A task is deleted.                                                      *)
LEMMA DeleteTaskIInv ==
    ASSUME ScheduleIInv, NEW id \in ID, DeleteTask(id)
    PROVE  ScheduleIInv'
<1>. IInv /\ Clocks /\ Tasks BY DEF ScheduleIInv
<1>1. /\ id \in DOMAIN mapItems /\ Delete(id) /\ Forgotten({id})
      /\ UNCHANGED <<clock, offset, ticker, received, calls>>
    BY DEF DeleteTask
<1>2. IInv' /\ Clocks' BY <1>1, DeleteIInv DEF Clocks, Period
<1>3. /\ DOMAIN mapItems' \subseteq DOMAIN mapItems
      /\ DOMAIN mapItems \subseteq DOMAIN mapItems' \cup {id}
      /\ Linked' = Linked \ {id} /\ UNCHANGED jobList
      /\ \A x \in DOMAIN mapItems' : Remaining(x)' = Remaining(x)
    BY <1>1, DeleteRemaining
<1>4. /\ DOMAIN left' = DOMAIN left \ {id}
      /\ DOMAIN waited' = DOMAIN waited \ {id} /\ DOMAIN missed' = DOMAIN missed \ {id}
      /\ \A x \in DOMAIN left' : left'[x] = left[x]
      /\ \A x \in DOMAIN waited' : waited'[x] = waited[x] /\ missed'[x] = missed[x]
    BY <1>1 DEF Forgotten, Without, Tasks
<1>5. Tasks' BY <1>1, <1>3, <1>4 DEF Tasks
<1>6. ASSUME NEW x \in DOMAIN left' \cap DOMAIN calls' PROVE CallFits(x)'
    <2>1. x \in DOMAIN calls /\ x \in DOMAIN left' /\ x \in DOMAIN left /\ x \in DOMAIN waited'
        BY <1>1, <1>4, <1>5, <1>6 DEF Tasks
    <2>. QED BY <1>1, <1>4, <2>1 DEF CallFits, ScheduleIInv
<1>7. ASSUME NEW x \in DOMAIN left' \cap DOMAIN mapItems' PROVE ItemFits(x)'
    <2>1. /\ x \in DOMAIN mapItems /\ x \in DOMAIN left' /\ x \in DOMAIN left
          /\ x \in DOMAIN waited'
        BY <1>3, <1>4, <1>5, <1>7 DEF Tasks
    <2>. QED BY <1>1, <1>3, <1>4, <1>7, <2>1 DEF ItemFits, ScheduleIInv, Period, Pending
<1>8. ASSUME NEW x \in DOMAIN left' \cap jobList' PROVE HandedOut(x)'
    BY <1>3, <1>4, <1>8 DEF HandedOut, ScheduleIInv, Period
<1>. QED BY <1>2, <1>5, <1>6, <1>7, <1>8 DEF ScheduleIInv

(* A unit of time passes.  Within a period the clock makes up for it, and  *)
(* at the end of one a tick that is on its way, or one that is dropped.    *)
LEMMA ElapseIInv ==
    ASSUME ScheduleIInv, Elapse
    PROVE  ScheduleIInv'
<1>. IInv /\ Clocks /\ Tasks BY DEF ScheduleIInv
<1>1. /\ clock' = (clock + 1) % Period /\ left' = Later /\ waited' = Longer
      /\ IF clock' = 0 THEN Tick ELSE UNCHANGED <<ticker, missed>>
      /\ UNCHANGED <<vars, offset, received, calls>>
    BY DEF Elapse
<1>2. UNCHANGED <<slots, mapItems, currentSlot, jobList>> BY <1>1 DEF vars
<1>3. Period \in Nat \ {0} /\ clock \in 0 .. Period - 1 BY PeriodNat DEF Clocks
<1>4. clock' = IF clock = Period - 1 THEN 0 ELSE clock + 1 BY <1>1, <1>3, NextUnit
<1>5. IInv' BY <1>2 DEF IInv, TypeOK, Consistent
<1>6. ticker' \in {0, 1} BY <1>1 DEF Tick, TickerSize, Clocks
<1>7. Clocks' BY <1>1, <1>3, <1>4, <1>6 DEF Clocks, Period
<1>8. Linked' = Linked BY <1>2 DEF Linked, Slot
<1>9. DOMAIN missed' = DOMAIN missed /\ \A x \in DOMAIN missed : missed'[x] \in Nat
    <2>1. CASE UNCHANGED missed BY <2>1 DEF Tasks
    <2>2. CASE missed' = Dropped BY <2>2 DEF Dropped, Tasks
    <2>. QED BY <1>1, <2>1, <2>2 DEF Tick
<1>10. /\ DOMAIN left' = DOMAIN left /\ DOMAIN waited' = DOMAIN waited
       /\ \A x \in DOMAIN left : left'[x] = IF x \in jobList THEN left[x] ELSE left[x] - 1
       /\ \A x \in DOMAIN waited :
             waited'[x] = IF x \in DOMAIN calls THEN waited[x] + 1 ELSE waited[x]
    BY <1>1 DEF Later, Longer
<1>11. \A x \in DOMAIN left : left[x] \in Int BY DEF Tasks
<1>12. \A x \in DOMAIN waited : waited[x] \in Nat BY DEF Tasks
<1>13. Tasks'
    <2>1. \A x \in DOMAIN left' : left'[x] \in Int BY <1>10, <1>11
    <2>2. \A x \in DOMAIN waited' : waited'[x] \in Nat BY <1>10, <1>12
    <2>. QED BY <1>1, <1>2, <1>8, <1>9, <1>10, <2>1, <2>2 DEF Tasks
<1>14. ASSUME NEW x \in DOMAIN left' \cap DOMAIN calls' PROVE CallFits(x)'
    <2>1. x \in DOMAIN calls /\ x \in DOMAIN left /\ x \in DOMAIN waited /\ x \notin jobList
        BY <1>1, <1>10, <1>14 DEF Tasks
    <2>2. left'[x] = left[x] - 1 /\ waited'[x] = waited[x] + 1 BY <1>10, <2>1
    <2>3. left[x] \in Int /\ waited[x] \in Nat BY <1>11, <1>12, <2>1
    <2>4. left'[x] + waited'[x] = left[x] + waited[x] BY <2>2, <2>3
    <2>. QED BY <1>1, <2>1, <2>4 DEF CallFits, ScheduleIInv
<1>15. ASSUME NEW x \in DOMAIN left' \cap DOMAIN mapItems' PROVE ItemFits(x)'
    <2>. DEFINE n == Remaining(x) * Period
                k == (missed[x] + Pending) * Period
                q == Pending * Period
    <2>1. x \in DOMAIN left /\ x \in DOMAIN mapItems BY <1>2, <1>10, <1>15
    <2>2. /\ x \notin jobList /\ x \in DOMAIN waited /\ x \in DOMAIN missed
          /\ left[x] \in Int /\ waited[x] \in Nat /\ missed[x] \in Nat /\ Pending \in 0 .. 2
          /\ n \in Nat /\ k \in Nat /\ q \in Nat
          /\ n <= left[x] + waited[x] + clock + k
          /\ left[x] + clock + q < n + 4 * Period
        BY <2>1, ItemNumbers
    <2>3. x \notin DOMAIN calls BY <2>1 DEF Tasks
    <2>4. left'[x] = left[x] - 1 /\ waited'[x] = waited[x] BY <1>10, <2>1, <2>2, <2>3
    <2>5. Remaining(x)' * Period = n BY <1>2 DEF Remaining, Ahead, Circles
    <2>6. Period' = Period BY DEF Period
    <2>. DEFINE kp == (missed'[x] + Pending') * Period
                qp == Pending' * Period
    <2>7. clock # Period - 1 => kp = k /\ qp = q
        BY <1>1, <1>3, <1>4 DEF Pending
    <2>8. clock = Period - 1 => /\ kp \in Nat /\ kp = k + Period
                                /\ qp \in Nat /\ (qp = q + Period \/ qp = q)
        <3>. SUFFICES ASSUME clock = Period - 1
                      PROVE  /\ kp \in Nat /\ kp = k + Period
                             /\ qp \in Nat /\ (qp = q + Period \/ qp = q)
            OBVIOUS
        <3>1. Tick /\ received' = received BY <1>1, <1>4
        <3>2. \/ Pending' = Pending + 1 /\ missed'[x] = missed[x]
              \/ Pending' = Pending /\ missed'[x] = missed[x] + 1
            <4>1. CASE ticker < TickerSize
                BY <3>1, <4>1 DEF Tick, Pending, Clocks
            <4>2. CASE ~(ticker < TickerSize)
                BY <2>1, <2>2, <3>1, <4>2 DEF Tick, Pending, Dropped
            <4>. QED BY <4>1, <4>2
        <3>3. missed'[x] + Pending' = missed[x] + Pending + 1 BY <2>2, <3>2
        <3>4. missed[x] + Pending \in Nat /\ Pending \in Nat BY <2>2
        <3>5. (missed[x] + Pending + 1) * Period = k + Period BY <3>4, PeriodLess
        <3>6. (Pending + 1) * Period = q + Period BY <3>4, PeriodLess
        <3>7. kp = k + Period BY <3>3, <3>5
        <3>8. qp = q + Period \/ qp = q BY <3>2, <3>6
        <3>. HIDE DEF k, q, kp, qp
        <3>. QED BY <1>3, <2>2, <3>7, <3>8
    <2>9. clock' \in 0 .. Period - 1 /\ (clock # Period - 1 => clock' = clock + 1)
          /\ (clock = Period - 1 => clock' = 0)
        BY <1>3, <1>4
    <2>. HIDE DEF n, k, q, kp, qp
    <2>10. n <= left'[x] + waited'[x] + clock' + kp /\ left'[x] + clock' + qp < n + 4 * Period
        <3>1. CASE clock # Period - 1 BY <1>3, <2>2, <2>4, <2>7, <2>9, <3>1
        <3>2. CASE clock = Period - 1 BY <1>3, <2>2, <2>4, <2>8, <2>9, <3>2
        <3>. QED BY <3>1, <3>2
    <2>. QED BY <2>5, <2>6, <2>10 DEF ItemFits, kp, qp
<1>16. ASSUME NEW x \in DOMAIN left' \cap jobList' PROVE HandedOut(x)'
    <2>1. x \in DOMAIN left /\ x \in jobList /\ left'[x] = left[x] BY <1>2, <1>10, <1>16
    <2>. QED BY <2>1 DEF HandedOut, ScheduleIInv, Period
<1>. QED BY <1>5, <1>7, <1>13, <1>14, <1>15, <1>16 DEF ScheduleIInv

(* update() receives a tick, which stays on its way.                       *)
LEMMA ReceiveTickIInv ==
    ASSUME ScheduleIInv, ReceiveTick
    PROVE  ScheduleIInv'
<1>. IInv /\ Clocks /\ Tasks BY DEF ScheduleIInv
<1>1. /\ ticker > 0 /\ received = 0 /\ ticker' = ticker - 1 /\ received' = 1
      /\ UNCHANGED <<slots, mapItems, currentSlot, jobList>>
      /\ UNCHANGED <<clock, offset, calls, left, waited, missed>>
    BY DEF ReceiveTick, vars
<1>2. Pending' = Pending BY <1>1 DEF Pending, Clocks
<1>3. IInv' BY <1>1 DEF IInv, TypeOK, Consistent
<1>4. Clocks' BY <1>1 DEF Clocks, Period
<1>5. Tasks' BY <1>1 DEF Tasks, Linked, Slot
<1>6. \A x \in DOMAIN left' \cap DOMAIN calls' : CallFits(x)' BY <1>1 DEF CallFits, ScheduleIInv
<1>7. ASSUME NEW x \in DOMAIN left' \cap DOMAIN mapItems' PROVE ItemFits(x)'
    <2>1. Remaining(x)' = Remaining(x) BY <1>1 DEF Remaining, Ahead, Circles
    <2>. QED BY <1>1, <1>2, <1>7, <2>1 DEF ItemFits, ScheduleIInv, Period
<1>8. \A x \in DOMAIN left' \cap jobList' : HandedOut(x)'
    BY <1>1 DEF HandedOut, ScheduleIInv, Period
<1>. QED BY <1>3, <1>4, <1>5, <1>6, <1>7, <1>8 DEF ScheduleIInv

(* update() has the lock and handles a tick.                               *)
LEMMA HandleTickIInv ==
    ASSUME ScheduleIInv, HandleTick
    PROVE  ScheduleIInv'
<1>. IInv /\ Clocks /\ Tasks BY DEF ScheduleIInv
<1>. DEFINE gone == Due(slots[currentSlot])
<1>1. /\ received = 1 /\ Trigger /\ received' = 0
      /\ left' = Without(left, jobList)
      /\ waited' = Without(waited, jobList') /\ missed' = Without(missed, jobList')
      /\ UNCHANGED <<clock, offset, ticker, calls>>
    BY DEF HandleTick
<1>2. Period \in Nat \ {0} /\ clock \in 0 .. Period - 1 BY PeriodNat DEF Clocks
<1>3. IInv' BY <1>1, TriggerIInv
<1>4. Clocks' BY <1>1 DEF Clocks, Period
<1>5. /\ DOMAIN mapItems' = DOMAIN mapItems \ gone /\ jobList' = gone
      /\ Linked' = Linked \ gone
    BY <1>1, TriggerLinked DEF Trigger
<1>6. gone = {x \in Linked : Remaining(x) = 0} /\ Linked \subseteq DOMAIN mapItems
    BY DueExact DEF Linked
<1>7. \A x \in Linked \ gone : Remaining(x)' = Remaining(x) - 1
    BY <1>1, TriggerRemaining
<1>. HIDE DEF gone
<1>8. /\ DOMAIN left' = DOMAIN left \ jobList /\ \A x \in DOMAIN left' : left'[x] = left[x]
      /\ DOMAIN waited' = DOMAIN waited \ gone /\ DOMAIN missed' = DOMAIN missed \ gone
      /\ \A x \in DOMAIN waited' : waited'[x] = waited[x] /\ missed'[x] = missed[x]
    BY <1>1, <1>5 DEF Without, Tasks
<1>9. Tasks' BY <1>1, <1>5, <1>6, <1>8 DEF Tasks
<1>10. ASSUME NEW x \in DOMAIN left' \cap DOMAIN calls' PROVE CallFits(x)'
    <2>1. x \in DOMAIN calls /\ x \in DOMAIN left /\ x \in DOMAIN waited'
        BY <1>1, <1>6, <1>8, <1>10 DEF Tasks
    <2>. QED BY <1>1, <1>8, <1>10, <2>1 DEF CallFits, ScheduleIInv
<1>11. Pending' = Pending - 1 /\ Pending \in Nat /\ Pending >= 1 BY <1>1 DEF Pending, Clocks
<1>12. ASSUME NEW x \in DOMAIN left' \cap DOMAIN mapItems' PROVE ItemFits(x)'
    <2>. DEFINE n == Remaining(x)
                k == missed[x] + Pending
                np == n * Period
                kp == k * Period
                qp == Pending * Period
    <2>1. x \in DOMAIN left \cap DOMAIN mapItems /\ x \notin gone BY <1>5, <1>8, <1>12
    <2>2. /\ x \in Linked /\ x \in DOMAIN waited
          /\ left[x] \in Int /\ waited[x] \in Nat /\ missed[x] \in Nat
          /\ n \in Nat /\ np \in Nat /\ kp \in Nat /\ qp \in Nat
          /\ np <= left[x] + waited[x] + clock + kp
          /\ left[x] + clock + qp < np + 4 * Period
        BY <2>1, ItemNumbers
    <2>3. /\ left'[x] = left[x] /\ waited'[x] = waited[x] /\ missed'[x] = missed[x]
          /\ clock' = clock
        BY <1>1, <1>8, <1>12, <2>1, <2>2
    <2>4. Remaining(x)' = n - 1 BY <1>7, <2>1, <2>2
    <2>5. k \in Nat /\ missed'[x] + Pending' = k - 1 BY <1>11, <2>2, <2>3
    <2>. HIDE DEF n, k
    <2>6. (n - 1) * Period = np - Period BY <2>2, PeriodLess
    <2>7. (k - 1) * Period = kp - Period BY <2>5, PeriodLess
    <2>8. (Pending - 1) * Period = qp - Period BY <1>11, PeriodLess
    <2>9. /\ Remaining(x)' * Period = np - Period
          /\ (missed'[x] + Pending') * Period = kp - Period
          /\ Pending' * Period = qp - Period
        BY <1>11, <2>4, <2>5, <2>6, <2>7, <2>8
    <2>. HIDE DEF np, kp, qp
    <2>10. /\ np - Period <= left'[x] + waited'[x] + clock' + (kp - Period)
           /\ left'[x] + clock' + (qp - Period) < np - Period + 4 * Period
        BY <1>2, <2>2, <2>3
    <2>11. Period' = Period BY DEF Period
    <2>. QED BY <2>9, <2>10, <2>11 DEF ItemFits
<1>13. ASSUME NEW x \in DOMAIN left' \cap jobList' PROVE HandedOut(x)'
    <2>1. /\ x \in DOMAIN left \cap DOMAIN mapItems /\ Remaining(x) = 0 /\ left'[x] = left[x]
        BY <1>5, <1>6, <1>8, <1>13
    <2>2. /\ left[x] \in Int /\ Remaining(x) * Period = 0
          /\ left[x] + clock + Pending * Period < Remaining(x) * Period + 4 * Period
        BY <2>1, ItemNumbers, PeriodLess
    <2>3. Pending * Period >= Period /\ Pending * Period \in Nat
        <3>1. Pending = 1 \/ Pending = 2 BY <1>11 DEF Pending, Clocks
        <3>. QED BY <1>2, <3>1
    <2>4. left[x] < 3 * Period
        <3>. DEFINE q == Pending * Period
        <3>1. left[x] + clock + q < 0 + 4 * Period /\ q >= Period /\ q \in Nat BY <2>2, <2>3
        <3>. HIDE DEF q
        <3>. QED BY <1>2, <2>2, <3>1
    <2>5. Period' = Period BY DEF Period
    <2>. QED BY <2>1, <2>4, <2>5 DEF HandedOut
<1>. QED BY <1>3, <1>4, <1>9, <1>10, <1>12, <1>13 DEF ScheduleIInv

(* Every step.                                                             *)
LEMMA ScheduleNextIInv == ScheduleIInv /\ [ScheduleNext]_scheduleVars => ScheduleIInv'
<1>. SUFFICES ASSUME ScheduleIInv, [ScheduleNext]_scheduleVars PROVE ScheduleIInv' OBVIOUS
<1>1. CASE Elapse BY <1>1, ElapseIInv
<1>2. CASE UNCHANGED scheduleVars
    BY <1>2 DEF scheduleVars, times, vars, ScheduleIInv, IInv, TypeOK, Consistent, Clocks, Tasks,
                CallFits, ItemFits, HandedOut, Remaining, Ahead, Circles, Period, Pending,
                Linked, Slot
<1>. QED BY <1>1, <1>2, ToJobIInv, AddTaskIInv, DeleteTaskIInv, ReceiveTickIInv, HandleTickIInv
         DEF ScheduleNext

(* The invariant always holds.                                             *)
LEMMA ScheduleInvariance == Schedule => []ScheduleIInv
BY ScheduleInitIInv, ScheduleNextIInv, PTL DEF Schedule

-----------------------------------------------------------------------------
(* What follows from the invariant. *)

(* A task comes less than three periods of the ticker early, and is        *)
(* overdue by no more than the wait of its call, the ticks that were       *)
(* dropped and those that update() has still to handle account for, for    *)
(* every resolution of the clocks, phase, delay and date that is not over, *)
(* over any number of revolutions (api.go:80-98, manager.go:229-248,       *)
(* timewheel.go:64-155).                                                   *)
THEOREM ComesOnTime == Schedule => []DueOnTime
<1>1. ScheduleIInv => DueOnTime
    <2>. SUFFICES ASSUME ScheduleIInv PROVE DueOnTime OBVIOUS
    <2>1. ASSUME NEW id \in DOMAIN left \cap DOMAIN mapItems
          PROVE  left[id] + waited[id] + (missed[id] + Pending) * Period + clock >= 0
        <3>. DEFINE n == Remaining(id) * Period
                    k == (missed[id] + Pending) * Period
        <3>1. /\ left[id] \in Int /\ waited[id] \in Nat /\ n \in Nat /\ k \in Nat
              /\ n <= left[id] + waited[id] + clock + k
            BY ItemNumbers
        <3>2. clock \in Int BY DEF ScheduleIInv, Clocks
        <3>. HIDE DEF n, k
        <3>3. left[id] + waited[id] + k + clock >= 0 BY <3>1, <3>2
        <3>. QED BY <3>3 DEF k
    <2>. QED BY <2>1 DEF ScheduleIInv, HandedOut, DueOnTime
<1>. QED BY <1>1, ScheduleInvariance, PTL

(* Whatever its clients ask for, negative intervals too, the wheel of the  *)
(* service has its types, and its map agrees with its lists                *)
(* (timewheel.go:75-155).                                                  *)
THEOREM WheelAgrees == Schedule => [](TypeOK /\ Consistent)
<1>1. ScheduleIInv => TypeOK /\ Consistent BY DEF ScheduleIInv, IInv
<1>. QED BY <1>1, ScheduleInvariance, PTL

(* The delays that toJob computes of the arguments, whatever fraction of   *)
(* the present second is gone; it refuses a date that is over.             *)
DelaysOf(args) ==
    IF args.datetime = {} THEN {DefaultedInterval(args)}
    ELSE {Seconds(units) : units \in
            {u \in {(CHOOSE d \in args.datetime : TRUE) * R - broken : broken \in 0 .. R - 1} : u > 0}}

DelaysCovered == \A args \in Args : DelaysOf(args) \subseteq Delays

CallsCovered == \A id \in DOMAIN calls : calls[id] \in Delays

(* A call carries one of those delays.                                     *)
LEMMA NextCallsCovered ==
    ASSUME DelaysCovered, ScheduleIInv, CallsCovered, [ScheduleNext]_scheduleVars
    PROVE  CallsCovered'
<1>. IInv /\ Clocks /\ Tasks BY DEF ScheduleIInv
<1>1. ASSUME NEW id \in ID, NEW args \in Args, ToJob(id, args) PROVE CallsCovered'
    <2>1. Accepted(args) /\ calls' = Put(calls, id, JobInterval(args))
        BY <1>1 DEF ToJob
    <2>2. JobInterval(args) \in DelaysOf(args)
        <3>1. Broken \in 0 .. R - 1 BY BrokenType
        <3>2. CASE args.datetime = {} BY <3>2 DEF JobInterval, DelaysOf
        <3>3. CASE args.datetime # {}
            <4>. DEFINE date == CHOOSE d \in args.datetime : TRUE
            <4>1. JobInterval(args) = Seconds(date * R - Broken) /\ date * R - Broken > 0
                BY <2>1, <3>3 DEF JobInterval, UntilDate, Accepted
            <4>2. DelaysOf(args) = {Seconds(units) : units \in
                                      {u \in {date * R - broken : broken \in 0 .. R - 1} : u > 0}}
                BY <3>3 DEF DelaysOf
            <4>. HIDE DEF date
            <4>. QED BY <3>1, <4>1, <4>2
        <3>. QED BY <3>2, <3>3
    <2>3. JobInterval(args) \in Delays BY <2>2 DEF DelaysCovered
    <2>. QED BY <2>1, <2>3 DEF CallsCovered, Put
<1>2. ASSUME NEW id \in ID, AddTask(id) PROVE CallsCovered'
    BY <1>2 DEF AddTask, Without, CallsCovered
<1>3. ASSUME NEW id \in ID, DeleteTask(id) PROVE CallsCovered'
    BY <1>3 DEF DeleteTask, CallsCovered
<1>4. CASE Elapse \/ ReceiveTick \/ HandleTick
    BY <1>4 DEF Elapse, ReceiveTick, HandleTick, CallsCovered
<1>5. CASE UNCHANGED scheduleVars BY <1>5 DEF scheduleVars, times, CallsCovered
<1>. QED BY <1>1, <1>2, <1>3, <1>4, <1>5 DEF ScheduleNext

(* Tasks are only put into the wheel, deleted from it and handed out by it *)
(* as TimeWheel has it with the delays that toJob computes, negative ones  *)
(* too, so that what is proved of the wheel holds of the service           *)
(* (manager.go:229-249, 427-499).                                          *)
THEOREM WheelInService ==
    ASSUME DelaysCovered
    PROVE  Schedule => Spec
<1>1. ScheduleInit => Init /\ CallsCovered BY DEF ScheduleInit, CallsCovered
<1>2. ScheduleIInv /\ CallsCovered /\ [ScheduleNext]_scheduleVars => CallsCovered'
    BY NextCallsCovered
<1>3. ScheduleIInv /\ CallsCovered /\ [ScheduleNext]_scheduleVars => [Next]_vars
    <2>. SUFFICES ASSUME ScheduleIInv, CallsCovered, [ScheduleNext]_scheduleVars
                  PROVE  [Next]_vars
        OBVIOUS
    <2>1. ASSUME NEW id \in ID, NEW args \in Args, ToJob(id, args) PROVE UNCHANGED vars
        BY <2>1 DEF ToJob
    <2>2. ASSUME NEW id \in ID, AddTask(id) PROVE Next
        <3>1. id \in DOMAIN calls /\ Add(id, calls[id]) BY <2>2 DEF AddTask
        <3>2. calls[id] \in Delays BY <3>1 DEF CallsCovered
        <3>. QED BY <3>1, <3>2 DEF Next
    <2>3. ASSUME NEW id \in ID, DeleteTask(id) PROVE Next BY <2>3 DEF DeleteTask, Next
    <2>4. CASE Elapse \/ ReceiveTick \/ HandleTick
        BY <2>4 DEF Elapse, ReceiveTick, HandleTick, Next
    <2>5. CASE UNCHANGED scheduleVars BY <2>5 DEF scheduleVars
    <2>. QED BY <2>1, <2>2, <2>3, <2>4, <2>5 DEF ScheduleNext
<1>. QED BY <1>1, <1>2, <1>3, ScheduleInvariance, PTL DEF Schedule, Spec

(* To the service too the wheel is a delay queue: a task leaves it once,   *)
(* by the tick that its delay asks for, or, when toJob let a negative      *)
(* interval pass, within a revolution or never (timewheel.go:64-155).      *)
THEOREM QueueInService ==
    ASSUME DelaysCovered
    PROVE  Schedule => ImplementsDelayQueue
BY WheelInService, Implementation
=============================================================================

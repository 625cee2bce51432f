------------------------------ MODULE TimeWheel ------------------------------
(***************************************************************************)
(* node/tw/timewheel.go: a hashed timing wheel.  slots[i] is the list of   *)
(* the TimeItems whose turn comes when the hand stands at i; an item whose *)
(* delay is longer than a revolution also carries the number of            *)
(* revolutions ("circles") that must pass it by.  mapItems finds an item   *)
(* by its id.  The list and the map hold the same TimeItem, so a slot is   *)
(* modelled as the set of the ids it links and the item itself is stored   *)
(* once, in mapItems; the order of a list only orders the ids of one       *)
(* jobList, which no property here tells apart.                            *)
(*                                                                         *)
(* The wheel has no lock of its own: its callers (task.Manager) run every  *)
(* operation under Manager.mu, so each operation is one step.              *)
(***************************************************************************)
EXTENDS Integers

CONSTANTS
    ID,         \* task identifiers
    MaxSlot,    \* tw.maxSlot
    Interval,   \* tw.interval, in seconds
    Delays      \* the Delay() of the items that are added, in seconds

ASSUME MaxSlotAssumption == MaxSlot \in Nat \ {0}
ASSUME IntervalAssumption == Interval \in Nat \ {0}
ASSUME DelaysAssumption == Delays \subseteq Int

VARIABLES
    slots,        \* slot -> ids linked in its list
    mapItems,     \* id -> its TimeItem
    currentSlot,  \* the slot the next Trigger retrieves
    jobList       \* what the last Trigger returned

vars == <<slots, mapItems, currentSlot, jobList>>

Slot == 0 .. MaxSlot - 1

(* Both are int in the code, and below zero for some negative delays. *)
TimeItem == [index : -(MaxSlot - 1) .. MaxSlot - 1, circle : Int]

Init ==
    /\ slots = [i \in Slot |-> {}]
    /\ mapItems = [id \in {} |-> 0]
    /\ currentSlot = 0
    /\ jobList = {}

-----------------------------------------------------------------------------
(* Where an item with a delay of d seconds goes: the delay in steps of the *)
(* hand, counted from where the hand stands.  A delay may be negative, as  *)
(* Job.Interval may: integer division rounds toward zero, and a remainder  *)
(* has the sign of its dividend.                                           *)

Quo(a, m) == IF a >= 0 THEN a \div m ELSE -((-a) \div m)

Rem(a, m) == IF a >= 0 THEN a % m ELSE -((-a) % m)

Steps(d) == Quo(d, Interval)

calcSlotAndCircle(d) ==
    [index |-> Rem(currentSlot + Steps(d), MaxSlot), circle |-> Quo(Steps(d), MaxSlot)]

(* An id is not in the map when it is added: Manager.AddTask, the only     *)
(* caller, draws a new one from the id generator for every task.  The item *)
(* is in the map when an index below zero makes the access to slots panic. *)
Add(id, d) ==
    LET item == calcSlotAndCircle(d) IN
    /\ id \notin DOMAIN mapItems
    /\ mapItems' = [x \in DOMAIN mapItems \cup {id} |->
                       IF x = id THEN item ELSE mapItems[x]]
    /\ slots' = [i \in Slot |-> IF i = item.index THEN slots[i] \cup {id} ELSE slots[i]]
    /\ UNCHANGED <<currentSlot, jobList>>

-----------------------------------------------------------------------------
(* Delete finds the id in the list that its item names.  It does not when  *)
(* it panics, as the item names no list.                                   *)
Found(id) ==
    /\ id \in DOMAIN mapItems
    /\ mapItems[id].index \in Slot
    /\ id \in slots[mapItems[id].index]

DeleteAtHand(id) ==
    /\ mapItems' = [x \in DOMAIN mapItems \ {id} |-> mapItems[x]]
    /\ slots' = [slots EXCEPT ![currentSlot] = @ \ {id}]
    /\ UNCHANGED <<currentSlot, jobList>>

Delete(id) ==
    /\ IF Found(id)
       THEN /\ mapItems' = [x \in DOMAIN mapItems \ {id} |-> mapItems[x]]
            /\ slots' = [slots EXCEPT ![mapItems[id].index] = @ \ {id}]
       ELSE UNCHANGED <<slots, mapItems>>
    /\ UNCHANGED <<currentSlot, jobList>>

-----------------------------------------------------------------------------
(* What Trigger takes out of the list at the hand.  The items it passes by *)
(* lose one circle.                                                        *)

Due(l) == {id \in l : ~(mapItems[id].circle > 0)}

PassedKeepingCircle(item) == item

Passed(item) == [item EXCEPT !.circle = @ - 1]

NextSlotPastTheEnd(i) == IF i = MaxSlot THEN 0 ELSE i + 1

NextSlot(i) == IF i = MaxSlot - 1 THEN 0 ELSE i + 1

Trigger ==
    LET l == slots[currentSlot] IN
    /\ jobList' = Due(l)
    /\ slots' = [slots EXCEPT ![currentSlot] = @ \ Due(l)]
    /\ mapItems' = [id \in DOMAIN mapItems \ Due(l) |->
                       IF id \in l THEN Passed(mapItems[id]) ELSE mapItems[id]]
    /\ currentSlot' = NextSlot(currentSlot)

-----------------------------------------------------------------------------
Next ==
    \/ \E id \in ID, d \in Delays : Add(id, d)
    \/ \E id \in ID : Delete(id)
    \/ Trigger

Spec == Init /\ [][Next]_vars

-----------------------------------------------------------------------------
(* Every variable has its Go type, and no item names a slot that the       *)
(* arithmetic of calcSlotAndCircle cannot produce.                         *)
TypeOK ==
    /\ slots \in [Slot -> SUBSET ID]
    /\ DOMAIN mapItems \subseteq ID
    /\ mapItems \in [DOMAIN mapItems -> TimeItem]
    /\ currentSlot \in Slot
    /\ jobList \subseteq ID

(* The map and the lists describe the same items: an id is linked in       *)
(* exactly the slot its TimeItem names, and in no other; an item that Add  *)
(* panicked over names none and is linked nowhere.  Delete relies on it    *)
(* (it searches one list only), and Check and Get answer from the map what *)
(* Trigger will do from the lists.                                         *)
Consistent ==
    \A i \in Slot, id \in ID :
        id \in slots[i] <=> id \in DOMAIN mapItems /\ mapItems[id].index = i

(* The items that have a slot. *)
Linked == {id \in DOMAIN mapItems : mapItems[id].index \in Slot}

(* The ticks that still pass an item by, read off the wheel: whole         *)
(* revolutions, and the distance from the hand to the item's slot.         *)
Ahead(i) == IF i >= currentSlot THEN i - currentSlot ELSE i + MaxSlot - currentSlot

Circles(item) == IF item.circle > 0 THEN item.circle ELSE 0

Remaining(id) == Circles(mapItems[id]) * MaxSlot + Ahead(mapItems[id].index)

(* The ticks that pass by an item added with d seconds, if it gets a slot: *)
(* the steps of its delay, or as far as a negative delay leads the hand in *)
(* the other direction, which is what is left of a revolution.             *)
TicksOf(d) == IF d >= 0 THEN Steps(d) ELSE Steps(d) % MaxSlot

Queue == INSTANCE DelayQueue WITH
            Ticks <- {TicksOf(d) : d \in Delays},
            remaining <- [id \in Linked |-> Remaining(id)],
            fired <- jobList

(* The delay is the one that was asked for: an item added with d seconds,  *)
(* d from zero up, enters the queue with d \div Interval ticks to pass it  *)
(* by, and so is returned by exactly the (d \div Interval + 1)-th Trigger  *)
(* after its Add.  A negative delay makes the item come almost a           *)
(* revolution late, or never.                                              *)
DelayKept ==
    [][\A id \in ID, d \in Delays :
          Add(id, d) => IF calcSlotAndCircle(d).index >= 0
                        THEN Queue!Add(id, TicksOf(d))
                        ELSE UNCHANGED Queue!vars]_vars

(* The wheel is a delay queue: Add, Delete and Trigger are its additions,  *)
(* cancellations and ticks (timewheel.go:64-155), whatever happened to     *)
(* other items and however often the hand went round meanwhile, and what   *)
(* is added enters the queue with the delay that was asked for.            *)
ImplementsDelayQueue == Queue!Spec /\ DelayKept
=============================================================================

--------------------------- MODULE TimeWheelProofs ---------------------------
(***************************************************************************)
(* Proofs about TimeWheel, for every number of slots, interval, set of ids *)
(* and set of delays, negative ones among them: its types, the agreement   *)
(* of the map with the lists, and that it implements DelayQueue.           *)
(***************************************************************************)
EXTENDS TimeWheel, TLAPS

-----------------------------------------------------------------------------
(* Arithmetic of the wheel. *)

(* What \div and % give for a natural number and a positive divisor.       *)
LEMMA DivMod ==
    ASSUME NEW a \in Nat, NEW m \in Nat \ {0}
    PROVE  /\ a \div m \in Nat
           /\ a % m \in 0 .. m - 1
           /\ a = (a \div m) * m + (a % m)
  OBVIOUS

(* A number below the divisor is the remainder it leaves.                  *)
LEMMA ModUnique ==
    ASSUME NEW m \in Nat \ {0}, NEW q \in Int, NEW r \in 0 .. m - 1
    PROVE  (q * m + r) % m = r
  OBVIOUS

(* calcSlotAndCircle loses nothing: n steps from the hand are n \div m     *)
(* revolutions and the distance from the hand to the slot it computes,     *)
(* going round when the slot is behind the hand.                           *)
LEMMA PlacementExact ==
    ASSUME NEW m \in Nat \ {0}, NEW n \in Nat, NEW cur \in 0 .. m - 1
    PROVE  LET k == (cur + n) % m IN
           /\ k \in 0 .. m - 1
           /\ (n \div m) * m + (IF k >= cur THEN k - cur ELSE k + m - cur) = n
<1> DEFINE q == n \div m
           r == n % m
<1>1. q \in Nat /\ r \in 0 .. m - 1 /\ n = q * m + r
  BY DivMod
<1>2. q * m \in Nat /\ (q + 1) * m = q * m + m
  BY <1>1
<1> HIDE DEF q, r
<1>3. CASE cur + r < m
  <2>1. cur + n = q * m + (cur + r) /\ cur + r \in 0 .. m - 1
    BY <1>1, <1>2, <1>3
  <2>2. (cur + n) % m = cur + r
    BY <2>1, <1>1, ModUnique
  <2> QED
    BY <2>2, <1>1, <1>2, <1>3 DEF q
<1>4. CASE cur + r >= m
  <2>1. cur + n = (q + 1) * m + (cur + r - m) /\ cur + r - m \in 0 .. m - 1
    BY <1>1, <1>2, <1>4
  <2>2. (cur + n) % m = cur + r - m
    <3> DEFINE p == q + 1
               s == cur + r - m
    <3>1. p \in Int /\ s \in 0 .. m - 1 /\ cur + n = p * m + s
      BY <2>1, <1>1
    <3> HIDE DEF p, s
    <3>2. (cur + n) % m = s
      BY <3>1, ModUnique
    <3> QED
      BY <3>2 DEF s
  <2> QED
    BY <2>2, <1>1, <1>2, <1>4 DEF q
<1> QED
  BY <1>1, <1>3, <1>4

-----------------------------------------------------------------------------
(* Go's division. *)

(* The quotient has the sign of the dividend, and so has the remainder,    *)
(* which is smaller than the divisor.                                      *)
LEMMA QuoRem ==
    ASSUME NEW a \in Int, NEW m \in Nat \ {0}
    PROVE  /\ Quo(a, m) \in Int /\ Rem(a, m) \in -(m - 1) .. m - 1
           /\ a >= 0 => /\ Quo(a, m) = a \div m /\ Quo(a, m) \in Nat
                        /\ Rem(a, m) = a % m /\ Rem(a, m) \in 0 .. m - 1
           /\ a < 0 => Quo(a, m) <= 0 /\ Rem(a, m) <= 0
<1>1. CASE a >= 0
  <2>1. a \in Nat
    BY <1>1
  <2>2. a \div m \in Nat /\ a % m \in 0 .. m - 1
    BY <2>1, DivMod
  <2>3. Quo(a, m) = a \div m /\ Rem(a, m) = a % m
    BY <1>1 DEF Quo, Rem
  <2> QED
    BY <1>1, <2>2, <2>3
<1>2. CASE a < 0
  <2>1. -a \in Nat
    BY <1>2
  <2>2. (-a) \div m \in Nat /\ (-a) % m \in 0 .. m - 1
    BY <2>1, DivMod
  <2>3. Quo(a, m) = -((-a) \div m) /\ Rem(a, m) = -((-a) % m)
    BY <1>2 DEF Quo, Rem
  <2> QED
    BY <1>2, <2>2, <2>3
<1> QED
  BY <1>1, <1>2

(* A remainder of zero loses nothing.                                      *)
LEMMA RemZero ==
    ASSUME NEW a \in Int, NEW m \in Nat \ {0}, a < 0, Rem(a, m) = 0
    PROVE  \E q \in Nat : a = -(q * m)
<1>1. -a \in Nat
  OBVIOUS
<1>2. (-a) % m = 0
  <2>1. Rem(a, m) = -((-a) % m)
    BY DEF Rem
  <2>2. (-a) % m \in 0 .. m - 1
    BY <1>1, DivMod
  <2> QED
    BY <2>1, <2>2
<1>3. (-a) \div m \in Nat /\ -a = ((-a) \div m) * m + ((-a) % m)
  BY <1>1, DivMod
<1> DEFINE q == (-a) \div m
<1>4. q \in Nat /\ -a = q * m + 0
  BY <1>2, <1>3
<1> HIDE DEF q
<1>5. a = -(q * m)
  BY <1>4
<1> QED
  BY <1>4, <1>5

(* An item that a negative delay of n steps gets a slot for is as far      *)
(* ahead of the hand as n leads it back from where it stands.              *)
LEMMA PlacementBehind ==
    ASSUME NEW m \in Nat \ {0}, NEW n \in Int, n < 0, NEW cur \in 0 .. m - 1,
           Rem(cur + n, m) >= 0
    PROVE  LET k == Rem(cur + n, m) IN (IF k >= cur THEN k - cur ELSE k + m - cur) = n % m
<1> DEFINE k == Rem(cur + n, m)
<1>1. CASE cur + n >= 0
  <2>1. cur + n \in 0 .. m - 1
    BY <1>1
  <2>2. (0 * m + (cur + n)) % m = cur + n
    BY <2>1, ModUnique
  <2>3. k = cur + n
    BY <1>1, <2>1, <2>2, QuoRem
  <2>4. n + m \in 0 .. m - 1
    BY <1>1
  <2>5. ((-1) * m + (n + m)) % m = n + m
    BY <2>4, ModUnique
  <2>6. (-1) * m + (n + m) = n
    OBVIOUS
  <2> HIDE DEF k
  <2>7. ~(k >= cur) /\ k + m - cur = n + m
    BY <2>3
  <2> QED
    BY <2>5, <2>6, <2>7 DEF k
<1>2. CASE cur + n < 0
  <2>1. k = 0
    BY <1>2, QuoRem
  <2>2. PICK q \in Nat : cur + n = -(q * m)
    BY <1>2, <2>1, RemZero
  <2>3. CASE cur = 0
    <3>1. n = (-q) * m + 0
      BY <2>2, <2>3
    <3>2. ((-q) * m + 0) % m = 0
      BY ModUnique
    <3>3. n % m = 0
      BY <3>1, <3>2
    <3> QED
      BY <2>1, <2>3, <3>3
  <2>4. CASE cur # 0
    <3>1. m - cur \in 0 .. m - 1 /\ -q - 1 \in Int
      BY <2>4
    <3>2. (-q - 1) * m = -(q * m) - m
      OBVIOUS
    <3>3. n = (-q - 1) * m + (m - cur)
      BY <2>2, <3>2
    <3>4. ((-q - 1) * m + (m - cur)) % m = m - cur
      BY <3>1, ModUnique
    <3>5. n % m = m - cur
      BY <3>3, <3>4
    <3> QED
      BY <2>1, <2>4, <3>5
  <2> QED
    BY <2>3, <2>4
<1> QED
  BY <1>1, <1>2

-----------------------------------------------------------------------------
(* The item Add builds. *)

(* A delay is a number of steps of the hand, with its sign.                *)
LEMMA StepsInt ==
    ASSUME NEW d \in Int
    PROVE  /\ Steps(d) \in Int
           /\ d >= 0 => Steps(d) \in Nat /\ Steps(d) = d \div Interval
           /\ d < 0 => Steps(d) <= 0
  BY IntervalAssumption, QuoRem DEF Steps

(* As many ticks as a natural number counts, for every delay.              *)
LEMMA TicksNat == ASSUME NEW d \in Int PROVE TicksOf(d) \in Nat
<1>1. Steps(d) \in Int /\ (d >= 0 => Steps(d) \in Nat)
  BY StepsInt
<1> DEFINE n == Steps(d)
<1> HIDE DEF n
<1>2. n \in Int => n % MaxSlot \in Nat
  BY MaxSlotAssumption
<1> QED
  BY <1>1, <1>2 DEF TicksOf, n

(* The item Add builds is well typed, it has a slot unless its index is    *)
(* below zero, and then as many ticks pass it by as its delay asks for     *)
(* (calcSlotAndCircle).                                                    *)
LEMMA ItemPlacement ==
    ASSUME NEW d \in Int, currentSlot \in Slot
    PROVE  LET item == calcSlotAndCircle(d) IN
           /\ item \in TimeItem
           /\ item.index \in Slot <=> item.index >= 0
           /\ d >= 0 => item.index \in Slot
           /\ item.index \in Slot =>
                 Circles(item) * MaxSlot + Ahead(item.index) = TicksOf(d)
<1> DEFINE n == Steps(d)
           m == MaxSlot
           k == Rem(currentSlot + n, m)
           c == Quo(n, m)
<1>1. /\ n \in Int /\ m \in Nat \ {0} /\ currentSlot \in 0 .. m - 1
      /\ d >= 0 => n \in Nat
      /\ d < 0 => n <= 0
  BY StepsInt, MaxSlotAssumption DEF Slot
<1>2. TicksOf(d) = IF d >= 0 THEN n ELSE n % m
  BY DEF TicksOf
<1>3. calcSlotAndCircle(d) = [index |-> k, circle |-> c]
  BY DEF calcSlotAndCircle
<1> HIDE DEF n, m
<1>4. k \in -(m - 1) .. m - 1 /\ c \in Int
  <2>1. currentSlot + n \in Int
    BY <1>1
  <2> QED
    BY <1>1, <2>1, QuoRem
<1>5. ASSUME n >= 0
      PROVE  /\ k \in 0 .. m - 1 /\ c \in Nat
             /\ c * m + (IF k >= currentSlot THEN k - currentSlot ELSE k + m - currentSlot) = n
  <2>1. n \in Nat
    BY <1>1, <1>5
  <2>2. c = n \div m /\ c \in Nat
    <3>1. n \in Int /\ n >= 0 /\ m \in Nat \ {0}
      BY <1>1, <2>1
    <3>2. Quo(n, m) = n \div m
      BY <3>1 DEF Quo
    <3>3. n \div m \in Nat
      BY <2>1, <3>1, DivMod
    <3> QED
      BY <3>2, <3>3
  <2>3. k = (currentSlot + n) % m
    <3> DEFINE e == currentSlot + n
    <3>1. e \in Int /\ e >= 0
      BY <1>1, <2>1
    <3> HIDE DEF e
    <3>2. Rem(e, m) = e % m
      BY <1>1, <3>1, QuoRem
    <3> QED
      BY <3>2 DEF e
  <2> DEFINE f == (currentSlot + n) % m
  <2>4. /\ f \in 0 .. m - 1
        /\ (n \div m) * m + (IF f >= currentSlot THEN f - currentSlot ELSE f + m - currentSlot) = n
    BY <1>1, <2>1, PlacementExact
  <2>5. k = f
    BY <2>3
  <2> HIDE DEF f, k, c
  <2> QED
    BY <2>2, <2>4, <2>5
<1>6. ASSUME n < 0, k >= 0
      PROVE  /\ c <= 0
             /\ (IF k >= currentSlot THEN k - currentSlot ELSE k + m - currentSlot) = n % m
  BY <1>1, <1>6, QuoRem, PlacementBehind
<1>7. n = 0 => n % m = 0
  <2>1. (0 * m + 0) % m = 0
    BY <1>1, ModUnique
  <2> QED
    BY <1>1, <2>1
<1> DEFINE item == [index |-> k, circle |-> c]
           away == IF k >= currentSlot THEN k - currentSlot ELSE k + m - currentSlot
<1>8. item.index = k /\ item.circle = c
  OBVIOUS
<1>9. item \in TimeItem /\ (k \in Slot <=> k >= 0) /\ Ahead(k) = away
  BY <1>1, <1>4 DEF TimeItem, Slot, Ahead, m
<1>10. d >= 0 => k \in Slot
  BY <1>1, <1>5, <1>9
<1>11. Circles(item) = IF c > 0 THEN c ELSE 0
  BY <1>8 DEF Circles
<1> HIDE DEF k, c, item
<1>12. ASSUME k >= 0
       PROVE  (IF c > 0 THEN c ELSE 0) * m + away = TicksOf(d)
  <2> HIDE DEF away
  <2>1. CASE n >= 0
    <3>1. (IF c > 0 THEN c ELSE 0) = c
      BY <1>5, <2>1
    <3>2. TicksOf(d) = n
      BY <1>1, <1>2, <1>7, <2>1
    <3> QED
      BY <1>5, <2>1, <3>1, <3>2 DEF away
  <2>2. CASE n < 0
    <3>1. (IF c > 0 THEN c ELSE 0) = 0
      BY <1>4, <1>6, <1>12, <2>2
    <3>2. TicksOf(d) = n % m
      BY <1>1, <1>2, <2>2
    <3>3. away = n % m /\ n % m \in Int /\ 0 * m = 0
      BY <1>1, <1>6, <1>12, <2>2 DEF away
    <3> QED
      BY <3>1, <3>2, <3>3
  <2> QED
    BY <1>1, <2>1, <2>2
<1>13. k \in Slot => Circles(item) * MaxSlot + Ahead(k) = TicksOf(d)
  BY <1>9, <1>11, <1>12 DEF m
<1> QED
  BY <1>3, <1>8, <1>9, <1>10, <1>13 DEF item

-----------------------------------------------------------------------------
(* The types of the wheel and the agreement of its two structures hold in  *)
(* every state.  Each needs the other: an item Delete or Trigger drops     *)
(* must be in the map.                                                     *)
IInv == TypeOK /\ Consistent

(* NewTimeWheel returns a wheel with the invariant.                        *)
LEMMA InitIInv == Init => IInv
  BY MaxSlotAssumption DEF Init, IInv, TypeOK, Consistent, Slot

(* Add keeps the invariant: it links the item in the slot the item names,  *)
(* if there is one.                                                        *)
LEMMA AddIInv ==
    ASSUME IInv, NEW id \in ID, NEW d \in Int, Add(id, d)
    PROVE  IInv'
<1> DEFINE item == calcSlotAndCircle(d)
<1>1. item \in TimeItem
  BY ItemPlacement DEF IInv, TypeOK
<1> HIDE DEF item
<1>2. TypeOK'
  BY <1>1 DEF IInv, TypeOK, Add, TimeItem, item
<1>3. Consistent'
  BY <1>1 DEF IInv, TypeOK, Consistent, Add, TimeItem, item
<1> QED
  BY <1>2, <1>3 DEF IInv

(* Delete keeps the invariant: it takes the item out of both structures.   *)
LEMMA DeleteIInv ==
    ASSUME IInv, NEW id \in ID, Delete(id)
    PROVE  IInv'
<1>1. TypeOK'
  BY DEF IInv, TypeOK, Delete, Found, TimeItem
<1>2. Consistent'
  BY DEF IInv, TypeOK, Consistent, Delete, Found, TimeItem
<1> QED
  BY <1>1, <1>2 DEF IInv

(* Trigger keeps the invariant: what retrieve unlinks it also forgets.     *)
LEMMA TriggerIInv ==
    ASSUME IInv, Trigger
    PROVE  IInv'
<1> DEFINE l == slots[currentSlot]
<1>1. /\ l \subseteq DOMAIN mapItems
      /\ \A id \in l : /\ mapItems[id] \in TimeItem
                       /\ mapItems[id].index = currentSlot
  BY DEF IInv, TypeOK, Consistent
<1>2. Due(l) \subseteq l
  BY DEF Due
<1>3. \A id \in l \ Due(l) : /\ Passed(mapItems[id]) \in TimeItem
                             /\ Passed(mapItems[id]).index = currentSlot
  BY <1>1, <1>2 DEF Passed, TimeItem
<1>4. TypeOK'
  <2>1. currentSlot' \in Slot
    BY MaxSlotAssumption DEF IInv, TypeOK, Trigger, NextSlot, Slot
  <2>2. DOMAIN mapItems' \subseteq ID /\ mapItems' \in [DOMAIN mapItems' -> TimeItem]
    BY <1>3 DEF IInv, TypeOK, Trigger
  <2>3. slots' \in [Slot -> SUBSET ID] /\ jobList' \subseteq ID
    BY <1>2 DEF IInv, TypeOK, Trigger
  <2> QED
    BY <2>1, <2>2, <2>3 DEF TypeOK
<1>5. Consistent'
  BY <1>1, <1>2, <1>3 DEF IInv, TypeOK, Consistent, Trigger
<1> QED
  BY <1>4, <1>5 DEF IInv

(* Every step of the wheel keeps the invariant.                            *)
LEMMA NextIInv == IInv /\ [Next]_vars => IInv'
<1> SUFFICES ASSUME IInv, [Next]_vars
             PROVE  IInv'
  OBVIOUS
<1>1. ASSUME NEW id \in ID, NEW d \in Delays, Add(id, d)
      PROVE  IInv'
  BY <1>1, AddIInv, DelaysAssumption
<1>2. ASSUME NEW id \in ID, Delete(id)
      PROVE  IInv'
  BY <1>2, DeleteIInv
<1>3. CASE Trigger
  BY <1>3, TriggerIInv
<1>4. CASE UNCHANGED vars
  BY <1>4 DEF vars, IInv, TypeOK, Consistent
<1> QED
  BY <1>1, <1>2, <1>3, <1>4 DEF Next

(* The invariant holds in every reachable state.                           *)
LEMMA SpecIInv == Spec => []IInv
  BY InitIInv, NextIInv, PTL DEF Spec

(* The wheel is well typed, whatever the delays: no item names a slot at   *)
(* or beyond MaxSlot, and the hand stays in the wheel (timewheel.go:64-    *)
(* 155).                                                                   *)
THEOREM TypeCorrect == Spec => []TypeOK
<1>1. IInv => TypeOK
  BY DEF IInv
<1> QED
  BY <1>1, SpecIInv, PTL

(* The map and the lists of the wheel agree in every state, also after Add *)
(* has panicked over a negative delay (timewheel.go:75-155).               *)
THEOREM AlwaysConsistent == Spec => []Consistent
<1>1. IInv => Consistent
  BY DEF IInv
<1> QED
  BY <1>1, SpecIInv, PTL

-----------------------------------------------------------------------------
(* Implementation of DelayQueue. *)

(* What the wheel says of an item with a slot.                             *)
LEMMA LinkedItem ==
    ASSUME IInv, NEW id \in Linked
    PROVE  /\ id \in ID /\ id \in DOMAIN mapItems /\ currentSlot \in Slot
           /\ mapItems[id].index \in Slot /\ mapItems[id].circle \in Int
           /\ Circles(mapItems[id]) \in Nat
           /\ Ahead(mapItems[id].index) \in Nat
           /\ Ahead(mapItems[id].index) = 0 <=> mapItems[id].index = currentSlot
           /\ id \in slots[currentSlot] <=> mapItems[id].index = currentSlot
<1> DEFINE i == mapItems[id].index
<1>1. /\ id \in ID /\ id \in DOMAIN mapItems /\ currentSlot \in Slot
      /\ i \in Slot /\ mapItems[id].circle \in Int
  BY DEF IInv, TypeOK, TimeItem, Linked
<1>2. Circles(mapItems[id]) \in Nat
  BY <1>1 DEF Circles
<1>3. id \in slots[currentSlot] <=> i = currentSlot
  BY <1>1 DEF IInv, Consistent
<1> HIDE DEF i
<1>4. Ahead(i) \in Nat /\ (Ahead(i) = 0 <=> i = currentSlot)
  BY <1>1, MaxSlotAssumption DEF Slot, Ahead
<1> QED
  BY <1>1, <1>2, <1>3, <1>4 DEF i

(* An item is due on the wheel when no tick remains for it, and only then. *)
LEMMA DueExact ==
    ASSUME IInv
    PROVE  Due(slots[currentSlot]) = {id \in Linked : Remaining(id) = 0}
<1>1. ASSUME NEW id \in Linked
      PROVE  Remaining(id) = 0 <=> id \in Due(slots[currentSlot])
  <2> DEFINE c == Circles(mapItems[id])
             i == mapItems[id].index
  <2>1. c \in Nat /\ Ahead(i) \in Nat /\ (Ahead(i) = 0 <=> i = currentSlot)
    BY LinkedItem
  <2>2. c = 0 <=> ~(mapItems[id].circle > 0)
    BY LinkedItem DEF Circles
  <2>3. id \in slots[currentSlot] <=> i = currentSlot
    BY LinkedItem
  <2>4. Remaining(id) = 0 <=> c = 0 /\ i = currentSlot
    <3>1. Remaining(id) = c * MaxSlot + Ahead(i)
      BY DEF Remaining
    <3> HIDE DEF c, i
    <3>2. c * MaxSlot \in Nat /\ (c * MaxSlot = 0 <=> c = 0)
      BY <2>1, MaxSlotAssumption
    <3> QED
      BY <2>1, <3>1, <3>2
  <2> QED
    BY <2>2, <2>3, <2>4 DEF Due
<1>2. slots[currentSlot] \subseteq Linked
  BY DEF IInv, TypeOK, Consistent, Linked
<1> QED
  BY <1>1, <1>2 DEF Due

(* The items with a slot after a Trigger are those that it left.           *)
LEMMA TriggerLinked ==
    ASSUME IInv, Trigger
    PROVE  Linked' = Linked \ Due(slots[currentSlot])
<1> DEFINE gone == Due(slots[currentSlot])
<1>1. \A id \in DOMAIN mapItems \ gone : mapItems'[id].index = mapItems[id].index
  <2>1. \A id \in DOMAIN mapItems : mapItems[id] \in TimeItem
    BY DEF IInv, TypeOK
  <2> QED
    BY <2>1 DEF Trigger, Passed, TimeItem
<1>2. DOMAIN mapItems' = DOMAIN mapItems \ gone
  BY DEF Trigger
<1>3. Slot' = Slot
  BY DEF Slot
<1> QED
  BY <1>1, <1>2, <1>3 DEF Linked

(* A Trigger brings every item that stays one tick closer: the hand takes  *)
(* one step towards its slot, or passes the slot and uses up a circle.     *)
LEMMA TriggerRemaining ==
    ASSUME IInv, Trigger, NEW id \in Linked, id \notin Due(slots[currentSlot])
    PROVE  Remaining(id)' = Remaining(id) - 1
<1>0. PICK i \in Slot, z \in Int : mapItems[id].index = i /\ mapItems[id].circle = z
  BY LinkedItem
<1>1. /\ id \in ID /\ id \in DOMAIN mapItems /\ mapItems[id] \in TimeItem
      /\ currentSlot \in Slot
  BY LinkedItem DEF IInv, TypeOK
<1>2. currentSlot' = IF currentSlot = MaxSlot - 1 THEN 0 ELSE currentSlot + 1
  BY DEF Trigger, NextSlot
<1>3. id \in slots[currentSlot] <=> i = currentSlot
  BY <1>0, LinkedItem
<1> DEFINE c == IF z > 0 THEN z ELSE 0
<1>4. c \in Nat /\ Circles(mapItems[id]) = c
  BY <1>0 DEF Circles
<1>5. CASE i = currentSlot
  <2>1. z > 0
    BY <1>0, <1>1, <1>3, <1>5 DEF Due
  <2>2. mapItems'[id].circle = z - 1 /\ mapItems'[id].index = i
    BY <1>0, <1>1, <1>3, <1>5 DEF Trigger, Passed, TimeItem
  <2>3. Circles(mapItems'[id]) = z - 1
    BY <2>1, <2>2 DEF Circles
  <2>4. Ahead(i)' = MaxSlot - 1 /\ Ahead(i) = 0
    BY <1>0, <1>1, <1>2, <1>5, MaxSlotAssumption DEF Ahead, Slot
  <2>5. (z - 1) * MaxSlot + (MaxSlot - 1) = z * MaxSlot - 1
    BY <1>0, <2>1, MaxSlotAssumption
  <2>6. Remaining(id)' = (z - 1) * MaxSlot + (MaxSlot - 1)
    BY <2>2, <2>3, <2>4 DEF Remaining, Ahead, Circles
  <2>7. Remaining(id) = z * MaxSlot
    BY <1>0, <1>4, <2>1, <2>4, MaxSlotAssumption DEF Remaining
  <2> QED
    BY <2>5, <2>6, <2>7
<1>6. CASE i # currentSlot
  <2>1. mapItems'[id] = mapItems[id]
    BY <1>0, <1>1, <1>3, <1>6 DEF Trigger
  <2>2. Ahead(i)' = Ahead(i) - 1 /\ Ahead(i) \in Nat
    BY <1>0, <1>1, <1>2, <1>6, MaxSlotAssumption DEF Ahead, Slot
  <2> HIDE DEF c
  <2>3. Remaining(id)' = c * MaxSlot + Ahead(i)'
    BY <1>0, <1>4, <2>1 DEF Remaining, Ahead, Circles
  <2>4. c * MaxSlot \in Nat /\ Remaining(id) = c * MaxSlot + Ahead(i)
    BY <1>0, <1>4, MaxSlotAssumption DEF Remaining
  <2> QED
    BY <2>2, <2>3, <2>4
<1> QED
  BY <1>5, <1>6

(* An empty wheel is an empty delay queue.                                 *)
LEMMA InitRefines == Init => Queue!Init
  BY DEF Init, Linked, Queue!Init

(* An item that gets a slot has as many ticks to pass it by as its delay   *)
(* asks for, one that gets none is not in the queue, and the ticks that    *)
(* remain for the others are left alone.                                   *)
LEMMA AddRemaining ==
    ASSUME IInv, NEW id \in ID, NEW d \in Int, Add(id, d)
    PROVE  /\ id \notin DOMAIN mapItems /\ DOMAIN mapItems' = DOMAIN mapItems \cup {id}
           /\ Linked' = IF calcSlotAndCircle(d).index >= 0 THEN Linked \cup {id} ELSE Linked
           /\ calcSlotAndCircle(d).index >= 0 => Remaining(id)' = TicksOf(d)
           /\ \A x \in DOMAIN mapItems : Remaining(x)' = Remaining(x)
           /\ UNCHANGED <<currentSlot, jobList>>
<1> DEFINE item == calcSlotAndCircle(d)
<1>1. /\ item.index \in Slot <=> item.index >= 0
      /\ item.index \in Slot => Circles(item) * MaxSlot + Ahead(item.index) = TicksOf(d)
  BY ItemPlacement DEF IInv, TypeOK
<1> HIDE DEF item
<1>2. /\ id \notin DOMAIN mapItems
      /\ mapItems' = [x \in DOMAIN mapItems \cup {id} |->
                         IF x = id THEN item ELSE mapItems[x]]
      /\ UNCHANGED <<currentSlot, jobList>>
  BY DEF Add, item
<1>3. \A x \in DOMAIN mapItems : Remaining(x)' = Remaining(x)
  BY <1>2 DEF Remaining, Ahead, Circles
<1>4. item.index >= 0 => Remaining(id)' = TicksOf(d)
  BY <1>1, <1>2 DEF Remaining, Ahead, Circles
<1>5. Linked' = IF item.index >= 0 THEN Linked \cup {id} ELSE Linked
  BY <1>1, <1>2 DEF Linked, Slot
<1> QED
  BY <1>2, <1>3, <1>4, <1>5 DEF item

(* Add is the addition of an entry with the delay counted in steps, or,    *)
(* when it panics, nothing.                                                *)
LEMMA AddRefines ==
    ASSUME IInv, NEW id \in ID, NEW d \in Int, Add(id, d)
    PROVE  IF calcSlotAndCircle(d).index >= 0
           THEN Queue!Add(id, TicksOf(d))
           ELSE UNCHANGED Queue!vars
<1>1. Linked \subseteq DOMAIN mapItems
  BY DEF Linked
<1>2. CASE calcSlotAndCircle(d).index >= 0
  BY <1>1, <1>2, AddRemaining DEF Queue!Add, Queue!Pending
<1>3. CASE ~(calcSlotAndCircle(d).index >= 0)
  BY <1>1, <1>3, AddRemaining DEF Queue!vars
<1> QED
  BY <1>2, <1>3

(* Delete takes an item that has a slot out and leaves the others alone;   *)
(* it does nothing to an id that has none.                                 *)
LEMMA DeleteRemaining ==
    ASSUME IInv, NEW id \in ID, Delete(id)
    PROVE  /\ DOMAIN mapItems' = IF id \in Linked THEN DOMAIN mapItems \ {id} ELSE DOMAIN mapItems
           /\ Linked' = Linked \ {id}
           /\ \A x \in DOMAIN mapItems' : Remaining(x)' = Remaining(x)
           /\ UNCHANGED <<currentSlot, jobList>>
<1>1. Found(id) <=> id \in Linked
  BY DEF IInv, TypeOK, Consistent, Found, Linked
<1>2. /\ mapItems' = IF id \in Linked THEN [x \in DOMAIN mapItems \ {id} |-> mapItems[x]]
                                      ELSE mapItems
      /\ UNCHANGED <<currentSlot, jobList>>
  BY <1>1 DEF Delete
<1>3. \A x \in DOMAIN mapItems' : mapItems'[x] = mapItems[x]
  BY <1>2
<1>4. \A x \in DOMAIN mapItems' : Remaining(x)' = Remaining(x)
  BY <1>2, <1>3 DEF Remaining, Ahead, Circles
<1>5. Linked' = Linked \ {id}
  BY <1>2, <1>3 DEF Linked, Slot
<1> QED
  BY <1>2, <1>4, <1>5

(* Delete is a cancellation, or nothing when the id has no slot.           *)
LEMMA DeleteRefines ==
    ASSUME IInv, NEW id \in ID, Delete(id)
    PROVE  Queue!Cancel(id) \/ UNCHANGED Queue!vars
<1>0. Linked \subseteq DOMAIN mapItems
  BY DEF Linked
<1>1. CASE id \in Linked
  <2>1. Linked' = Linked \ {id} /\ Linked' \subseteq DOMAIN mapItems'
    BY <1>0, <1>1, DeleteRemaining
  <2> QED
    BY <1>1, <2>1, DeleteRemaining DEF Queue!Cancel, Queue!Pending
<1>2. CASE id \notin Linked
  <2>1. Linked' = Linked /\ Linked' \subseteq DOMAIN mapItems'
    BY <1>0, <1>2, DeleteRemaining
  <2> QED
    BY <2>1, DeleteRemaining DEF Queue!vars
<1> QED
  BY <1>1, <1>2

(* Trigger is a tick of the delay queue.                                   *)
LEMMA TriggerRefines ==
    ASSUME IInv, Trigger
    PROVE  Queue!Tick
<1> DEFINE gone == Due(slots[currentSlot])
<1>1. Queue!Due = gone
  BY DueExact DEF Queue!Due, Queue!Pending
<1>2. Linked' = Linked \ gone /\ jobList' = gone
  BY TriggerLinked DEF Trigger
<1>3. \A x \in Linked \ gone : Remaining(x)' = Remaining(x) - 1
  BY TriggerRemaining
<1> QED
  BY <1>1, <1>2, <1>3 DEF Queue!Tick, Queue!Elapsed, Queue!Pending

(* Every step of the wheel is a step of the delay queue or a stutter.      *)
LEMMA NextRefines == IInv /\ [Next]_vars => [Queue!Next]_(Queue!vars)
<1> SUFFICES ASSUME IInv, [Next]_vars
             PROVE  Queue!Next \/ UNCHANGED Queue!vars
  OBVIOUS
<1>1. ASSUME NEW id \in ID, NEW d \in Delays, Add(id, d)
      PROVE  Queue!Next \/ UNCHANGED Queue!vars
  BY <1>1, AddRefines, DelaysAssumption DEF Queue!Next
<1>2. ASSUME NEW id \in ID, Delete(id)
      PROVE  Queue!Next \/ UNCHANGED Queue!vars
  BY <1>2, DeleteRefines DEF Queue!Next
<1>3. CASE Trigger
  BY <1>3, TriggerRefines DEF Queue!Next
<1>4. CASE UNCHANGED vars
  BY <1>4 DEF vars, Queue!vars, Linked, Slot, Remaining, Ahead, Circles
<1> QED
  BY <1>1, <1>2, <1>3, <1>4 DEF Next

(* An item waits for exactly the ticks its delay asks for: calcSlotAndCircle *)
(* keeps the whole delay when it is not negative; one that is makes the     *)
(* item come within a revolution, or never (timewheel.go:64-86).            *)
THEOREM DelayExact == Spec => DelayKept
<1>1. ASSUME IInv, NEW id \in ID, NEW d \in Delays, Add(id, d)
      PROVE  IF calcSlotAndCircle(d).index >= 0
             THEN Queue!Add(id, TicksOf(d))
             ELSE UNCHANGED Queue!vars
  BY <1>1, AddRefines, DelaysAssumption
<1>2. IInv /\ [Next]_vars =>
        [\A id \in ID, d \in Delays :
            Add(id, d) => IF calcSlotAndCircle(d).index >= 0
                          THEN Queue!Add(id, TicksOf(d))
                          ELSE UNCHANGED Queue!vars]_vars
  BY <1>1
<1> QED
  BY <1>2, SpecIInv, PTL DEF Spec, DelayKept

(* The wheel implements the delay queue, for every set of delays: whatever *)
(* is added, deleted and triggered, an item is handed out by the Trigger   *)
(* its delay asks for, once, and by no other (timewheel.go:64-155).        *)
THEOREM Implementation == Spec => ImplementsDelayQueue
<1>1. Init => Queue!Init
  BY InitRefines
<1>2. IInv /\ [Next]_vars => [Queue!Next]_(Queue!vars)
  BY NextRefines
<1> QED
  BY <1>1, <1>2, SpecIInv, DelayExact, PTL DEF Spec, ImplementsDelayQueue, Queue!Spec
=============================================================================

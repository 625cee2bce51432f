--------------------------- MODULE MCTaskSchedule ---------------------------
(* Constants of the TLC run of TaskSchedule: delays from a revolution of    *)
(* the wheel and a slot below zero to two revolutions above, and dates,     *)
(* those that are over among them.                                          *)
EXTENDS TaskSchedule, TLC

Longest == 2 * MaxSlot * Interval

Shortest == -(MaxSlot + 1) * Interval

MCDelays == Shortest .. Longest

MCArgs ==
    [interval : MCDelays, datetime : {{}}]
        \cup [interval : {0}, datetime : {{d} : d \in -1 .. Longest}]

(* The ids differ in name only, and nothing that is checked is a liveness   *)
(* property.                                                                *)
Alike == Permutations(ID)
=============================================================================

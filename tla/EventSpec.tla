------------------------------ MODULE EventSpec ------------------------------
(***************************************************************************)
(* What a subscriber is promised, with no channel in sight: while it is    *)
(* in, it is handed the events of its kind that are published, one after   *)
(* the other, beginning with the first one after it joined; once it is     *)
(* out, it is handed nothing more.  EventMsg implements this specification.*)
(***************************************************************************)
EXTENDS Naturals, Sequences

CONSTANTS
    Subscription,   \* subscribers
    Kind,           \* kinds of events
    TypeOf,         \* subscriber -> the kind it subscribes to
    MaxEvents       \* bound: events of each kind

VARIABLES
    published,  \* kind -> number of events published so far
    member,     \* subscriber -> "out", "in" or "left"
    from,       \* subscriber -> events published before it joined
    got         \* subscriber -> the events it was handed, by their numbers

vars == <<published, member, from, got>>

Init ==
    /\ published = [k \in Kind |-> 0]
    /\ member = [s \in Subscription |-> "out"]
    /\ from = [s \in Subscription |-> 0]
    /\ got = [s \in Subscription |-> <<>>]

Publish(k) ==
    /\ published[k] < MaxEvents
    /\ published' = [published EXCEPT ![k] = @ + 1]
    /\ UNCHANGED <<member, from, got>>

Join(s) ==
    /\ member[s] = "out"
    /\ member' = [member EXCEPT ![s] = "in"]
    /\ from' = [from EXCEPT ![s] = published[TypeOf[s]]]
    /\ UNCHANGED <<published, got>>

(* The event that is next for s. *)
NextFor(s) == from[s] + Len(got[s]) + 1

Deliver(s) ==
    /\ member[s] = "in"
    /\ NextFor(s) <= published[TypeOf[s]]
    /\ got' = [got EXCEPT ![s] = Append(@, NextFor(s))]
    /\ UNCHANGED <<published, member, from>>

Leave(s) ==
    /\ member[s] = "in"
    /\ member' = [member EXCEPT ![s] = "left"]
    /\ UNCHANGED <<published, from, got>>

Next ==
    \/ \E k \in Kind : Publish(k)
    \/ \E s \in Subscription : Join(s) \/ Deliver(s) \/ Leave(s)

Spec == Init /\ [][Next]_vars
=============================================================================

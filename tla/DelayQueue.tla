----------------------------- MODULE DelayQueue -----------------------------
(***************************************************************************)
(* What a timer promises its caller, with no wheel in sight: an entry that *)
(* was added with a delay of n ticks is handed out by the (n+1)-th tick    *)
(* after the addition, once, unless it was cancelled before.  (The first   *)
(* tick after an addition closes the interval the caller is already in, so *)
(* n full intervals have passed when the entry is handed out.)             *)
(* TimeWheel implements this specification.                                *)
(***************************************************************************)
EXTENDS Naturals

CONSTANTS
    ID,     \* identifiers of the entries
    Ticks   \* delays an entry can be added with, in ticks: a set of naturals

VARIABLES
    remaining,  \* pending entry -> ticks that will pass it by
    fired       \* what the last tick handed out

vars == <<remaining, fired>>

Pending == DOMAIN remaining

Init ==
    /\ remaining = [id \in {} |-> 0]
    /\ fired = {}

Add(id, n) ==
    /\ id \notin Pending
    /\ remaining' = [x \in Pending \cup {id} |-> IF x = id THEN n ELSE remaining[x]]
    /\ UNCHANGED fired

Cancel(id) ==
    /\ id \in Pending
    /\ remaining' = [x \in Pending \ {id} |-> remaining[x]]
    /\ UNCHANGED fired

Due == {id \in Pending : remaining[id] = 0}

(* The queue once a tick has gone by. *)
Elapsed == [id \in Pending \ Due |-> remaining[id] - 1]

Tick ==
    /\ remaining' = Elapsed
    /\ fired' = Due

Next ==
    \/ \E id \in ID, n \in Ticks : Add(id, n)
    \/ \E id \in ID : Cancel(id)
    \/ Tick

Spec == Init /\ [][Next]_vars
=============================================================================

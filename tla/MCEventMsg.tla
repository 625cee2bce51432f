----------------------------- MODULE MCEventMsg -----------------------------
(* Constants of the TLC runs of EventMsg: channels of one element, so that *)
(* they fill up, in place of 64, 128 and 128.                              *)
EXTENDS EventMsg, TLC

MCEvChanSize == [k \in Kind |-> 1]

CONSTANTS r1, r2, a1    \* subscriptions to results and to new tasks

MCMixed == {r1, r2, a1}
MCAdds == {a1}

MCTypeOf == [s \in Subscription |-> IF s = a1 THEN "adds" ELSE "results"]
=============================================================================

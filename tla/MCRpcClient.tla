---------------------------- MODULE MCRpcClient ----------------------------
(* Constants of the TLC runs of RpcClient: single calls and a batch of two *)
(* messages, and a buffer of one or two notifications in place of 20000.   *)
EXTENDS RpcClient, TLC

CONSTANTS call, otherCall, batchCall, sub, k1

MCCalls == {call, otherCall, batchCall}
MCOneCall == {call}
MCCallOrBatch == {call, batchCall}
MCSub == {sub}
MCClosers == {k1}

MCSize == [op \in Call |-> IF op = batchCall THEN 2 ELSE 1]

MCRepeated == {<<batchCall, 1>>}

(* The messages that calls and notifications put on the wire in a          *)
(* behaviour, beside the two requests of the subscription.  Two of them    *)
(* are a batch, a call and a notification, or two notifications, the       *)
(* second of which finds the buffer full.                                  *)
Traffic ==
    UNION {Ids(op) : op \in {c \in Call : ops[c].pc # "idle"}}
    \cup UNION {{Note(s, n) : n \in 1 .. subs[s].sent} : s \in Sub}

MaxTraffic == 2

LightTraffic == Cardinality(Traffic) <= MaxTraffic

=============================================================================

------------------------------- MODULE RpcSpec -------------------------------
(***************************************************************************)
(* What the client promises its callers and subscribers, with no dispatch  *)
(* loop, read loop or connection in sight.  A request is written at most   *)
(* once and succeeds with all of its responses or not at all; a            *)
(* subscription succeeds only if the server has accepted it, and its       *)
(* subscriber is handed what the server sent, in that order, none of it    *)
(* twice, and without a gap until the subscription ends; a client that is  *)
(* closed writes no more.  RpcClient implements this specification.        *)
(***************************************************************************)
EXTENDS Naturals, Sequences

CONSTANTS
    Request,    \* requests
    Sub,        \* subscriptions
    Asks,       \* subscription -> the request that asks for it
    Drops,      \* subscription -> the request that ends it
    Answers     \* request -> the responses that make it complete

VARIABLES
    state,      \* request -> "new", "pending", "ok" or "failed"
    sent,       \* the requests that were written to the server
    answers,    \* request -> responses its caller has received
    accepted,   \* the subscriptions the server has accepted
    left,       \* the subscriptions that have ended
    emitted,    \* subscription -> notifications the server has sent
    got,        \* subscription -> notifications its subscriber was handed
    closed

vars == <<state, sent, answers, accepted, left, emitted, got, closed>>

calls == <<state, sent, answers>>
streams == <<accepted, left, emitted, got>>

Init ==
    /\ state = [r \in Request |-> "new"]
    /\ sent = {}
    /\ answers = [r \in Request |-> 0]
    /\ accepted = {}
    /\ left = {}
    /\ emitted = [s \in Sub |-> 0]
    /\ got = [s \in Sub |-> <<>>]
    /\ closed = FALSE

Begin(r) ==
    /\ state[r] = "new"
    /\ \A s \in Sub : r # Drops[s]
    /\ state' = [state EXCEPT ![r] = "pending"]
    /\ UNCHANGED <<sent, answers, streams, closed>>

Send(r) ==
    /\ state[r] = "pending"
    /\ r \notin sent
    /\ ~closed
    /\ sent' = sent \cup {r}
    /\ UNCHANGED <<state, answers, streams, closed>>

(* A response.  The last one completes the request; the connection may be  *)
(* lost with any of them.                                                  *)
Take(r) ==
    /\ state[r] = "pending"
    /\ r \in sent
    /\ \A s \in Sub : r = Asks[s] => s \in accepted
    /\ answers[r] < Answers[r]
    /\ answers' = [answers EXCEPT ![r] = @ + 1]
    /\ \E to \in {"failed", IF answers[r] + 1 = Answers[r] THEN "ok" ELSE "pending"} :
           state' = [state EXCEPT ![r] = to]
    /\ UNCHANGED <<sent, streams, closed>>

Fail(r) ==
    /\ state[r] = "pending"
    /\ state' = [state EXCEPT ![r] = "failed"]
    /\ UNCHANGED <<sent, answers, streams, closed>>

Accept(some) ==
    /\ \A s \in some : s \notin accepted /\ Asks[s] \in sent
    /\ accepted' = accepted \cup some
    /\ UNCHANGED <<calls, left, emitted, got, closed>>

Emit(s) ==
    /\ s \in accepted
    /\ emitted' = [emitted EXCEPT ![s] = @ + 1]
    /\ UNCHANGED <<calls, accepted, left, got, closed>>

(* The notification that was handed over last. *)
Latest(s) == IF got[s] = <<>> THEN 0 ELSE got[s][Len(got[s])]

Hand(s) ==
    /\ s \in accepted
    /\ \E n \in Latest(s) + 1 .. emitted[s] :
          /\ s \notin left => n = Len(got[s]) + 1
          /\ got' = [got EXCEPT ![s] = Append(@, n)]
    /\ UNCHANGED <<calls, accepted, left, emitted, closed>>

Leave(s) ==
    /\ left' = left \cup {s}
    /\ UNCHANGED <<calls, accepted, emitted, got, closed>>

(* The server is asked to end the subscription, once. *)
Unsubscribe(s) ==
    /\ s \in accepted
    /\ state[Drops[s]] = "new"
    /\ state' = [state EXCEPT ![Drops[s]] = "pending"]
    /\ left' = left \cup {s}
    /\ UNCHANGED <<sent, answers, accepted, emitted, got, closed>>

Close ==
    /\ closed' = TRUE
    /\ UNCHANGED <<calls, streams>>

Next ==
    \/ \E r \in Request : Begin(r) \/ Send(r) \/ Take(r) \/ Fail(r)
    \/ \E some \in SUBSET Sub : Accept(some)
    \/ \E s \in Sub : Emit(s) \/ Hand(s) \/ Leave(s) \/ Unsubscribe(s)
    \/ Close

Spec == Init /\ [][Next]_vars
=============================================================================

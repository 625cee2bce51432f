------------------------------ MODULE EventMsg ------------------------------
(***************************************************************************)
(* node/subscribe/subscribe.go: how the events of the task manager reach   *)
(* the clients that subscribed to them.  AddTask and executeJobs send an   *)
(* event on a Feed while they hold Manager.mu; the Feed puts it in a       *)
(* bounded channel of EventMsg; the goroutine of eventLoop takes it out    *)
(* and sends it, one after the other, to the bounded channels of the       *)
(* subscriptions in its index.  A subscription belongs to a goroutine of   *)
(* PrivateTaskAPI.Results or NewTask, which installs it, passes what it    *)
(* receives on to the client and, when the client leaves, unsubscribes.    *)
(*                                                                         *)
(* install and uninstall are unbuffered: a rendezvous of that goroutine    *)
(* with an eventLoop at its select.  Events of a kind are numbered in the  *)
(* order in which they are sent.                                           *)
(***************************************************************************)
EXTENDS Naturals, Sequences

CONSTANTS
    Subscription,   \* subscriptions a client may ask for
    TypeOf,         \* subscription -> "results" or "adds"
    EvChanSize,     \* kind -> capacity of resultsCh, of addsCh
    SubChanSize,    \* capacity of the channel of a subscription
    MaxEvents,      \* bound: events of each kind
    MayStop         \* whether Manager.Stop is ever called

Kind == {"results", "adds"}

ASSUME TypeOfAssumption == TypeOf \in [Subscription -> Kind]
ASSUME SizesAssumption ==
    /\ EvChanSize \in [Kind -> Nat \ {0}]
    /\ SubChanSize \in Nat \ {0}
    /\ MaxEvents \in Nat

VARIABLES
    sending,    \* kinds of which an event is being sent under Manager.mu: one at most
    evChan,     \* kind -> contents of resultsCh, of addsCh
    eventLoop,  \* "select", "broadcast" or "exited"
    event,      \* the number of the event that is being broadcast
    targets,    \* the subscriptions broadcast has still to send it to
    index,      \* es.index: the installed subscriptions
    client,     \* what the goroutine of a subscription does: "idle", "installing",
                \* "serving", "unsubscribing" or "returned"
    subChan,    \* subscription -> contents of its channel
    stopped,    \* ctx.Done() is closed
    sent,       \* kind -> events put in evChan so far
    taken,      \* kind -> events eventLoop has taken so far
    since,      \* history: subscription -> events taken before it was installed
    notified    \* history: subscription -> events passed on to the client

chans == <<evChan, subChan>>
counts == <<sent, taken, since, notified>>
vars == <<sending, chans, eventLoop, event, targets, index, client, stopped, counts>>

Init ==
    /\ sending = {}
    /\ evChan = [k \in Kind |-> <<>>]
    /\ eventLoop = "select" /\ event = 0 /\ targets = {}
    /\ index = {}
    /\ client = [s \in Subscription |-> "idle"]
    /\ subChan = [s \in Subscription |-> <<>>]
    /\ stopped = FALSE
    /\ sent = [k \in Kind |-> 0] /\ taken = [k \in Kind |-> 0]
    /\ since = [s \in Subscription |-> 0]
    /\ notified = [s \in Subscription |-> <<>>]

-----------------------------------------------------------------------------
(* Manager.AddTask and executeJobs: Feed.Send blocks until the channel of  *)
(* EventMsg, the only one subscribed to the Feed, has taken the event, and *)
(* Manager.mu is held all the while.                                       *)
Send(k) ==
    /\ sending = {}
    /\ sent[k] < MaxEvents
    /\ sending' = {k}
    /\ UNCHANGED <<chans, eventLoop, event, targets, index, client, stopped, counts>>

SendReturns(k) ==
    /\ k \in sending
    /\ Len(evChan[k]) < EvChanSize[k]
    /\ evChan' = [evChan EXCEPT ![k] = Append(@, sent[k] + 1)]
    /\ sent' = [sent EXCEPT ![k] = @ + 1]
    /\ sending' = {}
    /\ UNCHANGED <<subChan, eventLoop, event, targets, index, client, stopped,
                   taken, since, notified>>

-----------------------------------------------------------------------------
(* eventLoop. *)

AnyKind(k) == index

Matching(k) == {s \in index : TypeOf[s] = k}

AfterSending(rest) == IF rest = {} THEN "select" ELSE "broadcast"

(* An event is taken, and broadcast begins. *)
Take(k) ==
    /\ eventLoop = "select"
    /\ evChan[k] # <<>>
    /\ event' = Head(evChan[k])
    /\ evChan' = [evChan EXCEPT ![k] = Tail(@)]
    /\ taken' = [taken EXCEPT ![k] = @ + 1]
    /\ targets' = Matching(k)
    /\ eventLoop' = AfterSending(Matching(k))
    /\ UNCHANGED <<sending, subChan, index, client, stopped, sent, since, notified>>

(* f.results <- results, f.adds <- e: broadcast blocks while the channel   *)
(* of the subscription is full.  A Go map is iterated in any order.        *)
AlwaysRoom(s) == TRUE

RoomFor(s) == Len(subChan[s]) < SubChanSize

BroadcastOrDrop(s) ==
    /\ s \in targets
    /\ subChan' = [subChan EXCEPT ![s] = IF RoomFor(s) THEN Append(@, event) ELSE @]
    /\ targets' = targets \ {s}
    /\ eventLoop' = AfterSending(targets \ {s})
    /\ UNCHANGED <<sending, evChan, event, index, client, stopped, counts>>

Broadcast(s) ==
    /\ s \in targets
    /\ RoomFor(s)
    /\ subChan' = [subChan EXCEPT ![s] = Append(@, event)]
    /\ targets' = targets \ {s}
    /\ eventLoop' = AfterSending(targets \ {s})
    /\ UNCHANGED <<sending, evChan, event, index, client, stopped, counts>>

Exits ==
    /\ eventLoop = "select"
    /\ stopped
    /\ eventLoop' = "exited"
    /\ UNCHANGED <<sending, chans, event, targets, index, client, stopped, counts>>

-----------------------------------------------------------------------------
(* The goroutine of a subscription. *)

Subscribe(s) ==
    /\ client[s] = "idle"
    /\ client' = [client EXCEPT ![s] = "installing"]
    /\ UNCHANGED <<sending, chans, eventLoop, event, targets, index, stopped, counts>>

(* es.install <- sub meets <-es.install; installed is closed at once. *)
Install(s) ==
    /\ client[s] = "installing"
    /\ eventLoop = "select"
    /\ index' = index \cup {s}
    /\ client' = [client EXCEPT ![s] = "serving"]
    /\ since' = [since EXCEPT ![s] = taken[TypeOf[s]]]
    /\ UNCHANGED <<sending, chans, eventLoop, event, targets, stopped, sent, taken, notified>>

(* An event is received and passed on to the client. *)
Notify(s) ==
    /\ client[s] = "serving"
    /\ subChan[s] # <<>>
    /\ notified' = [notified EXCEPT ![s] = Append(@, Head(subChan[s]))]
    /\ subChan' = [subChan EXCEPT ![s] = Tail(@)]
    /\ UNCHANGED <<sending, evChan, eventLoop, event, targets, index, client, stopped,
                   sent, taken, since>>

(* rpcSub.Err() or notifier.Closed(): the client has left. *)
Leave(s) ==
    /\ client[s] = "serving"
    /\ client' = [client EXCEPT ![s] = "unsubscribing"]
    /\ UNCHANGED <<sending, chans, eventLoop, event, targets, index, stopped, counts>>

(* Unsubscribe reads f.results while it waits for eventLoop; the results   *)
(* channel of a subscription to new tasks is nil, and nothing reads f.adds.*)
ReadsNothing(s) == FALSE

ReadsWhileWaiting(s) == TypeOf[s] = "results"

Drain(s) ==
    /\ client[s] = "unsubscribing"
    /\ ReadsWhileWaiting(s)
    /\ subChan[s] # <<>>
    /\ subChan' = [subChan EXCEPT ![s] = Tail(@)]
    /\ UNCHANGED <<sending, evChan, eventLoop, event, targets, index, client, stopped, counts>>

(* es.uninstall <- sub.f meets <-es.uninstall; err is closed and           *)
(* Unsubscribe returns.                                                    *)
UninstallUnsynchronized(s) ==
    /\ client[s] = "unsubscribing"
    /\ index' = index \ {s}
    /\ client' = [client EXCEPT ![s] = "returned"]
    /\ UNCHANGED <<sending, chans, eventLoop, event, targets, stopped, counts>>

Uninstall(s) ==
    /\ client[s] = "unsubscribing"
    /\ eventLoop = "select"
    /\ index' = index \ {s}
    /\ client' = [client EXCEPT ![s] = "returned"]
    /\ UNCHANGED <<sending, chans, eventLoop, event, targets, stopped, counts>>

-----------------------------------------------------------------------------
(* Manager.Stop cancels the context under Manager.mu. *)
Stop ==
    /\ MayStop
    /\ sending = {}
    /\ ~stopped
    /\ stopped' = TRUE
    /\ UNCHANGED <<sending, chans, eventLoop, event, targets, index, client, counts>>

Manager == Stop \/ \E k \in Kind : Send(k) \/ SendReturns(k)

Loop ==
    \/ Exits
    \/ \E k \in Kind : Take(k)
    \/ \E s \in Subscription : Broadcast(s) \/ Install(s) \/ Uninstall(s)

Client(s) == Subscribe(s) \/ Notify(s) \/ Leave(s) \/ Drain(s)

Next == Manager \/ Loop \/ \E s \in Subscription : Client(s)

Spec == Init /\ [][Next]_vars

(* Every goroutine that can run does.  A select takes its ready cases at   *)
(* random; here events are bounded, so that a loop that keeps moving gets  *)
(* to each of them.  A client may stay for ever, and nobody has to send,   *)
(* subscribe, leave or stop.                                               *)
Fairness ==
    /\ WF_vars(\E k \in Kind : SendReturns(k))
    /\ WF_vars(Loop)
    /\ \A s \in Subscription : WF_vars(Notify(s) \/ Drain(s))

FairSpec == Spec /\ Fairness

-----------------------------------------------------------------------------
TypeOK ==
    /\ \E k \in Kind : sending \subseteq {k}
    /\ evChan \in [Kind -> Seq(1 .. MaxEvents)]
    /\ \A k \in Kind : Len(evChan[k]) <= EvChanSize[k]
    /\ eventLoop \in {"select", "broadcast", "exited"}
    /\ event \in 0 .. MaxEvents
    /\ targets \subseteq Subscription
    /\ eventLoop = "broadcast" <=> targets # {}
    /\ index \subseteq Subscription
    /\ client \in [Subscription ->
                      {"idle", "installing", "serving", "unsubscribing", "returned"}]
    /\ subChan \in [Subscription -> Seq(1 .. MaxEvents)]
    /\ \A s \in Subscription : Len(subChan[s]) <= SubChanSize
    /\ stopped \in BOOLEAN
    /\ sent \in [Kind -> 0 .. MaxEvents] /\ taken \in [Kind -> 0 .. MaxEvents]
    /\ since \in [Subscription -> 0 .. MaxEvents]
    /\ notified \in [Subscription -> Seq(1 .. MaxEvents)]

(* As long as a client stays, it gets every event of its kind that is      *)
(* taken after its installation, once and in the order they were sent: no  *)
(* event overtakes, repeats or skips another on its way through the two    *)
(* channels (subscribe.go:210-248).                                        *)
Numbers(first, last) == [i \in 1 .. last - first |-> first + i]

Broadcasted(s) == IF s \in targets THEN taken[TypeOf[s]] - 1 ELSE taken[TypeOf[s]]

NothingMissed ==
    \A s \in Subscription : client[s] = "serving" =>
        notified[s] \o subChan[s] = Numbers(since[s], Broadcasted(s))

(* Nothing is sent to the channel of a subscription after Unsubscribe has  *)
(* returned: "this ensures that the manager won't use the event channel    *)
(* which will probably be closed by the client" (subscribe.go:169-172).    *)
SilentAfterUnsubscribe ==
    [][\A s \in Subscription : client[s] = "returned" => subChan'[s] = subChan[s]]_vars

(* When the loop need not do its part: it has gone after Manager.Stop, and *)
(* neither Unsubscribe nor install looks at the context (subscribe.go:     *)
(* 154-180, 255-261); or a subscription to new tasks is being removed,     *)
(* which can block it (see UnsubscribeReturns).                            *)
LoopHindered ==
    \/ eventLoop = "exited"
    \/ \E s \in Subscription : TypeOf[s] = "adds" /\ client[s] = "unsubscribing"

(* What the loop has taken counts as published, and a client that has      *)
(* asked to leave has left.                                                *)
Member(s) ==
    CASE client[s] \in {"idle", "installing"} -> "out"
      [] client[s] = "serving" -> "in"
      [] OTHER -> "left"

Promise == INSTANCE EventSpec WITH
              published <- taken,
              member <- [s \in Subscription |-> Member(s)],
              from <- since,
              got <- notified

(* The two bounded channels, the broadcast that may block between two      *)
(* subscribers and the rendezvous with a loop that is elsewhere are        *)
(* invisible to a subscriber: it sees one stream of the events of its      *)
(* kind, without gaps from the moment it joined (subscribe.go:154-263,     *)
(* task/api.go:167-226).                                                   *)
KeepsPromise == Promise!Spec

(* A client that leaves gets out of Unsubscribe, however full the channels *)
(* are and whoever else the loop is sending to, also when the service is   *)
(* being stopped, unless the loop is hindered (subscribe.go:154-167,       *)
(* 249-260).                                                               *)
ResultsUnsubscribe ==
    \A s \in Subscription :
        client[s] = "unsubscribing" ~> client[s] = "returned" \/ LoopHindered

(* Events of a kind, with the one that Feed.Send holds.                    *)
Numbered(k) == IF k \in sending THEN sent[k] + 1 ELSE sent[k]

(* Unless the loop is hindered, an event that AddTask or executeJobs sends *)
(* leaves the manager, which releases Manager.mu, and reaches every client *)
(* of its kind that stays, whoever else is slow or leaves (manager.go:399, *)
(* 475; subscribe.go:210-241; task/api.go:179-192).                        *)
EventsArrive ==
    /\ sending # {} ~> sending = {} \/ LoopHindered
    /\ \A s \in Subscription, n \in 1 .. MaxEvents :
          client[s] = "serving" /\ since[s] < n /\ n <= Numbered(TypeOf[s])
              ~> \/ client[s] # "serving" \/ LoopHindered
                 \/ since[s] + Len(notified[s]) >= n

(* What the repository says and the code does not do. *)

(* Unsubscribe returns: "This prevents the eventLoop broadcast method to   *)
(* deadlock" (subscribe.go:153-161).                                       *)
UnsubscribeReturns ==
    \A s \in Subscription : client[s] = "unsubscribing" ~> client[s] = "returned"
=============================================================================

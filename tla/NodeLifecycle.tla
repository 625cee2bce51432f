--------------------------- MODULE NodeLifecycle ---------------------------
(***************************************************************************)
(* node/admin/node.go, node/admin/api.go and main.go: how the process      *)
(* starts and stops.  The main goroutine registers services, starts the    *)
(* node, waits for a signal and stops the node.  From the moment the HTTP  *)
(* endpoint listens, requests of clients run on goroutines of their own:   *)
(* admin_startWS and admin_stopWS open and close the WebSocket endpoint    *)
(* under api.mu, admin_nodeInfo reads the node.  Start and Stop hold       *)
(* Node.lock, which StartWS and StopWS of the node do not ask for: main    *)
(* and the holder of api.mu may be in them at the same time, so that each  *)
(* access to wsListener and wsHandler is a step.                           *)
(*                                                                         *)
(* An endpoint is named after the goroutine that opens it (each opens one  *)
(* at most): it is bound until its listener is closed and serves until its *)
(* handler is stopped.  Restart, which nobody calls, is left out.          *)
(***************************************************************************)
EXTENDS Naturals, FiniteSets, Sequences

CONSTANTS
    Service,       \* types of services
    Request,       \* requests to the admin API, of one call each
    Address,       \* host:port pairs for the WebSocket endpoint
    ConfWS,        \* the one conf.DefaultConfig has at first
    MaxRegister,   \* bound: calls of Register
    Main,          \* the goroutine of main()
    None           \* a nil listener, handler or argument

ASSUME NodeAssumption ==
    /\ ConfWS \in Address /\ Main \notin Request /\ None \notin Request \cup {Main}
    /\ MaxRegister \in Nat

Goroutine == Request \cup {Main}

VARIABLES
    pc,             \* goroutine -> where it is
    serviceFuncs,   \* constructors in order, each the type of the service it makes
    services,       \* services[s]: "none", "built", "running" or "stopped"
    isRunning,      \* Node.isRunning
    rpcAPIs,        \* Node.rpcAPIs # nil
    stopChan,       \* Node.stop: "open" or "closed"
    http,           \* the HTTP endpoint serves
    wsListener,     \* Node.wsListener: the endpoint it is of, or None
    wsHandler,      \* Node.wsHandler: the endpoint it is of, or None
    bound,          \* WebSocket endpoints whose listener is open
    serving,        \* WebSocket endpoints whose handler is not stopped
    apis,           \* those of them that were given the APIs of the node
    address,        \* goroutine -> the address of its endpoint
    defaultWS,      \* the address in conf.DefaultConfig
    mu,             \* holder of PrivateAdminAPI.mu, or None
    info,           \* request -> what its nodeInfo has read so far
    failures,       \* services whose Stop returned an error
    signals,        \* main's channel of signals, of one place
    raced           \* history: an admin call was in its critical section while
                    \* main was in Start or Stop, or after it

ws == <<wsListener, wsHandler, bound, serving, apis, address, defaultWS>>
node == <<serviceFuncs, services, isRunning, rpcAPIs, stopChan, http, failures>>
vars == <<pc, node, ws, mu, info, signals, raced>>

Go(g, to) == pc' = [pc EXCEPT ![g] = to]

(* A panic of main, or its return, ends the process. *)
Over == pc[Main] \in {"exited", "crashed"}

(* Between Lock and Unlock of Node.lock. *)
Locked == pc[Main] \notin {"register", "failed", "wait", "quit", "again", "exited", "crashed"}

(* An admin call that goes ahead now meets Start or Stop, or a node that   *)
(* has stopped.                                                            *)
Late == Locked \/ stopChan = "closed"

(* Past the check of the handler, up to the return. *)
Critical(g) == g \in Request /\ mu = g /\ pc[g] \notin {"lock", "return"}

Ranges(seq) == {seq[i] : i \in DOMAIN seq}

Init ==
    /\ pc = [g \in Goroutine |-> IF g = Main THEN "register" ELSE "idle"]
    /\ serviceFuncs = <<>> /\ services = [s \in Service |-> "none"]
    /\ isRunning = FALSE /\ rpcAPIs = FALSE /\ stopChan = "open" /\ http = FALSE
    /\ wsListener = None /\ wsHandler = None
    /\ bound = {} /\ serving = {} /\ apis = {}
    /\ address = [g \in Goroutine |-> ConfWS] /\ defaultWS = ConfWS
    /\ mu = None /\ info = [q \in Request |-> <<>>]
    /\ failures = {} /\ signals = "none" /\ raced = FALSE

-----------------------------------------------------------------------------
(* Register and the first half of Start. *)

Register(s) ==
    /\ pc[Main] = "register"
    /\ ~isRunning
    /\ Len(serviceFuncs) < MaxRegister
    /\ serviceFuncs' = Append(serviceFuncs, s)
    /\ UNCHANGED <<pc, services, isRunning, rpcAPIs, stopChan, http, failures, ws, mu,
                   info, signals, raced>>

(* Every constructor in order: one may fail, and no type may come twice.   *)
Construct ==
    /\ pc[Main] = "register"
    /\ ~isRunning
    /\ \/ /\ Len(serviceFuncs) > 0
          /\ Go(Main, "failed")
          /\ UNCHANGED services
       \/ /\ Cardinality(Ranges(serviceFuncs)) = Len(serviceFuncs)
          /\ services' = [s \in Service |->
                            IF s \in Ranges(serviceFuncs) THEN "built" ELSE services[s]]
          /\ Go(Main, "services")
    /\ UNCHANGED <<serviceFuncs, isRunning, rpcAPIs, stopChan, http, failures, ws, mu,
                   info, signals, raced>>

StartedKept == services

StartedStopped ==
    [s \in Service |-> IF services[s] = "running" THEN "stopped" ELSE services[s]]

(* The services in the order of the map, that is in any.                   *)
StartService ==
    /\ pc[Main] = "services"
    /\ \E s \in Service :
         /\ services[s] = "built"
         /\ \/ services' = [services EXCEPT ![s] = "running"] /\ UNCHANGED pc
            \/ services' = StartedStopped /\ Go(Main, "failed")
    /\ UNCHANGED <<serviceFuncs, isRunning, rpcAPIs, stopChan, http, failures, ws, mu,
                   info, signals, raced>>

StartHTTPEarly ==
    /\ pc[Main] = "services"
    /\ http' = TRUE /\ Go(Main, "listen")
    /\ UNCHANGED <<serviceFuncs, services, isRunning, rpcAPIs, stopChan, failures, ws, mu,
                   info, signals, raced>>

(* The endpoints come last: an error here leaves the services as they are. *)
StartHTTP ==
    /\ pc[Main] = "services"
    /\ \A s \in Service : services[s] # "built"
    /\ \/ http' = TRUE /\ Go(Main, "listen")
       \/ UNCHANGED http /\ Go(Main, "failed")
    /\ UNCHANGED <<serviceFuncs, services, isRunning, rpcAPIs, stopChan, failures, ws, mu,
                   info, signals, raced>>

-----------------------------------------------------------------------------
(* Node.StartWS, on main from startRPC or on a request from the admin API. *)

AddressFree(a) == \A e \in bound : address[e] # a

(* main passes the APIs it has gathered, a request what RpcAPIs() returns. *)
HasAPIs(g) == g = Main \/ rpcAPIs

(* On an error startRPC closes the HTTP endpoint again. *)
Listen(g) ==
    /\ pc[g] = "listen"
    /\ \/ /\ AddressFree(address[g])
          /\ bound' = bound \cup {g} /\ serving' = serving \cup {g}
          /\ apis' = IF HasAPIs(g) THEN apis \cup {g} ELSE apis
          /\ Go(g, "setListener")
          /\ UNCHANGED http
       \/ /\ Go(g, IF g = Main THEN "failed" ELSE "return")
          /\ http' = (g # Main /\ http)
          /\ UNCHANGED <<bound, serving, apis>>
    /\ UNCHANGED <<serviceFuncs, services, isRunning, rpcAPIs, stopChan, failures, wsListener,
                   wsHandler, address, defaultWS, mu, info, signals, raced>>

SetListener(g) ==
    /\ pc[g] = "setListener"
    /\ wsListener' = g
    /\ Go(g, "setHandler")
    /\ UNCHANGED <<node, wsHandler, bound, serving, apis, address, defaultWS, mu, info,
                   signals, raced>>

SetHandler(g) ==
    /\ pc[g] = "setHandler"
    /\ wsHandler' = g
    /\ Go(g, IF g = Main THEN "publish" ELSE "return")
    /\ UNCHANGED <<node, wsListener, bound, serving, apis, address, defaultWS, mu, info,
                   signals, raced>>

(* startRPC keeps the APIs; they are what admin_startWS serves later.      *)
Publish ==
    /\ pc[Main] = "publish"
    /\ rpcAPIs' = TRUE
    /\ Go(Main, "commit")
    /\ UNCHANGED <<serviceFuncs, services, isRunning, stopChan, http, failures, ws, mu,
                   info, signals, raced>>

(* The rest of Start, with the return to main. *)
Commit ==
    /\ pc[Main] = "commit"
    /\ isRunning' = TRUE /\ stopChan' = "open"
    /\ Go(Main, "wait")
    /\ UNCHANGED <<serviceFuncs, services, rpcAPIs, http, failures, ws, mu, info, signals,
                   raced>>

-----------------------------------------------------------------------------
(* Node.StopWS.  Each test of a field and each call on it reads the field  *)
(* again: a call on one that has become nil in between panics.  A panic of *)
(* a request ends the request only.                                        *)

Panic(g) == Go(g, IF g = Main THEN "crashed" ELSE "return")

TestListener(g) ==
    /\ pc[g] = "testListener"
    /\ Go(g, IF wsListener = None THEN "testHandler" ELSE "close")
    /\ UNCHANGED <<node, ws, mu, info, signals, raced>>

CloseListener(g) ==
    /\ pc[g] = "close"
    /\ IF wsListener = None THEN Panic(g) ELSE Go(g, "clearListener")
    /\ bound' = bound \ {wsListener}
    /\ UNCHANGED <<node, wsListener, wsHandler, serving, apis, address, defaultWS, mu, info,
                   signals, raced>>

ClearListener(g) ==
    /\ pc[g] = "clearListener"
    /\ wsListener' = None
    /\ Go(g, "testHandler")
    /\ UNCHANGED <<node, wsHandler, bound, serving, apis, address, defaultWS, mu, info,
                   signals, raced>>

TestHandler(g) ==
    /\ pc[g] = "testHandler"
    /\ Go(g, CASE wsHandler # None -> "stopHandler"
               [] wsHandler = None /\ g = Main -> "stopHTTP"
               [] OTHER -> "return")
    /\ UNCHANGED <<node, ws, mu, info, signals, raced>>

StopHandler(g) ==
    /\ pc[g] = "stopHandler"
    /\ IF wsHandler = None THEN Panic(g) ELSE Go(g, "clearHandler")
    /\ serving' = serving \ {wsHandler} /\ apis' = apis \ {wsHandler}
    /\ UNCHANGED <<node, wsListener, wsHandler, bound, address, defaultWS, mu, info, signals,
                   raced>>

ClearHandler(g) ==
    /\ pc[g] = "clearHandler"
    /\ wsHandler' = None
    /\ Go(g, IF g = Main THEN "stopHTTP" ELSE "return")
    /\ UNCHANGED <<node, wsListener, bound, serving, apis, address, defaultWS, mu, info,
                   signals, raced>>

WSStep(g) ==
    \/ Listen(g) \/ SetListener(g) \/ SetHandler(g)
    \/ TestListener(g) \/ CloseListener(g) \/ ClearListener(g)
    \/ TestHandler(g) \/ StopHandler(g) \/ ClearHandler(g)

-----------------------------------------------------------------------------
(* The rest of main: the signals and Stop. *)

(* The process of a task ended, or an operator asks it to end: a signal    *)
(* that finds the channel full is dropped.                                 *)
Signal(s) ==
    /\ ~Over
    /\ signals = "none"
    /\ signals' = s
    /\ UNCHANGED <<pc, node, ws, mu, info, raced>>

BreakLeavesSelect(s) == TRUE

(* The loop of main: SIGCHLD goes around again. *)
StaysAfter(s) == s = "SIGCHLD"

Receive ==
    /\ pc[Main] = "wait"
    /\ signals # "none"
    /\ signals' = "none"
    /\ Go(Main, IF StaysAfter(signals) THEN "wait" ELSE "quit")
    /\ UNCHANGED <<node, ws, mu, info, raced>>

SkipWS == "stopHTTP"

(* Stop takes the WebSocket endpoint down first. *)
FirstOfStop == "testListener"

(* Stop, called after a failed Start, after the loop, and again when that  *)
(* call returned an error.                                                 *)
Stop ==
    /\ pc[Main] \in {"failed", "quit", "again"}
    /\ Go(Main, CASE isRunning -> FirstOfStop
                  [] ~isRunning /\ pc[Main] = "failed" -> "wait"
                  [] ~isRunning /\ pc[Main] = "quit" -> "again"
                  [] OTHER -> "exited")
    /\ raced' = (raced \/ (isRunning /\ \E q \in Request : Critical(q)))
    /\ UNCHANGED <<node, ws, mu, info, signals>>

StopHTTP ==
    /\ pc[Main] = "stopHTTP"
    /\ http' = FALSE
    /\ Go(Main, "stopServices")
    /\ UNCHANGED <<serviceFuncs, services, isRunning, rpcAPIs, stopChan, failures, ws, mu,
                   info, signals, raced>>

AllServices == Service

Stoppable == {s \in Service : services[s] = "running"}

(* The Stop of the one service there is, Manager.Stop, waits for           *)
(* Manager.mu, which can be held for ever (EventMsg): main may stay here.  *)
StopHangs == pc[Main] = "stopServices"

StopServices ==
    /\ pc[Main] = "stopServices"
    /\ services' = StartedStopped
    /\ failures' \in SUBSET Stoppable
    /\ Go(Main, "finish")
    /\ UNCHANGED <<serviceFuncs, isRunning, rpcAPIs, stopChan, http, ws, mu, info, signals,
                   raced>>

RunningIfFailed == failures # {}

RunningAfterStop == FALSE

(* close(n.stop) panics when it is closed already. *)
Finish ==
    /\ pc[Main] = "finish"
    /\ rpcAPIs' = FALSE /\ isRunning' = RunningAfterStop
    /\ stopChan' = "closed"
    /\ Go(Main, CASE stopChan = "closed" -> "crashed"
                  [] stopChan = "open" /\ failures # {} -> "again"
                  [] OTHER -> "exited")
    /\ UNCHANGED <<serviceFuncs, services, http, failures, ws, mu, info, signals, raced>>

MainStep ==
    \/ Construct \/ StartService \/ StartHTTP \/ Publish \/ Commit
    \/ Receive \/ Stop \/ StopHTTP \/ StopServices \/ Finish
    \/ (~Over /\ WSStep(Main))

-----------------------------------------------------------------------------
(* The requests. *)

(* The admin API is reached over HTTP, and over an endpoint that has it.   *)
Arrive(q) ==
    /\ ~Over
    /\ pc[q] = "idle"
    /\ http \/ apis # {}
    /\ \E to \in {"lockStart", "lockStop", "info"} : Go(q, to)
    /\ UNCHANGED <<node, ws, mu, info, signals, raced>>

MayStartTwice == TRUE

MayStart == wsHandler = None

(* StartWS of the API.  The configuration it changes is the one every call *)
(* starts from, whether or not the call succeeds.                          *)
AdminStartWS(q, host) ==
    /\ pc[q] = "lockStart"
    /\ mu = None
    /\ mu' = q
    /\ IF MayStart
         THEN /\ address' = [address EXCEPT ![q] = IF host = None THEN defaultWS ELSE host]
              /\ defaultWS' = address'[q]
              /\ raced' = (raced \/ Late)
              /\ Go(q, "listen")
         ELSE Go(q, "return") /\ UNCHANGED <<address, defaultWS, raced>>
    /\ UNCHANGED <<node, wsListener, wsHandler, bound, serving, apis, info, signals>>

AdminStopWS(q) ==
    /\ pc[q] = "lockStop"
    /\ mu = None
    /\ mu' = q
    /\ IF wsHandler = None
         THEN Go(q, "return") /\ UNCHANGED raced
         ELSE Go(q, "testListener") /\ raced' = (raced \/ Late)
    /\ UNCHANGED <<node, ws, info, signals>>

NoReadLock == TRUE

ReadLock == ~Locked

(* NodeInfo: Services() under the read lock, then IsRunning() without.     *)
InfoServices(q) ==
    /\ pc[q] = "info"
    /\ ReadLock
    /\ info' = [info EXCEPT ![q] =
                  <<{s \in Service : isRunning /\ services[s] = "running"}>>]
    /\ Go(q, "isRunning")
    /\ UNCHANGED <<node, ws, mu, signals, raced>>

InfoRunning(q) ==
    /\ pc[q] = "isRunning"
    /\ info' = [info EXCEPT ![q] = Append(@, isRunning)]
    /\ Go(q, "return")
    /\ UNCHANGED <<node, ws, mu, signals, raced>>

StaysLocked(q) == mu

(* The deferred Unlock. *)
Unlocked(q) == IF mu = q THEN None ELSE mu

Return(q) ==
    /\ pc[q] = "return"
    /\ mu' = Unlocked(q)
    /\ Go(q, "returned")
    /\ UNCHANGED <<node, ws, info, signals, raced>>

RequestStep(q) ==
    /\ ~Over
    /\ \/ \E host \in Address \cup {None} : AdminStartWS(q, host)
       \/ AdminStopWS(q) \/ WSStep(q)
       \/ InfoServices(q) \/ InfoRunning(q)
       \/ Return(q)

Next ==
    \/ \E s \in Service : Register(s)
    \/ MainStep
    \/ \E s \in {"SIGCHLD", "SIGTERM"} : Signal(s)
    \/ \E q \in Request : Arrive(q) \/ RequestStep(q)

(* The scheduler runs every goroutine that can go on; whether the services *)
(* come to their end is not up to it.                                      *)
Fairness ==
    /\ WF_vars(~StopHangs /\ MainStep)
    /\ \A q \in Request : WF_vars(RequestStep(q))

Spec == Init /\ [][Next]_vars
FairSpec == Spec /\ Fairness

-----------------------------------------------------------------------------

TypeOK ==
    /\ pc \in [Goroutine -> {"register", "services", "failed", "listen", "setListener",
                "setHandler", "publish", "commit", "wait", "quit", "again", "testListener",
                "close", "clearListener", "testHandler", "stopHandler", "clearHandler",
                "stopHTTP", "stopServices", "finish", "exited", "crashed", "idle",
                "lockStart", "lockStop", "info", "isRunning", "return", "returned"}]
    /\ serviceFuncs \in Seq(Service) /\ Len(serviceFuncs) <= MaxRegister
    /\ services \in [Service -> {"none", "built", "running", "stopped"}]
    /\ isRunning \in BOOLEAN /\ rpcAPIs \in BOOLEAN /\ http \in BOOLEAN /\ raced \in BOOLEAN
    /\ stopChan \in {"open", "closed"}
    /\ wsListener \in Goroutine \cup {None} /\ wsHandler \in Goroutine \cup {None}
    /\ bound \subseteq Goroutine /\ serving \subseteq Goroutine /\ apis \subseteq serving
    /\ address \in [Goroutine -> Address] /\ defaultWS \in Address
    /\ mu \in Request \cup {None}
    /\ \A q \in Request : Len(info[q]) <= 2
    /\ failures \subseteq {s \in Service : services[s] = "stopped"}
    /\ signals \in {"none", "SIGCHLD", "SIGTERM"}

AllRunning == \A s \in Ranges(serviceFuncs) : services[s] = "running"

(* Start starts every registered service or leaves none running, whichever *)
(* of them fails and in whatever order the map gives them; Stop stops all. *)
(* (Node.Start, "stopping all previous upon failure".)                     *)
AllOrNothing ==
    pc[Main] # "services" =>
        AllRunning \/ \A s \in Service : services[s] # "running"

(* No client reaches the APIs of a service that is not running: over HTTP  *)
(* in no case, over WebSocket as long as no admin call met Start or Stop.  *)
(* (The order of startRPC after the services in Start, and of the          *)
(* endpoints before the services in Stop.)                                 *)
ServedByRunning ==
    http \/ (apis # {} /\ ~raced) => AllRunning

(* Admin calls that keep away from Start and Stop never lose an endpoint:  *)
(* whatever listens or serves is in the fields through which it can be     *)
(* closed, or in the hands of a goroutine that is about to put it there.   *)
(* (PrivateAdminAPI.mu, the check of WSHandle, StartWS and StopWS.)        *)
NoEndpointLost ==
    ~raced =>
        /\ \A e \in bound : e = wsListener \/ pc[e] = "setListener"
        /\ \A e \in serving : e = wsHandler \/ pc[e] \in {"setListener", "setHandler"}

(* A Stop that found the node running leaves nothing behind, even if a     *)
(* service failed to stop, unless an admin call met it.  (Node.Stop,       *)
(* "terminates a running node along with all it's services".)              *)
StopTerminates ==
    stopChan = "closed" /\ ~raced =>
        /\ ~http /\ bound = {} /\ serving = {}
        /\ \A s \in Service : services[s] # "running"

(* main calls Stop again when Stop has returned an error: that neither     *)
(* closes Node.stop twice nor calls a nil endpoint; a panic needs an admin *)
(* call that met Stop.  (Node.Stop, its check and reset of isRunning.)     *)
MainSurvives ==
    pc[Main] = "crashed" => raced

(* Stop ends the services without ending in a panic on the way.  (main,    *)
(* Node.Stop.)                                                             *)
StopSucceeds == StopTerminates /\ MainSurvives

(* A nodeInfo that says that the node is running lists its services,       *)
(* although it reads the two at different times.  (NodeInfo, Services.)    *)
InfoAgrees ==
    \A q \in Request :
        Len(info[q]) = 2 /\ info[q][2] => info[q][1] = Ranges(serviceFuncs)

(* A termination signal that got into the channel ends the process,        *)
(* however many SIGCHLD come before it and whatever fails on the way out,  *)
(* unless a service does not return from its Stop.  (The loop of main;     *)
(* Manager.Stop, which waits for Manager.mu.)                              *)
QuitEnds ==
    signals = "SIGTERM" ~> (Over \/ []StopHangs)

(* Every admin call returns or the process ends: api.mu and the read lock  *)
(* are always released, also by calls that panic.  Only a nodeInfo that    *)
(* asks for the read lock while a service does not return from its Stop,   *)
(* called under the lock, waits for ever.  (PrivateAdminAPI, Node.Stop.)   *)
RequestsReturn ==
    \A q \in Request :
        pc[q] \notin {"idle", "returned"} ~>
            (pc[q] = "returned" \/ Over \/ [](StopHangs /\ pc[q] = "info"))

=============================================================================

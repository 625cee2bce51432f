------------------------- MODULE NodeLifecycleProofs -------------------------
(***************************************************************************)
(* Proofs about NodeLifecycle, for every set of services, requests and     *)
(* addresses and any number of registrations: its types, and the safety    *)
(* properties its run checks with two services and two requests.           *)
(***************************************************************************)
EXTENDS NodeLifecycle, SequenceTheorems, TLAPS

-----------------------------------------------------------------------------
(* The invariant. *)

(* Where a goroutine is in StartWS or StopWS of the node. *)
WSStates ==
    {"listen", "setListener", "setHandler", "testListener", "close", "clearListener",
     "testHandler", "stopHandler", "clearHandler"}

InWS(g) == pc[g] \in WSStates

(* Where main is in Start once the HTTP endpoint serves. *)
Starting == {"listen", "setListener", "setHandler", "publish", "commit"}

(* Where main is in a Stop that found the node running. *)
Stopping ==
    {"testListener", "close", "clearListener", "testHandler", "stopHandler",
     "clearHandler", "stopHTTP", "stopServices", "finish"}

(* Main and the requests have states of their own. *)
Roles ==
    /\ pc[Main] \in Starting \cup Stopping \cup
          {"register", "services", "failed", "wait", "quit", "again", "exited", "crashed"}
    /\ \A q \in Request :
          pc[q] \in WSStates \cup
             {"idle", "lockStart", "lockStop", "info", "isRunning", "return", "returned"}
    /\ info = [q \in Request |-> info[q]]

(* What the fields of the node say about where main is. *)
Phases ==
    /\ isRunning => /\ stopChan = "open"
                    /\ pc[Main] \in Stopping \cup {"wait", "quit", "crashed"}
    /\ pc[Main] \in Stopping => isRunning
    /\ rpcAPIs => isRunning \/ pc[Main] = "commit"
    /\ http => isRunning \/ pc[Main] \in Starting
    /\ pc[Main] \in {"stopServices", "finish"} => ~http
    /\ stopChan = "closed" => pc[Main] \in {"again", "exited"}

NoneRunning == \A s \in Service : services[s] # "running"

(* Only what is registered is built, started and stopped; between Start    *)
(* and Stop all of it runs.                                                *)
Services ==
    /\ \A s \in Service : services[s] # "none" => s \in Ranges(serviceFuncs)
    /\ pc[Main] = "register" => \A s \in Service : services[s] = "none"
    /\ pc[Main] = "services" =>
          \A s \in Ranges(serviceFuncs) : services[s] \in {"built", "running"}
    /\ pc[Main] \in Starting \/ (isRunning /\ pc[Main] # "finish") => AllRunning
    /\ pc[Main] = "finish" \/ stopChan = "closed" => NoneRunning
    /\ AllOrNothing

(* The WebSocket endpoint is in the hands of one goroutine at a time: of   *)
(* the holder of api.mu or, unless an admin call met Start or Stop, of     *)
(* main.  No request comes in before the HTTP endpoint serves.             *)
Exclusive ==
    /\ \A q \in Request : InWS(q) => mu = q
    /\ pc[Main] \in {"register", "services"} =>
          /\ ~raced /\ apis = {}
          /\ \A q \in Request : pc[q] = "idle"
    /\ ~raced /\ Late => \A q \in Request : ~InWS(q)

(* Listener and handler are those of the one endpoint there is, or nil.    *)
Clean ==
    /\ wsListener = wsHandler
    /\ bound = {wsListener} \ {None}
    /\ serving = {wsHandler} \ {None}

(* What a goroutine in StartWS or StopWS has done to the two of them.      *)
Held(g) ==
    /\ pc[g] = "listen" => Clean /\ wsHandler = None
    /\ pc[g] = "setListener" =>
          wsListener = None /\ wsHandler = None /\ bound = {g} /\ serving = {g}
    /\ pc[g] = "setHandler" =>
          wsListener = g /\ wsHandler = None /\ bound = {g} /\ serving = {g}
    /\ pc[g] = "testListener" => Clean
    /\ pc[g] = "close" => Clean /\ wsListener # None
    /\ pc[g] = "clearListener" =>
          wsListener # None /\ wsHandler = wsListener /\ bound = {} /\ serving = {wsHandler}
    /\ pc[g] = "testHandler" =>
          wsListener = None /\ bound = {} /\ serving = {wsHandler} \ {None}
    /\ pc[g] = "stopHandler" =>
          wsListener = None /\ bound = {} /\ serving = {wsHandler} /\ wsHandler # None
    /\ pc[g] = "clearHandler" =>
          wsListener = None /\ bound = {} /\ serving = {} /\ wsHandler # None

(* Unless an admin call met Start or Stop, the fields are what their       *)
(* holder has made of them, and nil before Start and after StopWS of Stop. *)
Endpoints ==
    ~raced =>
        /\ \A g \in Goroutine : InWS(g) => Held(g)
        /\ (\A g \in Goroutine : ~InWS(g)) => Clean
        /\ \/ pc[Main] \in {"register", "services", "stopHTTP", "stopServices", "finish"}
           \/ stopChan = "closed"
           => Clean /\ wsHandler = None
        /\ apis # {} => isRunning \/ pc[Main] \in Starting
        /\ pc[Main] # "crashed"

(* What a request was told: once Start is over a node that does not run    *)
(* will not, and one that runs has all its services.                       *)
Told(q) ==
    /\ pc[Main] \notin Starting \cup {"register", "services"}
    /\ \E S \in SUBSET Service :
          \/ info[q] = <<S>> /\ (S = Ranges(serviceFuncs) \/ ~isRunning)
          \/ /\ pc[q] # "isRunning"
             /\ \E b \in BOOLEAN : info[q] = <<S, b>> /\ (b => S = Ranges(serviceFuncs))

Answers ==
    \A q \in Request :
        /\ pc[q] \in {"idle", "lockStart", "lockStop", "info"} \cup WSStates => info[q] = <<>>
        /\ (info[q] = <<>> /\ pc[q] # "isRunning") \/ Told(q)

IInv == TypeOK /\ Roles /\ Phases /\ Services /\ Exclusive /\ Endpoints /\ Answers

-----------------------------------------------------------------------------
(* Its parts hold at first and are kept by every step. *)

(* The initial state satisfies the invariant. *)
LEMMA InitIInv == Init => IInv
<1> SUFFICES ASSUME Init
             PROVE  IInv
  OBVIOUS
<1> USE NodeAssumption
<1>1. TypeOK
  <2>1. serviceFuncs \in Seq(Service) /\ Len(serviceFuncs) <= MaxRegister
    BY DEF Init
  <2>2. \A q \in Request : Len(info[q]) <= 2
    BY DEF Init
  <2> QED
    BY <2>1, <2>2 DEF Init, TypeOK, Goroutine
<1>2. Roles /\ Phases
  BY DEF Init, Roles, Phases, Goroutine, Starting, Stopping
<1>3. Services
  BY DEF Init, Services, AllOrNothing, NoneRunning, Starting, Goroutine
<1>4. Exclusive
  BY DEF Init, Exclusive, InWS, WSStates, Late, Locked, Goroutine
<1>5. Endpoints
  BY DEF Init, Endpoints, Clean, Held, InWS, WSStates, Starting, Goroutine
<1>6. Answers
  BY DEF Init, Answers, WSStates, Goroutine
<1> QED
  BY <1>1, <1>2, <1>3, <1>4, <1>5, <1>6 DEF IInv

(* A step in StartWS or StopWS of the node moves its goroutine on, within  *)
(* them or out of them, and leaves everything else but the endpoints as it *)
(* is; only a main that cannot listen takes the HTTP endpoint down.        *)
LEMMA WSMoves ==
    ASSUME TypeOK, Roles, NEW g \in Goroutine, WSStep(g)
    PROVE  /\ pc[g] \in WSStates
           /\ \A h \in Goroutine \ {g} : pc'[h] = pc[h]
           /\ g \in Request => pc'[g] \in WSStates \cup {"return"} /\ http' = http
           /\ g = Main =>
                 \/ pc[g] = "listen" /\ pc'[g] = "failed" /\ ~http'
                 \/ /\ pc[g] \in Starting /\ pc'[g] \in {"setListener", "setHandler", "publish"}
                    /\ http' = http
                 \/ /\ pc[g] \in Stopping /\ pc'[g] \in WSStates \cup {"stopHTTP", "crashed"}
                    /\ pc'[g] \notin Starting /\ http' = http
           /\ UNCHANGED <<serviceFuncs, services, isRunning, rpcAPIs, stopChan, failures,
                          address, defaultWS, mu, info, signals, raced>>
<1> USE NodeAssumption DEF Goroutine, Go, Panic, node, WSStates, Starting, Stopping
<1>1. CASE Listen(g)
  BY <1>1 DEF Listen, TypeOK
<1>2. CASE SetListener(g) \/ SetHandler(g)
  BY <1>2 DEF SetListener, SetHandler, TypeOK
<1>3. CASE TestListener(g) \/ CloseListener(g) \/ ClearListener(g)
  BY <1>3 DEF TestListener, CloseListener, ClearListener, TypeOK, ws
<1>4. CASE TestHandler(g)
  BY <1>4 DEF TestHandler, TypeOK, ws
<1>5. CASE StopHandler(g) \/ ClearHandler(g)
  BY <1>5 DEF StopHandler, ClearHandler, TypeOK, ws
<1> QED
  BY <1>1, <1>2, <1>3, <1>4, <1>5 DEF WSStep

(* Every step keeps the types. *)
LEMMA NextTypeOK == IInv /\ [Next]_vars => TypeOK'
<1> SUFFICES ASSUME IInv, [Next]_vars
             PROVE  TypeOK'
  OBVIOUS
<1> USE NodeAssumption DEF Goroutine, Go
<1>0. TypeOK /\ Roles
  BY DEF IInv
<1>1. ASSUME NEW s \in Service, Register(s)
      PROVE  TypeOK'
  <2>1. serviceFuncs' \in Seq(Service) /\ Len(serviceFuncs') <= MaxRegister
    BY <1>0, <1>1 DEF Register, TypeOK
  <2> QED
    BY <1>0, <1>1, <2>1 DEF Register, TypeOK, ws
<1>2. CASE Construct
  <2>1. failures = {}
    BY <1>0, <1>2 DEF Construct, TypeOK, IInv, Services
  <2> QED
    BY <1>0, <1>2, <2>1 DEF Construct, TypeOK, ws
<1>3. CASE StartService
  BY <1>0, <1>3 DEF StartService, StartedStopped, TypeOK, ws
<1>4. CASE StartHTTP \/ Publish \/ Commit
  <2>1. CASE StartHTTP
    <3>1. http' \in BOOLEAN /\ \E to \in {"listen", "failed"} : Go(Main, to)
      BY <1>0, <2>1 DEF StartHTTP, TypeOK
    <3> QED
      BY <1>0, <2>1, <3>1 DEF StartHTTP, TypeOK, ws
  <2>2. CASE Publish
    BY <1>0, <2>2 DEF Publish, TypeOK, ws
  <2>3. CASE Commit
    BY <1>0, <2>3 DEF Commit, TypeOK, ws
  <2> QED
    BY <1>4, <2>1, <2>2, <2>3
<1>5. CASE Receive \/ Stop
  <2>1. raced' \in BOOLEAN
    BY <1>0, <1>5 DEF Receive, Stop, TypeOK
  <2>2. CASE Receive
    BY <1>0, <2>1, <2>2 DEF Receive, StaysAfter, TypeOK, ws, node
  <2>3. CASE Stop
    BY <1>0, <2>1, <2>3 DEF Stop, FirstOfStop, TypeOK, ws, node
  <2> QED
    BY <1>5, <2>2, <2>3
<1>6. CASE StopHTTP \/ Finish
  <2>1. CASE StopHTTP
    BY <1>0, <2>1 DEF StopHTTP, TypeOK, ws
  <2>2. CASE Finish
    BY <1>0, <2>2 DEF Finish, RunningAfterStop, TypeOK, ws
  <2> QED
    BY <1>6, <2>1, <2>2
<1>7. CASE StopServices
  <2>1. /\ services' = StartedStopped /\ failures' \subseteq Stoppable
        /\ pc' = [pc EXCEPT ![Main] = "finish"]
        /\ UNCHANGED <<serviceFuncs, isRunning, rpcAPIs, stopChan, http, ws, mu, info, signals,
                       raced>>
    BY <1>7 DEF StopServices
  <2>2. services' \in [Service -> {"none", "built", "running", "stopped"}]
    BY <1>0, <2>1 DEF StartedStopped, TypeOK
  <2>3. failures' \subseteq {s \in Service : services'[s] = "stopped"}
    BY <2>1 DEF StartedStopped, Stoppable
  <2> QED
    BY <1>0, <2>1, <2>2, <2>3 DEF TypeOK, ws
<1>8. ASSUME NEW g \in Goroutine, WSStep(g)
      PROVE  TypeOK'
  <2>1. /\ UNCHANGED <<serviceFuncs, services, isRunning, rpcAPIs, stopChan, failures,
                       address, defaultWS, mu, info, signals, raced>>
    BY <1>0, <1>8, WSMoves
  <2>2. pc' \in [Goroutine -> {"register", "services", "failed", "listen", "setListener",
                "setHandler", "publish", "commit", "wait", "quit", "again", "testListener",
                "close", "clearListener", "testHandler", "stopHandler", "clearHandler",
                "stopHTTP", "stopServices", "finish", "exited", "crashed", "idle",
                "lockStart", "lockStop", "info", "isRunning", "return", "returned"}]
    BY <1>0, <1>8 DEF WSStep, Listen, SetListener, SetHandler, TestListener, CloseListener,
       ClearListener, TestHandler, StopHandler, ClearHandler, Panic, TypeOK
  <2>3. /\ http' \in BOOLEAN
        /\ wsListener' \in Goroutine \cup {None} /\ wsHandler' \in Goroutine \cup {None}
        /\ bound' \subseteq Goroutine /\ serving' \subseteq Goroutine /\ apis' \subseteq serving'
    BY <1>0, <1>8 DEF WSStep, Listen, SetListener, SetHandler, TestListener, CloseListener,
       ClearListener, TestHandler, StopHandler, ClearHandler, TypeOK, ws, node
  <2> QED
    BY <1>0, <2>1, <2>2, <2>3 DEF TypeOK
<1>9. ASSUME NEW s \in {"SIGCHLD", "SIGTERM"}, Signal(s)
      PROVE  TypeOK'
  BY <1>0, <1>9 DEF Signal, TypeOK, ws, node
<1>10. ASSUME NEW q \in Request, Arrive(q)
       PROVE  TypeOK'
  BY <1>0, <1>10 DEF Arrive, TypeOK, ws, node
<1>11. ASSUME NEW q \in Request, NEW host \in Address \cup {None}, AdminStartWS(q, host)
       PROVE  TypeOK'
  <2>1. (IF host = None THEN defaultWS ELSE host) \in Address
    BY <1>0 DEF TypeOK
  <2>2. address' \in [Goroutine -> Address] /\ defaultWS' \in Address
    BY <1>0, <1>11, <2>1 DEF AdminStartWS, TypeOK
  <2>3. raced' \in BOOLEAN
    BY <1>0, <1>11 DEF AdminStartWS, TypeOK, Late, Locked
  <2> QED
    BY <1>0, <1>11, <2>2, <2>3 DEF AdminStartWS, TypeOK, node
<1>12. ASSUME NEW q \in Request, AdminStopWS(q)
       PROVE  TypeOK'
  <2>1. raced' \in BOOLEAN
    BY <1>0, <1>12 DEF AdminStopWS, TypeOK, Late, Locked
  <2> QED
    BY <1>0, <1>12, <2>1 DEF AdminStopWS, TypeOK, ws, node
<1>13. ASSUME NEW q \in Request, InfoServices(q) \/ InfoRunning(q)
       PROVE  TypeOK'
  <2>1. ASSUME NEW p \in Request
        PROVE  Len(info'[p]) <= 2
    <3>1. CASE InfoServices(q)
      BY <1>0, <3>1 DEF InfoServices, TypeOK, Roles
    <3>2. CASE InfoRunning(q)
      <4>1. PICK S \in SUBSET Service : info[q] = <<S>>
        BY <3>2 DEF InfoRunning, IInv, Answers, Told
      <4>2. /\ info'[q] = Append(<<S>>, isRunning)
            /\ \A x \in Request \ {q} : info'[x] = info[x]
        BY <1>0, <3>2, <4>1 DEF InfoRunning, Roles
      <4>3. Len(Append(<<S>>, isRunning)) = 2
        OBVIOUS
      <4> QED
        <5>1. Len(info'[q]) = 2
          BY <4>2, <4>3
        <5>2. \A x \in Request \ {q} : Len(info'[x]) <= 2
          BY <1>0, <4>2 DEF TypeOK
        <5>3. CASE p = q
          <6>1. Len(info'[p]) = 2
            BY <5>1, <5>3
          <6> QED
            BY <6>1
        <5>4. CASE p # q
          BY <5>2, <5>4
        <5> QED
          BY <5>3, <5>4
    <3> QED
      BY <1>13, <3>1, <3>2
  <2> QED
    BY <1>0, <1>13, <2>1 DEF InfoServices, InfoRunning, TypeOK, ws, node
<1>14. ASSUME NEW q \in Request, Return(q)
       PROVE  TypeOK'
  BY <1>0, <1>14 DEF Return, Unlocked, TypeOK, ws, node
<1>15. CASE UNCHANGED vars
  BY <1>0, <1>15 DEF vars, ws, node, TypeOK
<1> QED
  BY <1>1, <1>2, <1>3, <1>4, <1>5, <1>6, <1>7, <1>8, <1>9, <1>10, <1>11, <1>12, <1>13, <1>14,
     <1>15 DEF Next, MainStep, RequestStep

(* Every step keeps main and the requests in the states of their own. *)
LEMMA NextRoles == IInv /\ [Next]_vars => Roles'
<1> SUFFICES ASSUME IInv, [Next]_vars
             PROVE  Roles'
  OBVIOUS
<1> USE NodeAssumption DEF Goroutine, Go, Starting, Stopping, WSStates
<1>0. TypeOK /\ Roles
  BY DEF IInv
<1>1. CASE \/ \E s \in Service : Register(s)
           \/ Construct \/ StartService \/ StartHTTP \/ Publish \/ Commit
  BY <1>0, <1>1 DEF Register, Construct, StartService, StartHTTP, Publish, Commit, TypeOK, Roles
<1>2. CASE Receive \/ Stop \/ StopHTTP \/ StopServices \/ Finish
  <2>1. CASE Receive
    BY <1>0, <2>1 DEF Receive, TypeOK, Roles
  <2>2. CASE Stop
    BY <1>0, <2>2 DEF Stop, FirstOfStop, TypeOK, Roles
  <2>3. CASE StopHTTP \/ StopServices
    BY <1>0, <2>3 DEF StopHTTP, StopServices, TypeOK, Roles
  <2>4. CASE Finish
    BY <1>0, <2>4 DEF Finish, TypeOK, Roles
  <2> QED
    BY <1>2, <2>1, <2>2, <2>3, <2>4
<1>3. ASSUME NEW g \in Goroutine, WSStep(g)
      PROVE  Roles'
  BY <1>0, <1>3, WSMoves DEF Roles
<1>4. ASSUME NEW s \in {"SIGCHLD", "SIGTERM"}, Signal(s)
      PROVE  Roles'
  BY <1>0, <1>4 DEF Signal, Roles
<1>5. ASSUME NEW q \in Request,
             Arrive(q) \/ (\E host \in Address \cup {None} : AdminStartWS(q, host))
             \/ AdminStopWS(q) \/ InfoServices(q) \/ InfoRunning(q) \/ Return(q)
      PROVE  Roles'
  <2>1. /\ pc'[q] \in {"lockStart", "lockStop", "info", "isRunning", "return", "returned",
                       "listen", "testListener"}
        /\ \A h \in Goroutine \ {q} : pc'[h] = pc[h]
    BY <1>0, <1>5 DEF Arrive, AdminStartWS, AdminStopWS, InfoServices, InfoRunning, Return, TypeOK
  <2>2. info' = [x \in Request |-> info'[x]]
    BY <1>0, <1>5 DEF Arrive, AdminStartWS, AdminStopWS, InfoServices, InfoRunning, Return, Roles
  <2> QED
    BY <1>0, <2>1, <2>2 DEF Roles
<1>6. CASE UNCHANGED vars
  BY <1>0, <1>6 DEF vars, Roles
<1> QED
  BY <1>1, <1>2, <1>3, <1>4, <1>5, <1>6 DEF Next, MainStep, RequestStep

(* What a request does outside StartWS and StopWS of the node.             *)
LEMMA RequestMoves ==
    ASSUME TypeOK, NEW q \in Request,
           Arrive(q) \/ (\E host \in Address \cup {None} : AdminStartWS(q, host))
           \/ AdminStopWS(q) \/ InfoServices(q) \/ InfoRunning(q) \/ Return(q)
    PROVE  /\ pc'[Main] = pc[Main] /\ \A g \in Goroutine \ {q} : pc'[g] = pc[g]
           /\ pc[q] \in {"idle", "lockStart", "lockStop", "info", "isRunning", "return"}
           /\ UNCHANGED <<serviceFuncs, services, isRunning, rpcAPIs, stopChan, http, failures,
                          wsListener, wsHandler, bound, serving, apis>>
  BY NodeAssumption DEF Goroutine, Go, Arrive, AdminStartWS, AdminStopWS, InfoServices,
     InfoRunning, Return, TypeOK, ws, node

(* Every step keeps what the fields say about where main is. *)
LEMMA NextPhases == IInv /\ [Next]_vars => Phases'
<1> SUFFICES ASSUME IInv, [Next]_vars
             PROVE  Phases'
  OBVIOUS
<1> USE NodeAssumption DEF Goroutine, Go, Starting, Stopping, WSStates
<1>0. TypeOK /\ Roles /\ Phases
  BY DEF IInv
<1>1. CASE \/ \E s \in Service : Register(s)
           \/ Construct \/ StartService \/ StartHTTP \/ Publish \/ Commit
  BY <1>0, <1>1 DEF Register, Construct, StartService, StartHTTP, Publish, Commit, TypeOK, Phases
<1>2. CASE Receive \/ Stop
  BY <1>0, <1>2 DEF Receive, Stop, FirstOfStop, TypeOK, Phases, node
<1>3. CASE StopHTTP \/ StopServices
  BY <1>0, <1>3 DEF StopHTTP, StopServices, TypeOK, Phases
<1>4. CASE Finish
  BY <1>0, <1>4 DEF Finish, RunningAfterStop, TypeOK, Phases
<1>5. ASSUME NEW g \in Goroutine, WSStep(g)
      PROVE  Phases'
  <2>1. CASE g = Main
    BY <1>0, <1>5, <2>1, WSMoves DEF Phases
  <2>2. CASE g \in Request
    <3>1. pc'[Main] = pc[Main] /\ UNCHANGED <<isRunning, rpcAPIs, stopChan, http>>
      BY <1>0, <1>5, <2>2, WSMoves
    <3> QED
      BY <1>0, <3>1 DEF Phases
  <2> QED
    BY <2>1, <2>2
<1>6. ASSUME NEW s \in {"SIGCHLD", "SIGTERM"}, Signal(s)
      PROVE  Phases'
  BY <1>0, <1>6 DEF Signal, Phases, node
<1>7. ASSUME NEW q \in Request,
             Arrive(q) \/ (\E host \in Address \cup {None} : AdminStartWS(q, host))
             \/ AdminStopWS(q) \/ InfoServices(q) \/ InfoRunning(q) \/ Return(q)
      PROVE  Phases'
  BY <1>0, <1>7, RequestMoves DEF Phases
<1>8. CASE UNCHANGED vars
  BY <1>0, <1>8 DEF vars, node, Phases
<1> QED
  BY <1>1, <1>2, <1>3, <1>4, <1>5, <1>6, <1>7, <1>8 DEF Next, MainStep, RequestStep

(* Every step keeps what is known of the services. *)
LEMMA NextServices == IInv /\ [Next]_vars => Services'
<1> SUFFICES ASSUME IInv, [Next]_vars
             PROVE  Services'
  OBVIOUS
<1> USE NodeAssumption DEF Goroutine, Go, Starting, Stopping, WSStates
<1>0. /\ TypeOK /\ Roles /\ Phases /\ Services
      /\ Ranges(serviceFuncs) \subseteq Service
  BY DEF IInv, TypeOK, Ranges
<1>1. ASSUME NEW s \in Service, Register(s)
      PROVE  Services'
  BY <1>0, <1>1 DEF Register, Services, NoneRunning, AllOrNothing
<1>2. CASE Construct
  <2>1. \A s \in Service : services[s] = "none"
    BY <1>0, <1>2 DEF Construct, Services
  <2>2. CASE pc'[Main] = "failed"
    BY <1>0, <1>2, <2>1, <2>2 DEF Construct, TypeOK, Services, NoneRunning, AllOrNothing
  <2>3. CASE pc'[Main] = "services"
    <3>1. services' = [s \in Service |-> IF s \in Ranges(serviceFuncs) THEN "built" ELSE services[s]]
      BY <1>0, <1>2, <2>3 DEF Construct, TypeOK
    <3>2. ~isRunning' /\ serviceFuncs' = serviceFuncs /\ stopChan' = stopChan
      BY <1>2 DEF Construct
    <3> QED
      BY <1>0, <2>1, <2>3, <3>1, <3>2 DEF Services, NoneRunning, AllOrNothing, Ranges
  <2> QED
    BY <1>0, <1>2, <2>2, <2>3 DEF Construct, TypeOK
<1>3. CASE StartService
  <2>1. /\ pc[Main] = "services" /\ ~isRunning /\ stopChan = "open"
        /\ UNCHANGED <<serviceFuncs, isRunning, stopChan>>
    BY <1>0, <1>3 DEF StartService, Phases, TypeOK
  <2>2. PICK s \in Service :
          /\ services[s] = "built"
          /\ \/ services' = [services EXCEPT ![s] = "running"] /\ UNCHANGED pc
             \/ services' = StartedStopped /\ Go(Main, "failed")
    BY <1>3 DEF StartService
  <2>3. CASE services' = [services EXCEPT ![s] = "running"] /\ UNCHANGED pc
    BY <1>0, <2>1, <2>2, <2>3 DEF Services, TypeOK, NoneRunning, AllOrNothing, Ranges
  <2>4. CASE services' = StartedStopped /\ Go(Main, "failed")
    BY <1>0, <2>1, <2>4 DEF Services, TypeOK, StartedStopped, NoneRunning, AllOrNothing, Ranges
  <2> QED
    BY <2>2, <2>3, <2>4
<1>4. CASE StartHTTP
  <2>1. AllRunning
    BY <1>0, <1>4 DEF StartHTTP, Services, AllRunning
  <2>2. UNCHANGED <<serviceFuncs, services, isRunning, stopChan>> /\ pc'[Main] \in {"listen", "failed"}
    BY <1>0, <1>4 DEF StartHTTP, TypeOK
  <2> QED
    BY <1>0, <2>1, <2>2 DEF Services, AllRunning, NoneRunning, AllOrNothing
<1>5. ASSUME UNCHANGED <<serviceFuncs, services, isRunning, stopChan>>,
             pc[Main] \notin {"register", "services"},
             pc'[Main] \notin {"register", "services", "finish"},
             pc'[Main] \in Starting => pc[Main] \in Starting,
             pc[Main] # "finish"
      PROVE  Services'
  BY <1>0, <1>5 DEF Services, AllRunning, NoneRunning, AllOrNothing
<1>6. CASE Publish \/ Receive \/ Stop \/ StopHTTP
  BY <1>0, <1>5, <1>6 DEF Publish, Receive, Stop, FirstOfStop, StopHTTP, TypeOK, node
<1>7. CASE Commit
  BY <1>0, <1>7 DEF Commit, TypeOK, Services, AllRunning, NoneRunning, AllOrNothing
<1>8. CASE StopServices
  BY <1>0, <1>8 DEF StopServices, StartedStopped, TypeOK, Phases, Services, AllRunning,
     NoneRunning, AllOrNothing
<1>9. CASE Finish
  BY <1>0, <1>9 DEF Finish, RunningAfterStop, TypeOK, Services, NoneRunning, AllOrNothing
<1>10. ASSUME NEW g \in Goroutine, WSStep(g)
       PROVE  Services'
  <2>1. CASE g = Main
    BY <1>0, <1>5, <1>10, <2>1, WSMoves
  <2>2. CASE g \in Request
    <3>1. pc'[Main] = pc[Main] /\ UNCHANGED <<serviceFuncs, services, isRunning, stopChan>>
      BY <1>0, <1>10, <2>2, WSMoves
    <3> QED
      BY <1>0, <3>1 DEF Services, AllRunning, NoneRunning, AllOrNothing
  <2> QED
    BY <2>1, <2>2
<1>11. ASSUME NEW q \in Request,
             Arrive(q) \/ (\E host \in Address \cup {None} : AdminStartWS(q, host))
             \/ AdminStopWS(q) \/ InfoServices(q) \/ InfoRunning(q) \/ Return(q)
       PROVE  Services'
  BY <1>0, <1>11, RequestMoves DEF Services, AllRunning, NoneRunning, AllOrNothing
<1>12. CASE UNCHANGED vars \/ \E s \in {"SIGCHLD", "SIGTERM"} : Signal(s)
  BY <1>0, <1>12 DEF vars, node, Signal, Services, AllRunning, NoneRunning, AllOrNothing
<1> QED
  BY <1>1, <1>2, <1>3, <1>4, <1>6, <1>7, <1>8, <1>9, <1>10, <1>11, <1>12
     DEF Next, MainStep, RequestStep

(* Every step keeps the endpoint in the hands of one.                      *)
LEMMA NextExclusive == IInv /\ [Next]_vars => Exclusive'
<1> SUFFICES ASSUME IInv, [Next]_vars
             PROVE  Exclusive'
  OBVIOUS
<1> USE NodeAssumption DEF Goroutine, Go, InWS
<1>0. TypeOK /\ Roles /\ Phases /\ Exclusive
  BY DEF IInv
<1>1. CASE \E s \in Service : Register(s)
  BY <1>0, <1>1 DEF Register, ws, Exclusive, Late, Locked
<1>2. CASE Construct \/ StartService \/ StartHTTP
  <2>1. /\ pc[Main] \in {"register", "services"}
        /\ \A q \in Request : pc'[q] = pc[q]
        /\ UNCHANGED <<apis, mu, raced>>
    BY <1>0, <1>2 DEF Construct, StartService, StartHTTP, TypeOK, ws
  <2> QED
    BY <1>0, <2>1 DEF Exclusive, WSStates
<1>3. CASE Publish \/ Commit \/ Receive \/ StopHTTP \/ StopServices
  <2>1. /\ \A q \in Request : pc'[q] = pc[q]
        /\ pc'[Main] \notin {"register", "services"} /\ (Late' => Late)
        /\ UNCHANGED <<mu, raced>>
    BY <1>0, <1>3 DEF Publish, Commit, Receive, StopHTTP, StopServices, TypeOK, Late, Locked, node
  <2> QED
    BY <1>0, <2>1 DEF Exclusive
<1>4. CASE Finish
  <2>1. /\ \A q \in Request : pc'[q] = pc[q]
        /\ pc'[Main] \notin {"register", "services"} /\ Late
        /\ UNCHANGED <<mu, raced>>
    BY <1>0, <1>4 DEF Finish, TypeOK, Late, Locked
  <2> QED
    BY <1>0, <2>1 DEF Exclusive
<1>5. CASE Stop
  <2>1. /\ \A q \in Request : pc'[q] = pc[q]
        /\ pc'[Main] \notin {"register", "services"}
        /\ mu' = mu /\ stopChan' = stopChan
    BY <1>0, <1>5 DEF Stop, FirstOfStop, TypeOK, node
  <2>2. raced' = (raced \/ (isRunning /\ \E q \in Request : Critical(q)))
    BY <1>5 DEF Stop
  <2>3. ASSUME ~raced', Late', NEW q \in Request, InWS(q)
        PROVE  FALSE
    <3>1. CASE isRunning
      BY <1>0, <2>2, <2>3, <3>1 DEF Exclusive, Critical, WSStates
    <3>2. CASE ~isRunning
      BY <1>0, <1>5, <2>1, <2>2, <2>3, <3>2 DEF Stop, Exclusive, Late, Locked, TypeOK
    <3> QED
      BY <3>1, <3>2
  <2> QED
    BY <1>0, <2>1, <2>3 DEF Exclusive
<1>6. ASSUME NEW g \in Goroutine, WSStep(g)
      PROVE  Exclusive'
  <2>1. pc[g] \in WSStates /\ pc[Main] \notin {"register", "services"}
    BY <1>0, <1>6, WSMoves DEF Exclusive, WSStates
  <2>2. \A h \in Request : InWS(h)' => InWS(h)
    BY <1>0, <1>6, <2>1, WSMoves
  <2>3. UNCHANGED <<mu, raced, stopChan>>
    BY <1>0, <1>6, WSMoves
  <2>4. pc'[Main] \notin {"register", "services"} /\ (Late' => Late)
    BY <1>0, <1>6, <2>1, <2>3, WSMoves DEF Late, Locked, Starting, Stopping, WSStates
  <2> QED
    BY <1>0, <2>2, <2>3, <2>4 DEF Exclusive
<1>7. ASSUME NEW q \in Request, Arrive(q)
      PROVE  Exclusive'
  <2>1. pc[Main] \notin {"register", "services"}
    BY <1>0, <1>7 DEF Arrive, Exclusive, Phases, Starting, Stopping
  <2>2. /\ pc'[Main] = pc[Main]
        /\ \A h \in Request : InWS(h)' => InWS(h)
        /\ UNCHANGED <<mu, raced, stopChan>>
    BY <1>0, <1>7 DEF Arrive, TypeOK, WSStates, node
  <2> QED
    BY <1>0, <2>1, <2>2 DEF Exclusive, Late, Locked
<1>8. ASSUME NEW q \in Request,
             AdminStopWS(q) \/ \E host \in Address \cup {None} : AdminStartWS(q, host)
      PROVE  Exclusive'
  <2>1. /\ pc[q] \in {"lockStart", "lockStop"} /\ mu = None /\ mu' = q
        /\ pc'[q] \in WSStates \cup {"return"} /\ stopChan' = stopChan
        /\ pc'[q] \in WSStates => raced' = (raced \/ Late)
        /\ pc'[q] = "return" => raced' = raced
        /\ \A h \in Goroutine \ {q} : pc'[h] = pc[h]
    BY <1>0, <1>8 DEF AdminStopWS, AdminStartWS, TypeOK, WSStates, node
  <2>2. pc[Main] \notin {"register", "services"} /\ pc'[Main] = pc[Main]
    BY <1>0, <2>1 DEF Exclusive
  <2>3. Late' = Late
    BY <2>1, <2>2 DEF Late, Locked
  <2>4. \A h \in Request : ~InWS(h)
    BY <1>0, <2>1 DEF Exclusive
  <2> QED
    BY <1>0, <2>1, <2>2, <2>3, <2>4 DEF Exclusive, WSStates
<1>9. ASSUME NEW q \in Request, InfoServices(q) \/ InfoRunning(q) \/ Return(q)
      PROVE  Exclusive'
  <2>1. pc[Main] \notin {"register", "services"}
    BY <1>0, <1>9 DEF InfoServices, InfoRunning, Return, Exclusive
  <2>2. /\ pc'[Main] = pc[Main] /\ UNCHANGED <<raced, stopChan>>
        /\ \A h \in Request : InWS(h)' => InWS(h)
    BY <1>0, <1>9 DEF InfoServices, InfoRunning, Return, TypeOK, WSStates, node
  <2>3. \A h \in Request : InWS(h)' => InWS(h) /\ mu' = mu
    BY <1>0, <1>9, <2>2 DEF InfoServices, InfoRunning, Return, Unlocked, Exclusive, TypeOK, WSStates
  <2> QED
    BY <1>0, <2>1, <2>2, <2>3 DEF Exclusive, Late, Locked
<1>10. CASE UNCHANGED vars \/ \E s \in {"SIGCHLD", "SIGTERM"} : Signal(s)
  BY <1>0, <1>10 DEF vars, ws, node, Signal, Exclusive, Late, Locked
<1> QED
  BY <1>1, <1>2, <1>3, <1>4, <1>5, <1>6, <1>7, <1>8, <1>9, <1>10
     DEF Next, MainStep, RequestStep

(* Unless an admin call met Start or Stop, one goroutine at most is in     *)
(* StartWS or StopWS of the node.                                          *)
LEMMA OneInWS ==
    ASSUME IInv, ~raced, NEW g \in Goroutine, NEW h \in Goroutine, InWS(g), InWS(h)
    PROVE  g = h
<1>1. ASSUME NEW q \in Request, InWS(q)
      PROVE  ~InWS(Main) /\ mu = q
  <2>1. InWS(Main) => Late
    BY DEF InWS, WSStates, Late, Locked
  <2> QED
    BY <1>1, <2>1 DEF IInv, Exclusive
<1> QED
  BY <1>1 DEF Goroutine

(* Where main is before the HTTP endpoint serves and after StopWS.         *)
Outside == pc[Main] \in {"register", "services", "stopHTTP", "stopServices", "finish"}
           \/ stopChan = "closed"

(* A step that touches neither the endpoints nor a goroutine in StartWS or *)
(* StopWS keeps the fields what they are.                                  *)
LEMMA EndpointsUntouched ==
    ASSUME IInv,
           UNCHANGED <<wsListener, wsHandler, bound, serving, apis>>, raced => raced',
           \A g \in Goroutine : InWS(g) \/ InWS(g)' => pc'[g] = pc[g],
           Outside' => Outside,
           isRunning \/ pc[Main] \in Starting
              => isRunning' \/ pc'[Main] \in Starting \/ apis = {} \/ raced',
           pc'[Main] = "crashed" => pc[Main] = "crashed"
    PROVE  Endpoints'
<1> SUFFICES ASSUME ~raced'
             PROVE  Endpoints'
  BY DEF Endpoints
<1>1. Endpoints /\ ~raced
  BY DEF IInv
<1>2. ASSUME NEW g \in Goroutine, InWS(g)'
      PROVE  Held(g)'
  BY <1>1, <1>2 DEF Endpoints, Held, Clean, InWS
<1>3. ASSUME \A g \in Goroutine : ~InWS(g)'
      PROVE  Clean'
  BY <1>1, <1>3 DEF Endpoints, Clean, InWS
<1>4. Outside' => Clean' /\ wsHandler' = None
  BY <1>1 DEF Endpoints, Outside, Clean
<1>5. apis' # {} => isRunning' \/ pc'[Main] \in Starting
  BY <1>1 DEF Endpoints
<1> QED
  BY <1>1, <1>2, <1>3, <1>4, <1>5 DEF Endpoints, Outside

(* What a goroutine in StartWS or StopWS leaves in the fields when it has  *)
(* them to itself: what the next step finds, or a clean pair.              *)
LEMMA HeldKept ==
    ASSUME IInv, ~raced, NEW g \in Goroutine, WSStep(g)
    PROVE  /\ InWS(g)' => Held(g)'
           /\ ~InWS(g)' => Clean'
           /\ g = Main /\ pc'[Main] = "stopHTTP" => wsHandler' = None
           /\ g = Main /\ pc'[Main] = "failed" => serving' = {}
           /\ pc'[g] # "crashed"
           /\ apis' \subseteq apis \/ (pc'[g] = "setListener" /\ HasAPIs(g))
<1> USE NodeAssumption DEF Goroutine, Go, Panic, WSStates, InWS, node
<1>0. TypeOK /\ Held(g) /\ g # None
  BY WSMoves DEF IInv, Endpoints
<1>1. CASE Listen(g)
  <2>1. Clean /\ wsHandler = None
    BY <1>0, <1>1 DEF Listen, Held
  <2>2. UNCHANGED <<wsListener, wsHandler>>
    BY <1>1 DEF Listen
  <2>3. \/ /\ pc'[g] = "setListener" /\ bound' = bound \cup {g} /\ serving' = serving \cup {g}
           /\ apis' = IF HasAPIs(g) THEN apis \cup {g} ELSE apis
        \/ /\ pc'[g] = (IF g = Main THEN "failed" ELSE "return")
           /\ UNCHANGED <<bound, serving, apis>>
    BY <1>0, <1>1 DEF Listen, TypeOK
  <2>4. CASE pc'[g] = "setListener"
    <3>1. bound' = {g} /\ serving' = {g} /\ wsListener' = None /\ wsHandler' = None
      BY <2>1, <2>2, <2>3, <2>4 DEF Clean
    <3> QED
      BY <2>3, <2>4, <3>1 DEF Held
  <2>5. CASE pc'[g] # "setListener"
    <3>1. Clean' /\ serving' = {} /\ apis' = apis /\ pc'[g] \in {"failed", "return"}
      BY <2>1, <2>2, <2>3, <2>5 DEF Clean
    <3> QED
      BY <3>1
  <2> QED
    BY <2>4, <2>5
<1>2. CASE SetListener(g)
  <2>1. /\ pc[g] = "setListener" /\ pc'[g] = "setHandler" /\ wsListener' = g
        /\ UNCHANGED <<wsHandler, bound, serving, apis>>
    BY <1>0, <1>2 DEF SetListener, TypeOK
  <2> QED
    BY <1>0, <2>1 DEF Held
<1>3. CASE SetHandler(g)
  <2>1. /\ pc[g] = "setHandler" /\ pc'[g] \in {"publish", "return"} /\ wsHandler' = g
        /\ UNCHANGED <<wsListener, bound, serving, apis>>
    BY <1>0, <1>3 DEF SetHandler, TypeOK
  <2>2. Clean'
    BY <1>0, <2>1 DEF Held, Clean
  <2> QED
    BY <2>1, <2>2
<1>4. CASE TestListener(g)
  <2>1. /\ pc[g] = "testListener"
        /\ pc'[g] = (IF wsListener = None THEN "testHandler" ELSE "close")
        /\ UNCHANGED <<wsListener, wsHandler, bound, serving, apis>>
    BY <1>0, <1>4 DEF TestListener, TypeOK, ws
  <2>2. Clean
    BY <1>0, <2>1 DEF Held
  <2> QED
    BY <2>1, <2>2 DEF Held, Clean
<1>5. CASE CloseListener(g)
  <2>1. /\ pc[g] = "close" /\ (wsListener # None => pc'[g] = "clearListener")
        /\ bound' = bound \ {wsListener}
        /\ UNCHANGED <<wsListener, wsHandler, serving, apis>>
    BY <1>0, <1>5 DEF CloseListener, TypeOK
  <2>2. Clean /\ wsListener # None
    BY <1>0, <1>5 DEF CloseListener, Held
  <2> QED
    BY <2>1, <2>2 DEF Held, Clean
<1>6. CASE ClearListener(g)
  <2>1. /\ pc[g] = "clearListener" /\ pc'[g] = "testHandler" /\ wsListener' = None
        /\ UNCHANGED <<wsHandler, bound, serving, apis>>
    BY <1>0, <1>6 DEF ClearListener, TypeOK
  <2>2. wsListener # None /\ wsHandler = wsListener /\ bound = {} /\ serving = {wsHandler}
    BY <1>0, <2>1 DEF Held
  <2> QED
    BY <2>1, <2>2 DEF Held
<1>7. CASE TestHandler(g)
  <2>1. /\ pc[g] = "testHandler"
        /\ wsHandler # None => pc'[g] = "stopHandler"
        /\ wsHandler = None => pc'[g] \in {"stopHTTP", "return"}
        /\ UNCHANGED <<wsListener, wsHandler, bound, serving, apis>>
    BY <1>0, <1>7 DEF TestHandler, TypeOK, ws
  <2>2. wsListener = None /\ bound = {} /\ serving = {wsHandler} \ {None}
    BY <1>0, <2>1 DEF Held
  <2> QED
    BY <2>1, <2>2 DEF Held, Clean
<1>8. CASE StopHandler(g)
  <2>1. /\ pc[g] = "stopHandler" /\ (wsHandler # None => pc'[g] = "clearHandler")
        /\ serving' = serving \ {wsHandler} /\ apis' = apis \ {wsHandler}
        /\ UNCHANGED <<wsListener, wsHandler, bound>>
    BY <1>0, <1>8 DEF StopHandler, TypeOK
  <2>2. wsListener = None /\ bound = {} /\ serving = {wsHandler} /\ wsHandler # None
    BY <1>0, <2>1 DEF Held
  <2> QED
    BY <2>1, <2>2 DEF Held
<1>9. CASE ClearHandler(g)
  <2>1. /\ pc[g] = "clearHandler" /\ pc'[g] \in {"stopHTTP", "return"} /\ wsHandler' = None
        /\ UNCHANGED <<wsListener, bound, serving, apis>>
    BY <1>0, <1>9 DEF ClearHandler, TypeOK
  <2>2. wsListener = None /\ bound = {} /\ serving = {}
    BY <1>0, <2>1 DEF Held
  <2>3. Clean'
    BY <2>1, <2>2 DEF Clean
  <2> QED
    BY <2>1, <2>2, <2>3
<1> QED
  BY <1>1, <1>2, <1>3, <1>4, <1>5, <1>6, <1>7, <1>8, <1>9 DEF WSStep

(* Every step keeps the fields what their holder makes of them. *)
LEMMA NextEndpoints == IInv /\ [Next]_vars => Endpoints'
<1> SUFFICES ASSUME IInv, [Next]_vars
             PROVE  Endpoints'
  OBVIOUS
<1> USE NodeAssumption DEF Goroutine, Go
<1>0. TypeOK /\ Roles /\ Phases /\ Services /\ Exclusive /\ Endpoints
  BY DEF IInv
<1>1. CASE \/ \E s \in Service : Register(s)
           \/ Construct \/ StartService \/ Publish \/ Commit \/ Receive
  <2>1. /\ UNCHANGED <<wsListener, wsHandler, bound, serving, apis, raced>>
        /\ \A g \in Request : pc'[g] = pc[g]
    BY <1>0, <1>1 DEF Register, Construct, StartService, Publish, Commit, Receive, TypeOK, ws
  <2>2. /\ ~InWS(Main) /\ ~InWS(Main)' /\ (Outside' => Outside)
        /\ isRunning \/ pc[Main] \in Starting => isRunning' \/ pc'[Main] \in Starting
        /\ pc'[Main] = "crashed" => pc[Main] = "crashed"
    BY <1>0, <1>1 DEF Register, Construct, StartService, Publish, Commit, Receive, TypeOK, Phases,
       InWS, WSStates, Outside, Starting, Stopping, node
  <2> QED
    BY <2>1, <2>2, EndpointsUntouched
<1>2. CASE StopHTTP \/ StopServices \/ Finish
  <2>1. /\ UNCHANGED <<wsListener, wsHandler, bound, serving, apis, raced>>
        /\ \A g \in Request : pc'[g] = pc[g]
    BY <1>0, <1>2 DEF StopHTTP, StopServices, Finish, TypeOK, ws
  <2>2. ~InWS(Main) /\ ~InWS(Main)' /\ Outside /\ pc'[Main] # "crashed"
    BY <1>0, <1>2 DEF StopHTTP, StopServices, Finish, TypeOK, Phases, InWS, WSStates, Outside, Stopping
  <2>3. apis = {} \/ raced
    BY <1>0, <2>2 DEF Endpoints, Outside, Clean, TypeOK
  <2> QED
    BY <2>1, <2>2, <2>3, EndpointsUntouched
<1>3. CASE StartHTTP
  <2>1. /\ UNCHANGED <<wsListener, wsHandler, bound, serving, apis, raced, stopChan, isRunning>>
        /\ \A g \in Request : pc'[g] = pc[g]
        /\ pc[Main] = "services" /\ pc'[Main] \in {"listen", "failed"}
    BY <1>0, <1>3 DEF StartHTTP, TypeOK, ws
  <2>2. ~raced /\ apis = {} /\ Clean /\ wsHandler = None
    BY <1>0, <2>1 DEF Exclusive, Endpoints
  <2>3. \A g \in Goroutine : InWS(g)' => g = Main /\ pc'[Main] = "listen"
    BY <1>0, <2>1 DEF Exclusive, InWS, WSStates
  <2>4. Clean' /\ wsHandler' = None /\ apis' = {}
    BY <2>1, <2>2 DEF Clean
  <2>5. \A g \in Goroutine : InWS(g)' => Held(g)'
    BY <2>3, <2>4 DEF Held
  <2> QED
    BY <2>1, <2>4, <2>5 DEF Endpoints
<1>4. CASE Stop
  <2>1. /\ UNCHANGED <<wsListener, wsHandler, bound, serving, apis, stopChan, isRunning>>
        /\ \A g \in Request : pc'[g] = pc[g]
        /\ pc[Main] \in {"failed", "quit", "again"}
        /\ raced' = (raced \/ (isRunning /\ \E q \in Request : Critical(q)))
        /\ isRunning => pc'[Main] = "testListener"
        /\ ~isRunning => pc'[Main] \in {"wait", "again", "exited"}
    BY <1>0, <1>4 DEF Stop, FirstOfStop, TypeOK, ws, node
  <2>2. CASE ~isRunning
    <3>1. /\ ~InWS(Main) /\ ~InWS(Main)' /\ (Outside' => Outside) /\ pc[Main] \notin Starting
          /\ pc'[Main] # "crashed"
      BY <2>1, <2>2 DEF InWS, WSStates, Outside, Starting
    <3> QED
      BY <2>1, <2>2, <3>1, EndpointsUntouched
  <2>3. CASE isRunning
    <3> SUFFICES ASSUME ~raced'
                 PROVE  Endpoints'
      BY DEF Endpoints
    <3>1. \A g \in Goroutine : ~InWS(g)
      BY <1>0, <2>1, <2>3 DEF Exclusive, Critical, InWS, WSStates
    <3>2. Clean
      BY <1>0, <2>1, <3>1 DEF Endpoints
    <3>3. Clean'
      BY <2>1, <3>2 DEF Clean
    <3>4. \A g \in Goroutine : InWS(g)' => g = Main
      BY <2>1, <3>1 DEF InWS
    <3>5. \A g \in Goroutine : InWS(g)' => Held(g)'
      BY <2>1, <2>3, <3>3, <3>4 DEF Held
    <3>6. stopChan' = "open"
      BY <1>0, <2>1, <2>3 DEF Phases
    <3> QED
      BY <2>1, <2>3, <3>3, <3>5, <3>6 DEF Endpoints
  <2> QED
    BY <2>2, <2>3
<1>5. ASSUME NEW g \in Goroutine, WSStep(g)
      PROVE  Endpoints'
  <2> SUFFICES ASSUME ~raced'
               PROVE  Endpoints'
    BY DEF Endpoints
  <2>1. ~raced /\ UNCHANGED <<isRunning, rpcAPIs, stopChan>>
    BY <1>0, <1>5, WSMoves
  <2>2. InWS(g) /\ \A h \in Goroutine \ {g} : ~InWS(h) /\ pc'[h] = pc[h]
    BY <1>0, <1>5, <2>1, WSMoves, OneInWS DEF InWS
  <2>3. \A h \in Goroutine : InWS(h)' => h = g
    BY <2>2 DEF InWS
  <2>4. /\ InWS(g)' => Held(g)'
        /\ ~InWS(g)' => Clean'
        /\ g = Main /\ pc'[Main] = "stopHTTP" => wsHandler' = None
        /\ g = Main /\ pc'[Main] = "failed" => serving' = {}
        /\ pc'[g] # "crashed"
        /\ apis' \subseteq apis \/ (pc'[g] = "setListener" /\ HasAPIs(g))
    BY <1>5, <2>1, HeldKept
  <2>5. g # Main => ~Late /\ pc[Main] \notin {"register", "services"}
    BY <1>0, <2>1, <2>2 DEF Exclusive, InWS, WSStates
  <2>6. Outside' => Clean' /\ wsHandler' = None
    <3>1. CASE g = Main
      <4>1. stopChan = "open" /\ pc'[Main] \notin {"register", "services", "stopServices", "finish"}
        BY <1>0, <1>5, <3>1, WSMoves DEF Phases, Starting, Stopping, WSStates, TypeOK
      <4>2. Outside' => pc'[Main] = "stopHTTP"
        BY <2>1, <4>1 DEF Outside
      <4> QED
        BY <2>4, <3>1, <4>2 DEF InWS, WSStates
    <3>2. CASE g # Main
      <4>1. pc'[Main] = pc[Main] /\ ~Outside
        BY <2>2, <2>5, <3>2 DEF Late, Locked, Outside
      <4> QED
        BY <2>1, <4>1 DEF Outside
    <3> QED
      BY <3>1, <3>2
  <2>7. apis' # {} => isRunning' \/ pc'[Main] \in Starting
    <3>1. CASE g = Main
      <4>1. CASE pc'[Main] = "failed"
        BY <2>4, <3>1, <4>1, NextTypeOK DEF TypeOK
      <4>2. CASE pc'[Main] # "failed"
        BY <1>0, <1>5, <2>1, <3>1, <4>2, WSMoves DEF Phases, Starting, WSStates
      <4> QED
        BY <4>1, <4>2
    <3>2. CASE g # Main
      <4>1. pc'[Main] = pc[Main] /\ pc[Main] # "commit"
        BY <2>2, <2>5, <3>2 DEF Late, Locked
      <4>2. apis # {} \/ rpcAPIs \/ apis' = {}
        BY <2>4, <3>2 DEF HasAPIs
      <4>3. isRunning \/ pc[Main] \in Starting \/ apis' = {}
        BY <1>0, <2>1, <4>1, <4>2 DEF Phases, Endpoints
      <4> QED
        BY <2>1, <4>1, <4>3
    <3> QED
      BY <3>1, <3>2
  <2>8. pc'[Main] # "crashed"
    BY <1>0, <2>1, <2>2, <2>4 DEF Endpoints
  <2> QED
    BY <2>3, <2>4, <2>6, <2>7, <2>8 DEF Endpoints, Outside
<1>6. ASSUME NEW q \in Request,
             Arrive(q) \/ InfoServices(q) \/ InfoRunning(q) \/ Return(q)
      PROVE  Endpoints'
  <2>1. /\ UNCHANGED <<wsListener, wsHandler, bound, serving, apis, raced, stopChan, isRunning>>
        /\ pc'[Main] = pc[Main] /\ \A g \in Goroutine \ {q} : pc'[g] = pc[g]
        /\ ~InWS(q) /\ ~InWS(q)'
    BY <1>0, <1>6 DEF Arrive, InfoServices, InfoRunning, Return, TypeOK, ws, node, InWS, WSStates
  <2> QED
    BY <2>1, EndpointsUntouched DEF Outside
<1>7. ASSUME NEW q \in Request,
             AdminStopWS(q) \/ \E host \in Address \cup {None} : AdminStartWS(q, host)
      PROVE  Endpoints'
  <2>1. /\ UNCHANGED <<wsListener, wsHandler, bound, serving, apis, stopChan, isRunning>>
        /\ pc'[Main] = pc[Main] /\ \A g \in Goroutine \ {q} : pc'[g] = pc[g]
        /\ mu = None /\ ~InWS(q)
        /\ pc'[q] \in {"listen", "testListener", "return"}
        /\ pc'[q] = "return" => raced' = raced
        /\ pc'[q] # "return" => raced' = (raced \/ Late)
        /\ pc'[q] = "listen" => wsHandler = None
    BY <1>0, <1>7 DEF AdminStopWS, AdminStartWS, MayStart, TypeOK, ws, node, InWS, WSStates
  <2>2. CASE pc'[q] = "return"
    <3>1. ~InWS(q)' /\ (Outside' => Outside)
      BY <2>1, <2>2 DEF InWS, WSStates, Outside
    <3> QED
      BY <2>1, <2>2, <3>1, EndpointsUntouched
  <2>3. CASE pc'[q] # "return"
    <3> SUFFICES ASSUME ~raced'
                 PROVE  Endpoints'
      BY DEF Endpoints
    <3>1. ~raced /\ ~Late
      BY <1>0, <2>1, <2>3 DEF TypeOK
    <3>2. \A g \in Goroutine : ~InWS(g)
      BY <1>0, <2>1, <3>1 DEF Exclusive, Late, Locked, InWS, WSStates
    <3>3. Clean
      BY <1>0, <3>1, <3>2 DEF Endpoints
    <3>4. Clean'
      BY <2>1, <3>3 DEF Clean
    <3>5. \A g \in Goroutine : InWS(g)' => g = q
      BY <2>1, <3>2 DEF InWS
    <3>6. \A g \in Goroutine : InWS(g)' => Held(g)'
      BY <2>1, <2>3, <3>4, <3>5 DEF Held
    <3>7. ~Outside' /\ pc'[Main] # "crashed"
      BY <1>0, <1>7, <2>1, <3>1 DEF Outside, Late, Locked, Exclusive, Endpoints, AdminStopWS, AdminStartWS
    <3>8. apis' # {} => isRunning' \/ pc'[Main] \in Starting
      BY <1>0, <2>1, <3>1 DEF Endpoints
    <3> QED
      BY <3>4, <3>6, <3>7, <3>8 DEF Endpoints, Outside
  <2> QED
    BY <2>2, <2>3
<1>8. CASE UNCHANGED vars \/ \E s \in {"SIGCHLD", "SIGTERM"} : Signal(s)
  <2>1. UNCHANGED <<pc, wsListener, wsHandler, bound, serving, apis, raced, stopChan, isRunning>>
    BY <1>8 DEF vars, ws, node, Signal
  <2> QED
    BY <2>1, EndpointsUntouched DEF Outside, InWS
<1> QED
  BY <1>1, <1>2, <1>3, <1>4, <1>5, <1>6, <1>7, <1>8 DEF Next, MainStep, RequestStep

(* What appending to a sequence gives, element by element. *)
LEMMA Appended ==
    ASSUME NEW S, NEW seq \in Seq(S), NEW elt \in S
    PROVE  /\ Append(seq, elt) \in Seq(S)
           /\ Len(Append(seq, elt)) = Len(seq) + 1
           /\ \A i \in 1 .. Len(seq) : Append(seq, elt)[i] = seq[i]
           /\ Append(seq, elt)[Len(seq) + 1] = elt
  BY AppendProperties

(* Appending to a sequence of one gives the pair. *)
LEMMA AppendToOne ==
    ASSUME NEW first, NEW second
    PROVE  Append(<<first>>, second) = <<first, second>>
<1> DEFINE one == <<first>>
           pair == <<first, second>>
           S == {first, second}
<1>1. one \in Seq(S) /\ Len(one) = 1 /\ one[1] = first /\ second \in S
  OBVIOUS
<1>2. pair \in Seq(S) /\ Len(pair) = 2 /\ pair[1] = first /\ pair[2] = second
  OBVIOUS
<1> HIDE DEF one, pair, S
<1>3. /\ Append(one, second) \in Seq(S) /\ Len(Append(one, second)) = 2
      /\ Append(one, second)[1] = first /\ Append(one, second)[2] = second
  <2>1. /\ Append(one, second) \in Seq(S)
        /\ Len(Append(one, second)) = Len(one) + 1
        /\ \A i \in 1 .. Len(one) : Append(one, second)[i] = one[i]
        /\ Append(one, second)[Len(one) + 1] = second
    BY <1>1, Appended
  <2>2. Len(one) + 1 = 2 /\ 1 \in 1 .. Len(one)
    BY <1>1
  <2> QED
    BY <1>1, <2>1, <2>2
<1>4. \A i \in 1 .. 2 : Append(one, second)[i] = pair[i]
  BY <1>2, <1>3
<1>5. Append(one, second) = pair
  BY <1>2, <1>3, <1>4, SeqEqual
<1> QED
  BY <1>5 DEF one, pair

(* Every step keeps what the requests were told. *)
LEMMA NextAnswers == IInv /\ [Next]_vars => Answers'
<1> SUFFICES ASSUME IInv, [Next]_vars
             PROVE  Answers'
  OBVIOUS
<1> USE NodeAssumption DEF Goroutine, Go
<1>0. TypeOK /\ Roles /\ Phases /\ Services /\ Exclusive /\ Answers
  BY DEF IInv
<1>1. ASSUME NEW q \in Request, info'[q] = info[q], pc'[q] = pc[q], Told(q),
             serviceFuncs' = serviceFuncs \/ pc[Main] = "register",
             isRunning' => isRunning \/ pc[Main] \in Starting,
             pc'[Main] \notin Starting \cup {"register", "services"}
                \/ pc[Main] \in Starting \cup {"register", "services"}
      PROVE  Told(q)'
  BY <1>1 DEF Told
<1>2. ASSUME UNCHANGED info, \A q \in Request : pc'[q] = pc[q],
             serviceFuncs' = serviceFuncs \/ pc[Main] = "register",
             isRunning' => isRunning \/ pc[Main] \in Starting,
             pc'[Main] \notin Starting \cup {"register", "services"}
                \/ pc[Main] \in Starting \cup {"register", "services"}
      PROVE  Answers'
  BY <1>0, <1>1, <1>2 DEF Answers
<1>3. CASE \E s \in Service : Register(s)
  BY <1>2, <1>3 DEF Register
<1>4. CASE Construct \/ StartService \/ StartHTTP \/ Publish \/ Commit
  <2>1. \A q \in Request : pc'[q] = pc[q]
    BY <1>0, <1>4 DEF Construct, StartService, StartHTTP, Publish, Commit, TypeOK
  <2> QED
    BY <1>2, <1>4, <2>1 DEF Construct, StartService, StartHTTP, Publish, Commit, Starting
<1>5. CASE Receive \/ Stop \/ StopHTTP \/ StopServices \/ Finish
  <2>1. /\ \A q \in Request : pc'[q] = pc[q]
        /\ pc'[Main] \notin Starting \cup {"register", "services"}
    BY <1>0, <1>5 DEF Receive, Stop, FirstOfStop, StopHTTP, StopServices, Finish, TypeOK, Starting
  <2>2. UNCHANGED <<info, serviceFuncs>> /\ (isRunning' => isRunning)
    BY <1>5 DEF Receive, Stop, StopHTTP, StopServices, Finish, RunningAfterStop, node
  <2> QED
    BY <1>2, <2>1, <2>2
<1>6. CASE WSStep(Main)
  <2>1. /\ \A q \in Request : pc'[q] = pc[q]
        /\ UNCHANGED <<info, serviceFuncs, isRunning>>
    BY <1>0, <1>6, WSMoves
  <2>2. pc'[Main] \notin Starting \cup {"register", "services"} \/ pc[Main] \in Starting
    BY <1>0, <1>6, WSMoves DEF WSStates, Starting
  <2> QED
    BY <1>2, <2>1, <2>2
<1>7. ASSUME NEW q \in Request,
             Arrive(q) \/ AdminStopWS(q) \/ WSStep(q) \/ Return(q)
             \/ \E host \in Address \cup {None} : AdminStartWS(q, host)
      PROVE  Answers'
  <2>1. /\ \A g \in Goroutine \ {q} : pc'[g] = pc[g]
        /\ UNCHANGED <<info, serviceFuncs, isRunning>>
        /\ pc[q] # "isRunning" /\ pc'[q] # "isRunning"
        /\ \/ pc[q] \in {"idle", "lockStart", "lockStop", "info"} \cup WSStates
           \/ pc[q] = "return" /\ pc'[q] = "returned"
    <3>1. CASE WSStep(q)
      BY <1>0, <3>1, WSMoves DEF WSStates
    <3>2. CASE Arrive(q) \/ AdminStopWS(q) \/ Return(q)
      BY <1>0, <3>2 DEF Arrive, AdminStopWS, Return, TypeOK, node
    <3>3. CASE \E host \in Address \cup {None} : AdminStartWS(q, host)
      BY <1>0, <3>3 DEF AdminStartWS, TypeOK, node
    <3> QED
      BY <1>7, <3>1, <3>2, <3>3
  <2>2. ASSUME NEW p \in Request
        PROVE  /\ pc'[p] \in {"idle", "lockStart", "lockStop", "info"} \cup WSStates => info'[p] = <<>>
               /\ (info'[p] = <<>> /\ pc'[p] # "isRunning") \/ Told(p)'
    <3>1. CASE p # q
      BY <1>0, <1>1, <2>1, <3>1 DEF Answers
    <3>2. CASE p = q /\ pc[q] \in {"idle", "lockStart", "lockStop", "info"} \cup WSStates
      BY <1>0, <2>1, <3>2 DEF Answers
    <3>3. CASE p = q /\ pc[q] = "return"
      BY <1>0, <2>1, <3>3 DEF Answers, Told, WSStates
    <3> QED
      BY <2>1, <3>1, <3>2, <3>3
  <2> QED
    BY <2>2 DEF Answers
<1>8. ASSUME NEW q \in Request, InfoServices(q)
      PROVE  Answers'
  <2> DEFINE S == {s \in Service : isRunning /\ services[s] = "running"}
  <2>1. /\ \A g \in Goroutine \ {q} : pc'[g] = pc[g]
        /\ UNCHANGED <<serviceFuncs, isRunning>>
        /\ pc[q] = "info" /\ pc'[q] = "isRunning" /\ ~Locked
    BY <1>0, <1>8 DEF InfoServices, ReadLock, TypeOK, node
  <2>2. info'[q] = <<S>> /\ \A p \in Request \ {q} : info'[p] = info[p]
    BY <1>0, <1>8 DEF InfoServices, Roles
  <2>3. isRunning => S = Ranges(serviceFuncs)
    <3> SUFFICES ASSUME isRunning
                 PROVE  S = Ranges(serviceFuncs)
      OBVIOUS
    <3>1. Ranges(serviceFuncs) \subseteq Service
      BY <1>0 DEF TypeOK, Ranges
    <3>2. AllRunning
      BY <1>0, <2>1 DEF Services, Locked
    <3>3. \A s \in Service : services[s] # "none" => s \in Ranges(serviceFuncs)
      BY <1>0 DEF Services
    <3> QED
      BY <3>1, <3>2, <3>3 DEF AllRunning
  <2>4. pc[Main] \notin Starting \cup {"register", "services"}
    BY <1>0, <2>1 DEF Locked, Starting, Exclusive
  <2>5. Told(q)'
    <3>1. S \in SUBSET Service /\ info'[q] = <<S>> /\ (S = Ranges(serviceFuncs') \/ ~isRunning')
      BY <2>1, <2>2, <2>3
    <3>2. pc'[Main] = pc[Main]
      BY <2>1
    <3> HIDE DEF S
    <3> QED
      BY <2>4, <3>1, <3>2 DEF Told
  <2>6. ASSUME NEW p \in Request
        PROVE  /\ pc'[p] \in {"idle", "lockStart", "lockStop", "info"} \cup WSStates => info'[p] = <<>>
               /\ (info'[p] = <<>> /\ pc'[p] # "isRunning") \/ Told(p)'
    <3>1. CASE p # q
      BY <1>0, <1>1, <2>1, <2>2, <3>1 DEF Answers
    <3>2. CASE p = q
      BY <2>1, <2>5, <3>2 DEF WSStates
    <3> QED
      BY <3>1, <3>2
  <2> QED
    BY <2>6 DEF Answers
<1>9. ASSUME NEW q \in Request, InfoRunning(q)
      PROVE  Answers'
  <2>1. /\ \A g \in Goroutine \ {q} : pc'[g] = pc[g]
        /\ UNCHANGED <<serviceFuncs, isRunning>>
        /\ pc[q] = "isRunning" /\ pc'[q] = "return"
    BY <1>0, <1>9 DEF InfoRunning, TypeOK, node
  <2>2. PICK S \in SUBSET Service :
           info[q] = <<S>> /\ (S = Ranges(serviceFuncs) \/ ~isRunning)
    BY <1>0, <2>1 DEF Answers, Told
  <2>3. info'[q] = Append(<<S>>, isRunning) /\ \A p \in Request \ {q} : info'[p] = info[p]
    BY <1>0, <1>9, <2>2 DEF InfoRunning, Roles
  <2>4. info'[q] = <<S, isRunning>>
    BY <2>3, AppendToOne, Zenon
  <2>5. Told(q)'
    <3>1. pc'[Main] \notin Starting \cup {"register", "services"}
      BY <1>0, <2>1 DEF Answers, Told
    <3>2. isRunning \in BOOLEAN /\ (isRunning => S = Ranges(serviceFuncs'))
      BY <1>0, <2>1, <2>2 DEF TypeOK
    <3> QED
      BY <2>1, <2>4, <3>1, <3>2 DEF Told
  <2>6. ASSUME NEW p \in Request
        PROVE  /\ pc'[p] \in {"idle", "lockStart", "lockStop", "info"} \cup WSStates => info'[p] = <<>>
               /\ (info'[p] = <<>> /\ pc'[p] # "isRunning") \/ Told(p)'
    <3>1. CASE p # q
      BY <1>0, <1>1, <2>1, <2>3, <3>1 DEF Answers
    <3>2. CASE p = q
      BY <2>1, <2>5, <3>2 DEF WSStates
    <3> QED
      BY <3>1, <3>2
  <2> QED
    BY <2>6 DEF Answers
<1>10. CASE UNCHANGED vars \/ \E s \in {"SIGCHLD", "SIGTERM"} : Signal(s)
  BY <1>2, <1>10 DEF vars, node, Signal
<1> QED
  BY <1>3, <1>4, <1>5, <1>6, <1>7, <1>8, <1>9, <1>10 DEF Next, MainStep, RequestStep

(* The invariant holds in every state that can be reached.                 *)
LEMMA IInvHolds == Spec => []IInv
<1>1. IInv /\ [Next]_vars => IInv'
  BY NextTypeOK, NextRoles, NextPhases, NextServices, NextExclusive, NextEndpoints, NextAnswers
     DEF IInv
<1> QED
  BY <1>1, InitIInv, PTL DEF Spec

-----------------------------------------------------------------------------
(* What follows for the node. *)

(* The variables have their types; what failed to stop is stopped, and     *)
(* only endpoints that serve have the APIs (node.go, api.go, main.go).     *)
THEOREM TypeCorrect == Spec => []TypeOK
  BY IInvHolds, PTL DEF IInv

(* Start starts every registered service or leaves none running, whichever *)
(* of them fails (Node.Start).                                             *)
THEOREM StartAllOrNothing == Spec => []AllOrNothing
  BY IInvHolds, PTL DEF IInv, Services

(* No client reaches a service that is not running: over HTTP in no case,  *)
(* over WebSocket unless an admin call met Start or Stop (the order of the *)
(* services and the endpoints in Node.Start and Node.Stop).                *)
THEOREM ClientsMeetRunningServices == Spec => []ServedByRunning
<1>1. IInv => ServedByRunning
  <2> SUFFICES ASSUME IInv, http \/ (apis # {} /\ ~raced)
               PROVE  AllRunning
    BY DEF ServedByRunning
  <2>1. isRunning \/ pc[Main] \in Starting
    BY DEF IInv, Phases, Endpoints
  <2>2. pc[Main] # "finish"
    BY DEF IInv, Phases, Endpoints, Clean, TypeOK
  <2> QED
    BY <2>1, <2>2 DEF IInv, Services
<1> QED
  BY <1>1, IInvHolds, PTL

(* Admin calls that keep away from Start and Stop never lose an endpoint   *)
(* (PrivateAdminAPI.mu, StartWS and StopWS of the node).                   *)
THEOREM EndpointsReachable == Spec => []NoEndpointLost
<1>1. IInv => NoEndpointLost
  <2> SUFFICES ASSUME IInv, ~raced
               PROVE  /\ \A e \in bound : e = wsListener \/ pc[e] = "setListener"
                      /\ \A e \in serving : e = wsHandler \/ pc[e] \in {"setListener", "setHandler"}
    BY DEF NoEndpointLost
  <2>1. CASE \A g \in Goroutine : ~InWS(g)
    BY <2>1 DEF IInv, Endpoints, Clean
  <2>2. ASSUME NEW g \in Goroutine, InWS(g)
        PROVE  /\ \A e \in bound : e = wsListener \/ pc[e] = "setListener"
               /\ \A e \in serving : e = wsHandler \/ pc[e] \in {"setListener", "setHandler"}
    BY <2>2 DEF IInv, Endpoints, Held, Clean, InWS, WSStates
  <2> QED
    BY <2>1, <2>2
<1> QED
  BY <1>1, IInvHolds, PTL

(* A Stop that found the node running leaves nothing behind, and neither   *)
(* it nor the second one panics, unless an admin call met it (Node.Stop    *)
(* and its callers in main.go).                                            *)
THEOREM StopIsComplete == Spec => []StopSucceeds
<1>1. IInv => StopSucceeds
  BY DEF IInv, StopSucceeds, StopTerminates, MainSurvives, Phases, Services, NoneRunning,
     Endpoints, Clean, Starting, Stopping
<1> QED
  BY <1>1, IInvHolds, PTL

(* A nodeInfo that says that the node runs lists its services, although it *)
(* reads the two at different times (NodeInfo, Services).                  *)
THEOREM InfoIsConsistent == Spec => []InfoAgrees
<1>1. IInv => InfoAgrees
  <2> SUFFICES ASSUME IInv, NEW q \in Request, Len(info[q]) = 2, info[q][2]
               PROVE  info[q][1] = Ranges(serviceFuncs)
    BY DEF InfoAgrees
  <2>1. info[q] # <<>>
    OBVIOUS
  <2>2. PICK S \in SUBSET Service :
          \/ info[q] = <<S>>
          \/ \E b \in BOOLEAN : info[q] = <<S, b>> /\ (b => S = Ranges(serviceFuncs))
    BY <2>1 DEF IInv, Answers, Told
  <2>3. PICK b \in BOOLEAN : info[q] = <<S, b>> /\ (b => S = Ranges(serviceFuncs))
    BY <2>2
  <2>4. info[q][2] = b /\ info[q][1] = S
    BY <2>3
  <2> QED
    BY <2>3, <2>4
<1> QED
  BY <1>1, IInvHolds, PTL
=============================================================================

--------------------------- MODULE RpcClientProofs ---------------------------
(***************************************************************************)
(* Proofs about RpcClient, for every set of requests, batches of every     *)
(* size, every number of subscriptions, connections and notifications, and *)
(* with or without breaks and failed writes: its types, and the safety     *)
(* properties its runs check on small instances.                           *)
(***************************************************************************)
EXTENDS RpcClient, FiniteSetTheorems, SequenceTheorems, TLAPS

-----------------------------------------------------------------------------
(* The invariant. *)

Notes == {Note(s, n) : s \in Sub, n \in 1 .. MaxNote}

(* The variables are functions and records.                                *)
OpsType ==
    ops \in [Op -> [pc : {"idle", "send", "write", "reconnect", "wait", "ok", "failed"},
                    resp : Nat, taken : Nat, chan : {"open", "closed", "error"},
                    via : Conn \cup {Nil}]]

OutType == out \in [conn : Conn \cup {Nil}, done : {"empty", "nil", "error"}, dialled : Conn]

DispType ==
    disp \in [lastOp : Op \cup {NoOp}, respWait : SUBSET AllIds,
              batch : SUBSET (AllIds \cup Notes), reading : BOOLEAN, conn : Conn,
              subs : SUBSET Sub]

NetType ==
    net \in [Conn -> [reader : {"none", "decode", "resp", "err", "exited"},
                      message : SUBSET (AllIds \cup Notes), open : BOOLEAN,
                      broken : BOOLEAN, server : SUBSET AllIds]]

NoteSeq == Seq(1 .. MaxNote)

SubRecord ==
    [once : {"free", "user", "forward", "done"}, quit : BOOLEAN,
     forward : {"none", "select", "failing", "done"}, buffer : NoteSeq,
     user : {"idle", "unsubscribing", "done"}, live : Conn \cup {Nil}, sent : 0 .. MaxNote,
     received : NoteSeq]

SubsType == subs \in [Sub -> SubRecord]

Types ==
    /\ OpsType /\ OutType /\ DispType /\ NetType /\ SubsType
    /\ loop \in {"select", "handle", "await", "failing", "quitting", "draining", "quit"}
    /\ closer \in [Closer -> {"idle", "closing", "waiting", "done"}]

(* The send lock: the operation that dispatch has accepted is the one that *)
(* writes or dials, and it reports on sendDone when it has done so.        *)
SendLock ==
    /\ \A op \in Op : ops[op].pc \in {"write", "reconnect"} =>
          op = disp.lastOp /\ out.done = "empty"
    /\ out.done # "empty" => disp.lastOp # NoOp
    /\ out.done = "error" => ops[disp.lastOp].pc = "failed"
    /\ \A op \in Op : ops[op].pc = "reconnect" => out.conn = Nil

Registered(op) == Ids(op) \cap disp.respWait

(* Every response an operation may get is received, in its channel, or     *)
(* registered with dispatch: once it is accepted all of them are, until    *)
(* its channel is closed.                                                  *)
Ledger(op) ==
    /\ ops[op].pc \in {"idle", "send"} =>
          /\ ops[op].taken = 0 /\ ops[op].resp = 0 /\ ops[op].chan = "open"
          /\ Registered(op) = {} /\ op # disp.lastOp
    /\ ops[op].pc \in {"write", "reconnect"} => ops[op].taken = 0
    /\ Registered(op) # {} => ops[op].chan = "open"
    /\ ops[op].taken + ops[op].resp + Cardinality(Registered(op)) <= Length(op)
    /\ ops[op].pc \in {"write", "reconnect", "wait"} /\ ops[op].chan = "open" =>
          ops[op].taken + ops[op].resp + Cardinality(Registered(op)) = Length(op)
    /\ ops[op].pc = "wait" /\ ops[op].chan = "open" => ops[op].taken < Length(op)

(* What dispatch has left where it is in its loop.                         *)
LoopStates ==
    /\ loop = "handle" <=> disp.batch # {}
    /\ loop \in {"failing", "quitting", "draining", "quit"} => disp.respWait = {}
    /\ loop \in {"draining", "quit"} => disp.subs = {}

Alive == {"decode", "resp", "err"}

(* The read loop that is alive is the one dispatch knows of.               *)
Readers ==
    /\ \A c \in Conn : net[c].reader \in Alive =>
          c = disp.conn /\ disp.reading /\ loop \notin {"failing", "quit"}
    /\ disp.reading /\ loop \in {"select", "handle"} => net[disp.conn].reader # "exited"
    /\ \A c \in Conn : net[c].reader = "resp" => net[c].message # {}

(* The connections that are open, and the one that is being handed over.   *)
Connections ==
    /\ \A c \in Conn : net[c].open => c <= out.dialled
    /\ disp.conn <= out.dialled
    /\ ~disp.reading \/ loop = "await" => ~net[disp.conn].open
    /\ loop = "await" => \A op \in Op :
          ops[op].pc # "reconnect" /\ (ops[op].pc = "write" => out.conn # Nil)
    /\ \A op \in Op : ops[op].pc = "reconnect" =>
          disp.conn < out.dialled /\ net[out.dialled].open
    /\ NoConnectionLeaks

(* As long as a write does not fail before the reader has, the writer has  *)
(* the connection of dispatch or finds it closed, and an operation that is *)
(* registered and written has a reader.                                    *)
Signals ==
    ~WriteFaults =>
        /\ out.conn \in {Nil, disp.conn} /\ loop # "await"
        /\ out.conn = Nil \/ ~net[disp.conn].open => ~disp.reading \/ loop \in {"draining", "quit"}
        /\ \A op \in Op : ops[op].pc = "wait" /\ Registered(op) # {} =>
              ops[op].via # Nil /\ net[ops[op].via].reader # "exited"

(* Whoever goes through quitOnce has closed quit, and asks the server once.*)
QuitOnce ==
    \A s \in Sub :
        /\ subs[s].once = "free" => ops[UnsubscribeOp(s)].pc = "idle"
        /\ subs[s].once # "free" => subs[s].quit
        /\ Len(subs[s].buffer) <= MaxBuffer

SubscribeId(s) == <<SubscribeOp(s), 1>>

(* A message is one notification or answers.                               *)
OneNote(message) == message \subseteq AllIds \/ \E note \in Notes : message = {note}

(* An operation that has not been written.                                 *)
Early == {"idle", "send", "write", "reconnect"}

(* A subscription is asked for once, on one connection, and the server     *)
(* notifies it there once it has accepted it: until dispatch handles the   *)
(* acceptance, that is in a message, and one notification at most can be   *)
(* behind it.                                                              *)
Accepted(s) ==
    /\ \A c \in Conn : SubscribeId(s) \in net[c].server =>
          ops[SubscribeOp(s)].via = c /\ subs[s].live = Nil
    /\ ops[SubscribeOp(s)].pc \in Early =>
          /\ ops[SubscribeOp(s)].via = Nil /\ subs[s].live = Nil
          /\ \A c \in Conn : SubscribeId(s) \notin net[c].server
    /\ subs[s].live = Nil => subs[s].sent = 0 /\ subs[s].forward = "none"
    /\ subs[s].forward = "none" => subs[s].buffer = <<>> /\ subs[s].received = <<>>
    /\ subs[s].once = "forward" => subs[s].forward = "failing"
    /\ SubscribeId(s) \in disp.respWait => subs[s].forward = "none"
    /\ SubscribeId(s) \in disp.respWait /\ subs[s].live # Nil =>
          \/ SubscribeId(s) \in net[subs[s].live].message /\ subs[s].sent = 0
          \/ /\ SubscribeId(s) \in disp.batch
             /\ \/ subs[s].sent = 0
                \/ subs[s].sent = 1 /\ Note(s, 1) \in net[subs[s].live].message

(* The notifications on their way: the last one the server has sent is in  *)
(* a message, the one before it in the batch, or the last one there.       *)
Underway(s) ==
    /\ \A c \in Conn, n \in 1 .. MaxNote : Note(s, n) \in net[c].message =>
          c = subs[s].live /\ n = subs[s].sent
    /\ \A n \in 1 .. MaxNote : Note(s, n) \in disp.batch =>
          IF subs[s].sent \in 1 .. MaxNote /\ Note(s, subs[s].sent) \in net[subs[s].live].message
          THEN n = subs[s].sent - 1
          ELSE n = subs[s].sent

Carried(s, batch, messages) ==
    {n \in 1 .. MaxNote : Note(s, n) \in batch \cup UNION {messages[c].message : c \in Conn}}

Coming(s) == Carried(s, disp.batch, net)

Got(s) == subs[s].received \o subs[s].buffer

Runs(s) == subs[s].forward = "select" /\ ~subs[s].quit

(* Until the subscription quits, dispatch knows it, what it has got is in  *)
(* order, and what the server has sent beyond that is on its way.          *)
InOrder(s) ==
    Runs(s) =>
        /\ s \in disp.subs
        /\ Len(Got(s)) <= subs[s].sent
        /\ Got(s) = [n \in 1 .. Len(Got(s)) |-> n]
        /\ Coming(s) = Len(Got(s)) + 1 .. subs[s].sent

Notifications ==
    /\ OneNote(disp.batch) /\ \A c \in Conn : OneNote(net[c].message)
    /\ \A s \in Sub : Accepted(s) /\ Underway(s) /\ InOrder(s)

IInv ==
    /\ Types /\ SendLock /\ \A op \in Op : Ledger(op)
    /\ LoopStates /\ Readers /\ Connections /\ Signals /\ QuitOnce /\ Notifications

-----------------------------------------------------------------------------
(* Operations and their ids. *)

(* Subscribing, unsubscribing and calling are distinct operations.         *)
LEMMA DistinctOps ==
    \A s, t \in Sub :
        /\ SubscribeOp(s) \in Op /\ UnsubscribeOp(s) \in Op
        /\ SubscribeOp(s) \notin Call /\ UnsubscribeOp(s) \notin Call
        /\ SubscribeOp(s) # UnsubscribeOp(t)
        /\ SubscribeOp(s) = SubscribeOp(t) => s = t
        /\ UnsubscribeOp(s) = UnsubscribeOp(t) => s = t
BY RpcAssumption DEF RpcAssumption, Op, SubscribeOp, UnsubscribeOp

(* An operation has at least one message.                                  *)
LEMMA LengthType == ASSUME NEW op \in Op PROVE Length(op) \in Nat \ {0}
BY RpcAssumption DEF RpcAssumption, Length

(* An id belongs to one operation.                                         *)
LEMMA OwnerOfId ==
    /\ \A op \in Op : Ids(op) \subseteq AllIds
    /\ \A op \in Op : \A id \in Ids(op) : Owner(id) = op
    /\ \A id \in AllIds : Owner(id) \in Op /\ id \in Ids(Owner(id))
BY DEF Ids, Owner, AllIds

(* There are as many ids of an operation as it has messages.               *)
LEMMA IdsCounted ==
    ASSUME NEW op \in Op
    PROVE  IsFiniteSet(Ids(op)) /\ Cardinality(Ids(op)) = Length(op)
<1>. DEFINE number == [i \in 1 .. Length(op) |-> <<op, i>>]
<1>1. Length(op) \in Nat BY LengthType
<1>2. IsFiniteSet(1 .. Length(op)) /\ Cardinality(1 .. Length(op)) = Length(op)
    BY <1>1, FS_Interval
<1>3. number \in Bijection(1 .. Length(op), Ids(op))
    BY DEF Ids, Bijection, Injection, Surjection, IsInjective
<1>. QED BY <1>2, <1>3, FS_Bijection DEF ExistsBijection

(* A subscription has one id.                                              *)
LEMMA SubscribeIds ==
    ASSUME NEW s \in Sub
    PROVE  Ids(SubscribeOp(s)) = {SubscribeId(s)} /\ Owner(SubscribeId(s)) = SubscribeOp(s)
           /\ SubscribeId(s) \in AllIds
<1>1. Length(SubscribeOp(s)) = 1 BY DistinctOps DEF Length
<1>2. Ids(SubscribeOp(s)) = {SubscribeId(s)} BY <1>1 DEF Ids, SubscribeId
<1>. QED BY <1>2, DistinctOps, OwnerOfId DEF Owner, SubscribeId

(* A notification is no answer, and tells its subscription and number.     *)
LEMMA NotesDiffer ==
    /\ \A s \in Sub, n \in 1 .. MaxNote : Note(s, n) \notin AllIds
    /\ \A s, t \in Sub, m, n \in 1 .. MaxNote : Note(s, m) = Note(t, n) => (s = t /\ m = n)
<1>1. ASSUME NEW s \in Sub, NEW n \in 1 .. MaxNote, Note(s, n) \in AllIds PROVE FALSE
    <2>1. PICK op \in Op, i \in Nat : Note(s, n) = <<op, i>>
        BY <1>1 DEF AllIds, Ids
    <2>2. Len(Note(s, n)) = 3 BY DEF Note
    <2>3. Len(<<op, i>>) = 2 OBVIOUS
    <2>. QED BY <2>1, <2>2, <2>3
<1>2. ASSUME NEW s \in Sub, NEW t \in Sub, NEW m \in 1 .. MaxNote, NEW n \in 1 .. MaxNote,
             Note(s, m) = Note(t, n)
      PROVE  s = t /\ m = n
    BY <1>2 DEF Note
<1>. QED BY <1>1, <1>2

-----------------------------------------------------------------------------
(* The invariant holds at the start. *)
LEMMA InitTypes == Init => Types
<1>. SUFFICES ASSUME Init PROVE Types OBVIOUS
<1>1. 1 \in Conn BY RpcAssumption DEF RpcAssumption, Conn
<1>2. OpsType BY DEF Init, OpsType
<1>3. NetType BY DEF Init, NetType
<1>4. SubsType
    <2>1. 0 \in 0 .. MaxNote BY RpcAssumption DEF RpcAssumption
    <2>2. <<>> \in NoteSeq BY DEF NoteSeq
    <2>. QED BY <2>1, <2>2 DEF Init, SubsType, SubRecord
<1>5. OutType BY <1>1 DEF Init, OutType
<1>6. DispType BY <1>1 DEF Init, DispType
<1>7. closer \in [Closer -> {"idle", "closing", "waiting", "done"}] BY DEF Init
<1>8. loop = "select" BY DEF Init
<1>. QED BY <1>2, <1>3, <1>4, <1>5, <1>6, <1>7, <1>8 DEF Types

(* The invariant holds initially.                                          *)
LEMMA InitIInv == Init => IInv
<1>. SUFFICES ASSUME Init PROVE IInv OBVIOUS
<1>1. Types BY InitTypes
<1>2. /\ \A op \in Op : /\ ops[op].pc = "idle" /\ ops[op].resp = 0 /\ ops[op].taken = 0
                        /\ ops[op].chan = "open" /\ ops[op].via = Nil
      /\ out.conn = 1 /\ out.done = "empty" /\ out.dialled = 1 /\ loop = "select"
      /\ disp.lastOp = NoOp /\ disp.respWait = {} /\ disp.batch = {} /\ disp.reading = TRUE
      /\ disp.conn = 1 /\ disp.subs = {}
    BY DEF Init
<1>3. /\ 1 \in Conn /\ net[1].reader = "decode" /\ net[1].open
      /\ \A c \in Conn : c # 1 => net[c].reader = "none" /\ ~net[c].open
      /\ \A c \in Conn : net[c].message = {} /\ net[c].server = {}
    <2>1. 1 \in Conn BY RpcAssumption DEF RpcAssumption, Conn
    <2>2. \A c \in Conn : net[c].open = (c = 1) BY DEF Init
    <2>3. \A c \in Conn : net[c].reader = IF c = 1 THEN "decode" ELSE "none" BY DEF Init
    <2>4. \A c \in Conn : net[c].message = {} /\ net[c].server = {} BY DEF Init
    <2>. QED BY <2>1, <2>2, <2>3, <2>4
<1>4. \A s \in Sub : /\ subs[s].once = "free" /\ subs[s].quit = FALSE /\ subs[s].forward = "none"
                     /\ subs[s].buffer = <<>> /\ subs[s].live = Nil /\ subs[s].sent = 0
                     /\ subs[s].received = <<>>
    BY DEF Init
<1>5. SendLock /\ LoopStates BY <1>2 DEF SendLock, LoopStates
<1>6. ASSUME NEW op \in Op PROVE Ledger(op)
    <2>1. Registered(op) = {} BY <1>2 DEF Registered
    <2>2. Cardinality(Registered(op)) = 0 BY <2>1, FS_EmptySet
    <2>3. op # disp.lastOp BY <1>2, RpcAssumption DEF RpcAssumption
    <2>4. Length(op) \in Nat BY LengthType
    <2>. QED BY <1>2, <2>1, <2>2, <2>3, <2>4 DEF Ledger
<1>7. Readers
    <2>1. \A c \in Conn : net[c].reader \in Alive => c = 1 BY <1>3 DEF Alive
    <2>2. net[1].reader # "exited" /\ \A c \in Conn : net[c].reader # "resp"
        BY <1>3
    <2>. QED BY <1>2, <2>1, <2>2 DEF Readers
<1>8. Connections BY <1>2, <1>3 DEF Connections, NoConnectionLeaks, Conn
<1>9. Signals BY <1>2, <1>3 DEF Signals, Nil
<1>10. QuitOnce BY <1>2, <1>4, DistinctOps, RpcAssumption DEF QuitOnce, RpcAssumption
<1>11. Notifications
    <2>1. ASSUME NEW s \in Sub PROVE Accepted(s)
        BY <1>2, <1>3, <1>4, DistinctOps DEF Accepted, Early
    <2>2. ASSUME NEW s \in Sub PROVE Underway(s) BY <1>2, <1>3 DEF Underway
    <2>3. \A s \in Sub : InOrder(s) BY <1>4 DEF InOrder, Runs
    <2>4. OneNote(disp.batch) /\ \A c \in Conn : OneNote(net[c].message)
        BY <1>2, <1>3 DEF OneNote
    <2>. QED BY <2>1, <2>2, <2>3, <2>4 DEF Notifications
<1>. QED BY <1>1, <1>5, <1>6, <1>7, <1>8, <1>9, <1>10, <1>11 DEF IInv

-----------------------------------------------------------------------------
(* The steps, and what they leave alone. *)

(* Steps of a subscription that touch nothing else.                        *)
SubStep(s) ==
    Consume(s) \/ ForwardReturns(s) \/ Unsubscribe(s) \/ LeaveOnce(s) \/ UnsubscribeReturn(s)

(* Steps of a reader, and a connection that breaks.                        *)
NetStep(c) == Decode(c) \/ ReadFails(c) \/ DecodeFails(c) \/ Break(c)

CloserStep(k) == CloseCall(k) \/ CloseReturn(k)

(* The writer fails.                                                       *)
SendError(op) == WriteFails(op) \/ DialFails(op)

(* An operation gives up or sees its channel closed.                       *)
GivesUp(op) == ContextEnds(op) \/ SendGivesUp(op) \/ ReceiveClosed(op)

(* Next, one disjunct for each action or group of actions.                 *)
LEMMA Actions ==
    ASSUME [Next]_vars
    PROVE  \/ \E op \in Op :
                 \/ Begin(op) /\ \A s \in Sub : op # UnsubscribeOp(s)
                 \/ GivesUp(op) \/ Receive(op)
                 \/ Accept(op) \/ Write(op) \/ SendError(op) \/ Dial(op) \/ Reconnected(op)
                 \/ ReconnectGivesUp(op)
           \/ \E k \in Closer : CloserStep(k) \/ TakeClose(k)
           \/ \E c \in Conn :
                 \/ TakeResp(c) \/ TakeErr(c) \/ DrainResp(c) \/ DrainErr(c) \/ AwaitErr(c)
                 \/ NetStep(c)
                 \/ \E ids \in SUBSET net[c].server : Answer(c, ids)
           \/ \E id \in AllIds : HandleResponse(id)
           \/ \E item \in disp.batch : Drop(item)
           \/ \E s \in Sub :
                 \/ HandleSubscribed(s) \/ QuitSub(s) \/ SubStep(s) \/ Notify(s)
                 \/ \E n \in 1 .. MaxNote : Deliver(s, n)
                 \/ \E who \in {"user", "forward"} : EnterOnce(s, who)
           \/ TakeSendDone \/ ReadErrDone \/ CloseDone
           \/ UNCHANGED vars
<1>1. CASE Caller BY <1>1 DEF Caller, GivesUp, SendError, CloserStep
<1>2. CASE Dispatch
    <2>1. CASE HandleItem BY <2>1 DEF HandleItem
    <2>. QED BY <1>2, <2>1 DEF Dispatch
<1>3. CASE Reader BY <1>3 DEF Reader, NetStep
<1>4. CASE Server BY <1>4 DEF Server
<1>5. CASE Subscription BY <1>5 DEF Subscription, SubStep
<1>6. CASE Free
    <2>1. Cancellable \subseteq Op /\ Call \cup {SubscribeOp(s) : s \in Sub} \subseteq Op
        BY RpcAssumption DEF RpcAssumption, Op
    <2>2. \A op \in Call \cup {SubscribeOp(s) : s \in Sub} : \A s \in Sub : op # UnsubscribeOp(s)
        BY DistinctOps
    <2>. QED BY <1>6, <2>1, <2>2 DEF Free, GivesUp, CloserStep, NetStep, SubStep
<1>. QED BY <1>1, <1>2, <1>3, <1>4, <1>5, <1>6 DEF Next, Obliged

(* What the groups of steps leave alone.                                   *)
LEMMA Frames ==
    /\ \A s \in Sub : SubStep(s) => UNCHANGED <<ops, out, loop, disp, net, closer>>
    /\ \A c \in Conn : NetStep(c) => UNCHANGED <<ops, out, loop, disp, subs, closer>>
    /\ \A k \in Closer : CloserStep(k) => UNCHANGED <<ops, out, loop, disp, net, subs>>
    /\ \A op \in Op :
          Begin(op) \/ GivesUp(op) \/ Receive(op) => UNCHANGED <<out, loop, disp, net, subs, closer>>
    /\ \A op \in Op : SendError(op) => UNCHANGED <<loop, disp, net, subs, closer>>
    /\ UNCHANGED vars => UNCHANGED <<ops, out, loop, disp, net, subs, closer>>
<1>1. ASSUME NEW s \in Sub, SubStep(s) PROVE UNCHANGED <<ops, out, loop, disp, net, closer>>
    BY <1>1 DEF SubStep, Consume, ForwardReturns, Unsubscribe, LeaveOnce, UnsubscribeReturn,
                Becomes
<1>2. ASSUME NEW c \in Conn, NetStep(c) PROVE UNCHANGED <<ops, out, loop, disp, subs, closer>>
    BY <1>2 DEF NetStep, Decode, ReadFails, DecodeFails, Reads, Break
<1>3. ASSUME NEW k \in Closer, CloserStep(k) PROVE UNCHANGED <<ops, out, loop, disp, net, subs>>
    BY <1>3 DEF CloserStep, CloseCall, CloseReturn, CloserGoes
<1>4. ASSUME NEW op \in Op, Begin(op) \/ GivesUp(op) \/ Receive(op)
      PROVE  UNCHANGED <<out, loop, disp, net, subs, closer>>
    BY <1>4 DEF Begin, GivesUp, ContextEnds, SendGivesUp, ReceiveClosed, Goes, Receive
<1>5. ASSUME NEW op \in Op, SendError(op) PROVE UNCHANGED <<loop, disp, net, subs, closer>>
    BY <1>5 DEF SendError, WriteFails, DialFails, SendFails
<1>. QED BY <1>1, <1>2, <1>3, <1>4, <1>5 DEF vars

-----------------------------------------------------------------------------
(* Every step preserves the types. *)

(* Of the operations.                                                      *)
LEMMA NextOpsType == Types /\ [Next]_vars => OpsType'
<1>. SUFFICES ASSUME Types, [Next]_vars PROVE OpsType' OBVIOUS
<1>. USE DEF Types
<1>1. ASSUME NEW op \in Op, NEW pc \in {"idle", "send", "write", "reconnect", "wait", "ok", "failed"},
             Goes(op, pc)
      PROVE  OpsType'
    BY <1>1 DEF Goes, OpsType
<1>2. ASSUME NEW op \in Op, Begin(op) \/ GivesUp(op) PROVE OpsType'
    BY <1>1, <1>2 DEF Begin, GivesUp, ContextEnds, SendGivesUp, ReceiveClosed
<1>3. ASSUME NEW op \in Op, Accept(op) \/ Dial(op) \/ Reconnected(op) PROVE OpsType'
    BY <1>3 DEF Accept, Dial, Reconnected, OpsType
<1>4. ASSUME NEW op \in Op, Write(op) PROVE OpsType'
    <2>1. out.conn \in Conn BY <1>4 DEF Write, OutType
    <2>. DEFINE Written == [ops[op] EXCEPT !.pc = "wait", !.via = out.conn]
                OpRecord ==
                    [pc : {"idle", "send", "write", "reconnect", "wait", "ok", "failed"},
                     resp : Nat, taken : Nat, chan : {"open", "closed", "error"},
                     via : Conn \cup {Nil}]
    <2>2. ops \in [Op -> OpRecord] BY DEF OpsType
    <2>3. Written \in OpRecord BY <2>1, <2>2
    <2>4. ops' = [ops EXCEPT ![op] = Written] BY <1>4 DEF Write
    <2>. HIDE DEF Written, OpRecord
    <2>5. ops' \in [Op -> OpRecord] BY <2>2, <2>3, <2>4
    <2>. QED BY <2>5 DEF OpsType, OpRecord
<1>5. ASSUME NEW op \in Op, SendError(op) \/ ReconnectGivesUp(op) PROVE OpsType'
    BY <1>5 DEF SendError, WriteFails, DialFails, ReconnectGivesUp, SendFails, OpsType
<1>6. ASSUME NEW op \in Op, Receive(op) PROVE OpsType'
    <2>1. ops[op].resp - 1 \in Nat /\ ops[op].taken + 1 \in Nat BY <1>6 DEF Receive, OpsType
    <2>. QED BY <1>6, <2>1 DEF Receive, OpsType
<1>7. ASSUME NEW id \in AllIds, HandleResponse(id) PROVE OpsType'
    BY <1>7, OwnerOfId DEF HandleResponse, OpsType
<1>8. ASSUME NEW s \in Sub, HandleSubscribed(s) PROVE OpsType'
    BY <1>8, DistinctOps DEF HandleSubscribed, OpsType
<1>9. ASSUME CloseOps PROVE OpsType'
    BY <1>9 DEF CloseOps, OpsType
<1>10. ASSUME NEW s \in Sub, NEW who, EnterOnce(s, who) PROVE OpsType'
    BY <1>10, DistinctOps DEF EnterOnce, OpsType
<1>11. ASSUME UNCHANGED ops PROVE OpsType' BY <1>11 DEF OpsType
<1>12. ASSUME NEW c \in Conn,
              TakeResp(c) \/ TakeErr(c) \/ DrainResp(c) \/ DrainErr(c) \/ AwaitErr(c) \/ NetStep(c)
              \/ \E ids \in SUBSET net[c].server : Answer(c, ids)
       PROVE  UNCHANGED ops \/ CloseOps
    BY <1>12, Frames DEF TakeResp, TakeErr, DrainResp, DrainErr, AwaitErr, Answer
<1>13. ASSUME NEW s \in Sub,
              QuitSub(s) \/ SubStep(s) \/ Notify(s) \/ \E n \in 1 .. MaxNote : Deliver(s, n)
       PROVE  UNCHANGED ops
    BY <1>13, Frames DEF QuitSub, Notify, Deliver
<1>14. ASSUME TakeSendDone \/ ReadErrDone \/ CloseDone \/ \E item \in disp.batch : Drop(item)
       PROVE  UNCHANGED ops
    BY <1>14 DEF TakeSendDone, ReadErrDone, CloseDone, Drop
<1>15. ASSUME NEW k \in Closer, CloserStep(k) \/ TakeClose(k) PROVE UNCHANGED ops \/ CloseOps
    BY <1>15, Frames DEF TakeClose
<1>. QED
    BY <1>2, <1>3, <1>4, <1>5, <1>6, <1>7, <1>8, <1>9, <1>10, <1>11, <1>12, <1>13, <1>14, <1>15,
       Actions, Frames

(* Of the connection handed between the writers and dispatch.              *)
LEMMA NextOutType == Types /\ [Next]_vars => OutType'
<1>. SUFFICES ASSUME Types, [Next]_vars PROVE OutType' OBVIOUS
<1>. USE DEF Types, OutType
<1>1. ASSUME NEW op \in Op,
             Write(op) \/ SendError(op) \/ Reconnected(op) \/ ReconnectGivesUp(op)
      PROVE  OutType'
    BY <1>1 DEF Write, SendError, WriteFails, DialFails, SendFails, Reconnected, ReconnectGivesUp
<1>2. ASSUME NEW op \in Op, Dial(op) PROVE OutType'
    BY <1>2, RpcAssumption DEF Dial, Conn, RpcAssumption
<1>3. ASSUME TakeSendDone PROVE OutType' BY <1>3 DEF TakeSendDone
<1>4. ASSUME UNCHANGED out PROVE OutType' BY <1>4
<1>5. ASSUME NEW op \in Op, Begin(op) \/ GivesUp(op) \/ Receive(op) \/ Accept(op)
      PROVE  UNCHANGED out
    BY <1>5, Frames DEF Accept
<1>6. ASSUME NEW c \in Conn,
             TakeResp(c) \/ TakeErr(c) \/ DrainResp(c) \/ DrainErr(c) \/ AwaitErr(c) \/ NetStep(c)
             \/ \E ids \in SUBSET net[c].server : Answer(c, ids)
      PROVE  UNCHANGED out
    BY <1>6, Frames DEF TakeResp, TakeErr, DrainResp, DrainErr, AwaitErr, Answer
<1>7. ASSUME NEW s \in Sub,
             \/ HandleSubscribed(s) \/ QuitSub(s) \/ SubStep(s) \/ Notify(s)
             \/ \E n \in 1 .. MaxNote : Deliver(s, n)
             \/ \E who \in {"user", "forward"} : EnterOnce(s, who)
      PROVE  UNCHANGED out
    BY <1>7, Frames DEF HandleSubscribed, QuitSub, Notify, Deliver, EnterOnce, Handled
<1>8. ASSUME ReadErrDone \/ CloseDone \/ (\E item \in disp.batch : Drop(item))
             \/ \E id \in AllIds : HandleResponse(id)
      PROVE  UNCHANGED out
    BY <1>8 DEF ReadErrDone, CloseDone, Drop, Handled, HandleResponse
<1>9. ASSUME NEW k \in Closer, CloserStep(k) \/ TakeClose(k) PROVE UNCHANGED out
    BY <1>9, Frames DEF TakeClose
<1>. QED BY <1>1, <1>2, <1>3, <1>4, <1>5, <1>6, <1>7, <1>8, <1>9, Actions, Frames

(* The fields of a subscription, and what becomes of it.                   *)
LEMMA SubFields ==
    ASSUME SubsType, NEW s \in Sub
    PROVE  /\ subs[s].once \in {"free", "user", "forward", "done"} /\ subs[s].quit \in BOOLEAN
           /\ subs[s].forward \in {"none", "select", "failing", "done"}
           /\ subs[s].buffer \in NoteSeq /\ subs[s].user \in {"idle", "unsubscribing", "done"}
           /\ subs[s].live \in Conn \cup {Nil} /\ subs[s].sent \in 0 .. MaxNote
           /\ subs[s].received \in NoteSeq
BY DEF SubsType, SubRecord

(* A record of a subscription stays one when a field gets a value of it.   *)
LEMMA SubUpdates ==
    ASSUME NEW sub \in SubRecord
    PROVE  /\ \A once \in {"free", "user", "forward", "done"} :
                 [sub EXCEPT !.once = once] \in SubRecord
           /\ \A quit \in BOOLEAN : [sub EXCEPT !.quit = quit] \in SubRecord
           /\ \A forward \in {"none", "select", "failing", "done"} :
                 [sub EXCEPT !.forward = forward] \in SubRecord
           /\ \A buffer \in NoteSeq : [sub EXCEPT !.buffer = buffer] \in SubRecord
           /\ \A user \in {"idle", "unsubscribing", "done"} :
                 [sub EXCEPT !.user = user] \in SubRecord
           /\ \A live \in Conn \cup {Nil} : [sub EXCEPT !.live = live] \in SubRecord
           /\ \A sent \in 0 .. MaxNote : [sub EXCEPT !.sent = sent] \in SubRecord
           /\ \A received \in NoteSeq : [sub EXCEPT !.received = received] \in SubRecord
BY DEF SubRecord

(* Of dispatch.                                                            *)
LEMMA NextDispType == Types /\ [Next]_vars => DispType'
<1>. SUFFICES ASSUME Types, [Next]_vars PROVE DispType' OBVIOUS
<1>. USE DEF Types, DispType
<1>1. ASSUME NEW op \in Op, Accept(op) PROVE DispType'
    BY <1>1, OwnerOfId DEF Accept
<1>2. ASSUME NEW op \in Op, Reconnected(op) PROVE DispType'
    BY <1>2 DEF Reconnected, OutType
<1>3. ASSUME TakeSendDone PROVE DispType' BY <1>3 DEF TakeSendDone
<1>4. ASSUME NEW c \in Conn, TakeResp(c) PROVE DispType'
    <2>1. net[c].message \subseteq AllIds \cup Notes BY DEF NetType
    <2>. QED BY <1>4, <2>1 DEF TakeResp
<1>5. ASSUME NEW item, NEW respWait \in SUBSET AllIds, NEW running \in SUBSET Sub,
             Handled(item, respWait, running)
      PROVE  DispType'
    BY <1>5 DEF Handled
<1>6. ASSUME NEW id \in AllIds, HandleResponse(id) PROVE DispType'
    BY <1>5, <1>6 DEF HandleResponse, RespWaitWithout
<1>7. ASSUME NEW s \in Sub,
             HandleSubscribed(s) \/ (\E n \in 1 .. MaxNote : Deliver(s, n)) \/ QuitSub(s)
      PROVE  DispType'
    <2>1. CASE HandleSubscribed(s)
        BY <2>1, <1>5 DEF HandleSubscribed, RespWaitWithout
    <2>2. ASSUME NEW n \in 1 .. MaxNote, Deliver(s, n) PROVE DispType'
        BY <2>2, <1>5 DEF Deliver
    <2>3. CASE QuitSub(s) BY <2>3 DEF QuitSub
    <2>. QED BY <1>7, <2>1, <2>2, <2>3
<1>8. ASSUME NEW item \in disp.batch, Drop(item) PROVE DispType'
    BY <1>5, <1>8 DEF Drop
<1>9. ASSUME NEW c \in Conn, TakeErr(c) \/ AwaitErr(c) PROVE DispType'
    BY <1>9 DEF TakeErr, AwaitErr, OutType
<1>10. ASSUME NEW k \in Closer, TakeClose(k) PROVE DispType' BY <1>10 DEF TakeClose
<1>11. ASSUME ReadErrDone PROVE DispType' BY <1>11 DEF ReadErrDone
<1>12. ASSUME UNCHANGED disp PROVE DispType' BY <1>12
<1>13. ASSUME NEW op \in Op,
              \/ Begin(op) \/ GivesUp(op) \/ Receive(op) \/ Write(op) \/ SendError(op) \/ Dial(op)
              \/ ReconnectGivesUp(op)
       PROVE  UNCHANGED disp
    BY <1>13, Frames DEF Write, Dial, ReconnectGivesUp, SendFails
<1>14. ASSUME NEW c \in Conn,
              DrainResp(c) \/ DrainErr(c) \/ NetStep(c)
              \/ \E ids \in SUBSET net[c].server : Answer(c, ids)
       PROVE  UNCHANGED disp
    BY <1>14, Frames DEF DrainResp, DrainErr, Answer
<1>15. ASSUME NEW s \in Sub,
              SubStep(s) \/ Notify(s) \/ \E who \in {"user", "forward"} : EnterOnce(s, who)
       PROVE  UNCHANGED disp
    BY <1>15, Frames DEF Notify, EnterOnce
<1>16. ASSUME CloseDone PROVE UNCHANGED disp BY <1>16 DEF CloseDone
<1>. QED
    BY <1>1, <1>2, <1>3, <1>4, <1>6, <1>7, <1>8, <1>9, <1>10, <1>11, <1>12, <1>13, <1>14, <1>15,
       <1>16, Actions, Frames

(* Of the connections.                                                     *)
LEMMA NextNetType == Types /\ [Next]_vars => NetType'
<1>. SUFFICES ASSUME Types, [Next]_vars PROVE NetType' OBVIOUS
<1>. USE DEF Types, NetType
<1>1. ASSUME NEW op \in Op, Write(op) PROVE NetType'
    <2>1. Ids(op) \subseteq AllIds BY OwnerOfId
    <2>2. PICK c \in Conn : net' = [net EXCEPT ![c].server = IF net[c].broken THEN @ ELSE @ \cup Ids(op)]
        BY <1>1 DEF Write, OutType
    <2>. QED BY <2>1, <2>2
<1>2. ASSUME NEW c \in Conn, NEW open \in BOOLEAN, net' = [net EXCEPT ![c].open = open]
      PROVE  NetType'
    BY <1>2
<1>3. ASSUME NEW op \in Op, Dial(op) PROVE NetType'
    <2>1. out'.dialled \in Conn BY <1>3, NextOutType DEF OutType
    <2>. QED BY <1>2, <1>3, <2>1 DEF Dial
<1>4. ASSUME NEW op \in Op, Reconnected(op) PROVE NetType'
    <2>1. out.dialled \in Conn /\ disp.conn \in Conn BY DEF OutType, DispType
    <2>2. CASE OldReader BY <1>2, <1>4, <2>1, <2>2 DEF Reconnected
    <2>3. CASE ~OldReader BY <1>4, <2>1, <2>3 DEF Reconnected
    <2>. QED BY <2>2, <2>3
<1>5. ASSUME NEW op \in Op, ReconnectGivesUp(op) PROVE NetType'
    <2>1. out.dialled \in Conn BY DEF OutType
    <2>. QED BY <1>2, <1>5, <2>1 DEF ReconnectGivesUp
<1>6. ASSUME NEW c \in Conn, TakeResp(c) \/ TakeErr(c) \/ DrainResp(c) \/ DrainErr(c)
      PROVE  NetType'
    BY <1>6 DEF TakeResp, TakeErr, DrainResp, DrainErr
<1>7. ASSUME NEW c \in Conn, AwaitErr(c) PROVE NetType'
    BY <1>7 DEF AwaitErr, OutType
<1>8. ASSUME ReadErrDone \/ CloseDone PROVE NetType'
    <2>1. disp.conn \in Conn BY DEF DispType
    <2>. QED BY <1>2, <1>8, <2>1 DEF ReadErrDone, CloseDone, ConnClosed
<1>9. ASSUME NEW c \in Conn, NetStep(c) PROVE NetType'
    <2>1. ASSUME NEW to \in {"resp", "err"}, Reads(c, to) PROVE NetType'
        BY <2>1 DEF Reads
    <2>2. CASE Break(c)
        <3>. DEFINE Broken == [net[c] EXCEPT !.broken = TRUE]
                    ConnRecord ==
                        [reader : {"none", "decode", "resp", "err", "exited"},
                         message : SUBSET (AllIds \cup Notes), open : BOOLEAN,
                         broken : BOOLEAN, server : SUBSET AllIds]
        <3>1. net \in [Conn -> ConnRecord] BY DEF NetType
        <3>2. Broken \in ConnRecord BY <3>1
        <3>3. net' = [net EXCEPT ![c] = Broken] BY <2>2 DEF Break
        <3>. HIDE DEF Broken, ConnRecord
        <3>4. net' \in [Conn -> ConnRecord] BY <3>1, <3>2, <3>3
        <3>. QED BY <3>4 DEF NetType, ConnRecord
    <2>. QED BY <1>9, <2>1, <2>2 DEF NetStep, Decode, ReadFails, DecodeFails
<1>10. ASSUME NEW c \in Conn, NEW ids \in SUBSET net[c].server, Answer(c, ids) PROVE NetType'
    <2>1. ids \subseteq AllIds OBVIOUS
    <2>2. net' = [net EXCEPT ![c].message = ids, ![c].server = (@ \ ids) \cup (ids \cap Repeated)]
        BY <1>10 DEF Answer
    <2>3. ids \subseteq AllIds \cup Notes /\ (net[c].server \ ids) \cup (ids \cap Repeated) \subseteq AllIds
        BY <2>1
    <2>. DEFINE left == (net[c].server \ ids) \cup (ids \cap Repeated)
    <2>4. net' = [net EXCEPT ![c].message = ids, ![c].server = left] BY <2>2
    <2>5. ids \in SUBSET (AllIds \cup Notes) /\ left \in SUBSET AllIds BY <2>3
    <2>. HIDE DEF left
    <2>. DEFINE Answered == [net[c] EXCEPT !.message = ids, !.server = left]
                ConnRecord ==
                    [reader : {"none", "decode", "resp", "err", "exited"},
                     message : SUBSET (AllIds \cup Notes), open : BOOLEAN,
                     broken : BOOLEAN, server : SUBSET AllIds]
    <2>6. net \in [Conn -> ConnRecord] BY DEF NetType
    <2>7. Answered \in ConnRecord BY <2>5, <2>6
    <2>8. net' = [net EXCEPT ![c] = Answered] BY <2>4
    <2>. HIDE DEF Answered, ConnRecord
    <2>9. net' \in [Conn -> ConnRecord] BY <2>6, <2>7, <2>8
    <2>. QED BY <2>9 DEF NetType, ConnRecord
<1>11. ASSUME NEW s \in Sub, Notify(s) PROVE NetType'
    <2>1. subs[s].live \in Conn BY <1>11, SubFields DEF Notify
    <2>2. subs[s].sent + 1 \in 1 .. MaxNote
        BY <1>11, SubFields, RpcAssumption DEF Notify, RpcAssumption
    <2>3. subs'[s].sent = subs[s].sent + 1 BY <1>11 DEF Notify, SubsType
    <2>4. Note(s, subs[s].sent + 1) \in Notes BY <2>2 DEF Notes
    <2>5. net' = [net EXCEPT ![subs[s].live].message = {Note(s, subs[s].sent + 1)}]
        BY <1>11, <2>3 DEF Notify
    <2>. QED BY <2>1, <2>4, <2>5
<1>12. ASSUME UNCHANGED net PROVE NetType' BY <1>12
<1>13. ASSUME NEW op \in Op,
              Begin(op) \/ GivesUp(op) \/ Receive(op) \/ Accept(op) \/ SendError(op)
       PROVE  UNCHANGED net
    BY <1>13, Frames DEF Accept
<1>14. ASSUME NEW s \in Sub,
              \/ HandleSubscribed(s) \/ QuitSub(s) \/ SubStep(s)
              \/ \E n \in 1 .. MaxNote : Deliver(s, n)
              \/ \E who \in {"user", "forward"} : EnterOnce(s, who)
       PROVE  UNCHANGED net
    BY <1>14, Frames DEF HandleSubscribed, QuitSub, Deliver, EnterOnce, Handled
<1>15. ASSUME TakeSendDone \/ (\E item \in disp.batch : Drop(item))
              \/ \E id \in AllIds : HandleResponse(id)
       PROVE  UNCHANGED net
    BY <1>15 DEF TakeSendDone, Drop, Handled, HandleResponse
<1>16. ASSUME NEW k \in Closer, CloserStep(k) \/ TakeClose(k) PROVE UNCHANGED net
    BY <1>16, Frames DEF TakeClose
<1>. QED
    BY <1>1, <1>3, <1>4, <1>5, <1>6, <1>7, <1>8, <1>9, <1>10, <1>11, <1>12, <1>13, <1>14, <1>15,
       <1>16, Actions, Frames

(* Of the subscriptions.                                                   *)
LEMMA NextSubsType == Types /\ [Next]_vars => SubsType'
<1>. SUFFICES ASSUME Types, [Next]_vars PROVE SubsType' OBVIOUS
<1>. SubsType BY DEF Types
<1>1. ASSUME NEW s \in Sub, NEW sub \in SubRecord, subs' = [subs EXCEPT ![s] = sub]
      PROVE  SubsType'
    BY <1>1 DEF SubsType
<1>2. \A s \in Sub : subs[s] \in SubRecord BY DEF SubsType
<1>3. ASSUME NEW s \in Sub, HandleSubscribed(s) \/ QuitSub(s) PROVE SubsType'
    BY <1>3 DEF HandleSubscribed, QuitSub, SubsType, SubRecord
<1>4. ASSUME NEW s \in Sub, NEW n \in 1 .. MaxNote, Deliver(s, n) PROVE SubsType'
    <2>1. Append(subs[s].buffer, n) \in NoteSeq BY SubFields DEF NoteSeq
    <2>2. subs' = [subs EXCEPT ![s] = [subs[s] EXCEPT !.forward = "failing"]]
          \/ subs' = [subs EXCEPT ![s] = [subs[s] EXCEPT !.buffer = Append(subs[s].buffer, n)]]
        BY <1>4 DEF Deliver, Buffered, SubsType
    <2>. QED BY <1>1, <1>2, <2>1, <2>2, SubUpdates
<1>5. ASSUME NEW s \in Sub, Consume(s) PROVE SubsType'
    <2>1. subs[s].buffer \in NoteSeq /\ subs[s].received \in NoteSeq BY SubFields
    <2>2. subs[s].buffer # <<>> BY <1>5 DEF Consume
    <2>3. Head(subs[s].buffer) \in 1 .. MaxNote /\ Tail(subs[s].buffer) \in NoteSeq
        BY <2>1, <2>2, HeadTailProperties DEF NoteSeq
    <2>4. Append(subs[s].received, Head(subs[s].buffer)) \in NoteSeq BY <2>1, <2>3 DEF NoteSeq
    <2>5. subs' = [subs EXCEPT ![s] = [[subs[s] EXCEPT
                       !.received = Append(subs[s].received, Head(subs[s].buffer))] EXCEPT
                       !.buffer = Tail(subs[s].buffer)]]
        BY <1>2, <1>5 DEF Consume, Becomes, SubRecord
    <2>. QED BY <1>1, <1>2, <2>3, <2>4, <2>5, SubUpdates
<1>6. ASSUME NEW s \in Sub,
             ForwardReturns(s) \/ Unsubscribe(s) \/ UnsubscribeReturn(s)
      PROVE  SubsType'
    BY <1>1, <1>2, <1>6, SubUpdates DEF ForwardReturns, Unsubscribe, UnsubscribeReturn, Becomes
<1>7. ASSUME NEW s \in Sub, LeaveOnce(s) PROVE SubsType'
    <2>. DEFINE left == [[[subs[s] EXCEPT !.once = "done"] EXCEPT !.quit = TRUE]
                            EXCEPT !.forward = IF subs[s].once = "forward" THEN "done" ELSE @]
    <2>1. subs' = [subs EXCEPT ![s] = left] BY <1>2, <1>7 DEF LeaveOnce, Becomes, SubRecord
    <2>2. left \in SubRecord BY <1>2 DEF SubRecord
    <2>. QED BY <1>1, <2>1, <2>2
<1>8. ASSUME NEW s \in Sub, NEW who \in {"user", "forward"}, EnterOnce(s, who) PROVE SubsType'
    <2>1. subs' = [subs EXCEPT ![s] = [[subs[s] EXCEPT !.once = who] EXCEPT !.quit = TRUE]]
        BY <1>2, <1>8 DEF EnterOnce, QuitFirst, SubsType, SubRecord
    <2>. QED BY <1>1, <1>2, <2>1, SubUpdates
<1>9. ASSUME NEW c \in Conn, NEW ids \in SUBSET net[c].server, Answer(c, ids) PROVE SubsType'
    <2>1. PICK accepted \in SUBSET Sub :
             subs' = [s \in Sub |-> IF s \in accepted THEN [subs[s] EXCEPT !.live = c] ELSE subs[s]]
        BY <1>9 DEF Answer
    <2>. QED BY <1>2, <2>1, SubUpdates DEF SubsType
<1>10. ASSUME NEW s \in Sub, Notify(s) PROVE SubsType'
    <2>1. subs[s].sent + 1 \in 0 .. MaxNote
        BY <1>10, SubFields, RpcAssumption DEF Notify, RpcAssumption
    <2>2. subs' = [subs EXCEPT ![s] = [subs[s] EXCEPT !.sent = subs[s].sent + 1]]
        BY <1>10 DEF Notify, SubsType
    <2>. QED BY <1>1, <1>2, <2>1, <2>2, SubUpdates
<1>11. ASSUME UNCHANGED subs PROVE SubsType' BY <1>11 DEF SubsType
<1>12. ASSUME NEW op \in Op,
              \/ Begin(op) \/ GivesUp(op) \/ Receive(op) \/ Accept(op) \/ Write(op) \/ SendError(op)
              \/ Dial(op) \/ Reconnected(op) \/ ReconnectGivesUp(op)
       PROVE  UNCHANGED subs
    BY <1>12, Frames DEF Accept, Write, Dial, Reconnected, ReconnectGivesUp, SendFails
<1>13. ASSUME NEW c \in Conn,
              TakeResp(c) \/ TakeErr(c) \/ DrainResp(c) \/ DrainErr(c) \/ AwaitErr(c) \/ NetStep(c)
       PROVE  UNCHANGED subs
    BY <1>13, Frames DEF TakeResp, TakeErr, DrainResp, DrainErr, AwaitErr
<1>14. ASSUME TakeSendDone \/ ReadErrDone \/ CloseDone \/ (\E item \in disp.batch : Drop(item))
              \/ \E id \in AllIds : HandleResponse(id)
       PROVE  UNCHANGED subs
    BY <1>14 DEF TakeSendDone, ReadErrDone, CloseDone, Drop, HandleResponse
<1>15. ASSUME NEW k \in Closer, CloserStep(k) \/ TakeClose(k) PROVE UNCHANGED subs
    BY <1>15, Frames DEF TakeClose
<1>. QED
    BY <1>3, <1>4, <1>5, <1>6, <1>7, <1>8, <1>9, <1>10, <1>11, <1>12, <1>13, <1>14, <1>15,
       Actions, Frames DEF SubStep

(* Every step keeps the types.                                             *)
LEMMA NextTypes == Types /\ [Next]_vars => Types'
<1>. SUFFICES ASSUME Types, [Next]_vars PROVE Types' OBVIOUS
<1>1. loop' \in {"select", "handle", "await", "failing", "quitting", "draining", "quit"}
    <2>. DEFINE Place == {"select", "handle", "await", "failing", "quitting", "draining", "quit"}
    <2>1. loop \in Place BY DEF Types
    <2>2. ASSUME NEW op \in Op,
                 \/ Begin(op) \/ GivesUp(op) \/ Receive(op) \/ Accept(op) \/ Write(op)
                 \/ SendError(op) \/ Dial(op) \/ Reconnected(op) \/ ReconnectGivesUp(op)
          PROVE  loop' \in Place
        BY <2>1, <2>2, Frames DEF Accept, Write, Dial, Reconnected, ReconnectGivesUp, SendFails
    <2>3. ASSUME NEW k \in Closer, CloserStep(k) \/ TakeClose(k) PROVE loop' \in Place
        BY <2>1, <2>3, Frames DEF TakeClose
    <2>4. ASSUME NEW c \in Conn,
                 \/ TakeResp(c) \/ TakeErr(c) \/ DrainResp(c) \/ DrainErr(c) \/ AwaitErr(c)
                 \/ NetStep(c) \/ \E ids \in SUBSET net[c].server : Answer(c, ids)
          PROVE  loop' \in Place
        BY <2>1, <2>4, Frames DEF TakeResp, TakeErr, DrainResp, DrainErr, AwaitErr, Answer
    <2>5. ASSUME \/ \E id \in AllIds : HandleResponse(id)
                 \/ \E item \in disp.batch : Drop(item)
                 \/ TakeSendDone \/ ReadErrDone \/ CloseDone
          PROVE  loop' \in Place
        BY <2>1, <2>5 DEF HandleResponse, Handled, Drop, TakeSendDone, ReadErrDone, CloseDone
    <2>6. ASSUME NEW s \in Sub,
                 \/ HandleSubscribed(s) \/ QuitSub(s) \/ SubStep(s) \/ Notify(s)
                 \/ \E n \in 1 .. MaxNote : Deliver(s, n)
                 \/ \E who \in {"user", "forward"} : EnterOnce(s, who)
          PROVE  loop' \in Place
        BY <2>1, <2>6, Frames DEF HandleSubscribed, Handled, QuitSub, Notify, Deliver, EnterOnce
    <2>7. ASSUME UNCHANGED vars PROVE loop' \in Place BY <2>1, <2>7 DEF vars
    <2>. HIDE DEF Place
    <2>8. loop' \in Place BY <2>2, <2>3, <2>4, <2>5, <2>6, <2>7, Actions
    <2>. QED BY <2>8 DEF Place
<1>2. ASSUME NEW k \in Closer, CloserStep(k) \/ TakeClose(k)
      PROVE  closer' \in [Closer -> {"idle", "closing", "waiting", "done"}]
    BY <1>2 DEF Types, CloserStep, CloseCall, CloseReturn, CloserGoes, TakeClose
<1>3. closer' \in [Closer -> {"idle", "closing", "waiting", "done"}]
    BY <1>2, Actions, Frames
    DEF Types, Accept, Write, Dial, Reconnected, ReconnectGivesUp, SendFails, TakeResp,
        TakeErr, DrainResp, DrainErr, AwaitErr, Answer, HandleResponse, Handled, Drop,
        HandleSubscribed, QuitSub, Notify, Deliver, EnterOnce, TakeSendDone, ReadErrDone, CloseDone
<1>. QED
    BY <1>1, <1>3, NextOpsType, NextOutType, NextDispType, NextNetType, NextSubsType DEF Types

-----------------------------------------------------------------------------
(* Every step preserves the send lock. *)

(* What the step of an operation to pc does to it.                         *)
LEMMA OpGoes ==
    ASSUME OpsType, NEW op \in Op, NEW pc, Goes(op, pc)
    PROVE  /\ ops'[op].pc = pc /\ ops'[op].resp = ops[op].resp
           /\ ops'[op].taken = ops[op].taken /\ ops'[op].chan = ops[op].chan
           /\ ops'[op].via = ops[op].via
           /\ \A q \in Op : q # op => ops'[q] = ops[q]
BY DEF OpsType, Goes

(* What changing the place of an operation does to it.                     *)
LEMMA OpMoves ==
    ASSUME OpsType, NEW op \in Op, NEW pc, ops' = [ops EXCEPT ![op].pc = pc]
    PROVE  /\ ops'[op].pc = pc /\ ops'[op].resp = ops[op].resp
           /\ ops'[op].taken = ops[op].taken /\ ops'[op].chan = ops[op].chan
           /\ ops'[op].via = ops[op].via
           /\ \A q \in Op : q # op => ops'[q] = ops[q]
BY DEF OpsType

(* What closing its channel, or an error in it, does to an operation.      *)
LEMMA ChanUpdates ==
    ASSUME OpsType, NEW op \in Op, NEW chan, ops' = [ops EXCEPT ![op].chan = chan]
    PROVE  /\ ops'[op].pc = ops[op].pc /\ ops'[op].resp = ops[op].resp
           /\ ops'[op].taken = ops[op].taken /\ ops'[op].chan = chan
           /\ ops'[op].via = ops[op].via
           /\ \A q \in Op : q # op => ops'[q] = ops[q]
BY DEF OpsType

(* What a response in its channel does to an operation.                    *)
LEMMA RespUpdates ==
    ASSUME OpsType, NEW op \in Op, NEW resp, ops' = [ops EXCEPT ![op].resp = resp]
    PROVE  /\ ops'[op].pc = ops[op].pc /\ ops'[op].resp = resp
           /\ ops'[op].taken = ops[op].taken /\ ops'[op].chan = ops[op].chan
           /\ ops'[op].via = ops[op].via
           /\ \A q \in Op : q # op => ops'[q] = ops[q]
BY DEF OpsType

(* What writing does to the operation.                                     *)
LEMMA WriteUpdates ==
    ASSUME OpsType, NEW op \in Op, Write(op)
    PROVE  /\ ops'[op].pc = "wait" /\ ops'[op].resp = ops[op].resp
           /\ ops'[op].taken = ops[op].taken /\ ops'[op].chan = ops[op].chan
           /\ ops'[op].via = out.conn
           /\ \A q \in Op : q # op => ops'[q] = ops[q]
BY DEF OpsType, Write

(* What receiving a response does to it.                                   *)
LEMMA ReceiveUpdates ==
    ASSUME OpsType, NEW op \in Op, Receive(op)
    PROVE  /\ ops[op].pc = "wait" /\ ops[op].resp > 0
           /\ ops'[op].resp = ops[op].resp - 1 /\ ops'[op].taken = ops[op].taken + 1
           /\ ops'[op].chan = ops[op].chan /\ ops'[op].via = ops[op].via
           /\ ops'[op].pc = IF ops[op].chan = "error" THEN "failed"
                            ELSE IF ops[op].taken + 1 = Length(op) THEN "ok" ELSE "wait"
           /\ \A q \in Op : q # op => ops'[q] = ops[q]
BY DEF OpsType, Receive

(* Closing the channels of the waiting operations changes nothing else of  *)
(* an operation.                                                           *)
LEMMA CloseUpdates ==
    ASSUME OpsType, CloseOps, NEW op \in Op
    PROVE  /\ ops'[op].pc = ops[op].pc /\ ops'[op].resp = ops[op].resp
           /\ ops'[op].taken = ops[op].taken /\ ops'[op].via = ops[op].via
           /\ ops'[op].chan = IF op \in {Owner(id) : id \in disp.respWait} THEN "error"
                              ELSE ops[op].chan
BY DEF OpsType, CloseOps

(* Every step keeps the send lock.                                         *)
LEMMA NextSendLock == IInv /\ [Next]_vars => SendLock'
<1>. SUFFICES ASSUME IInv, [Next]_vars PROVE SendLock' OBVIOUS
<1>. Types /\ OpsType /\ SendLock BY DEF IInv, Types
<1>. NoOp \notin Op BY RpcAssumption DEF RpcAssumption
<1>1. ASSUME UNCHANGED <<out, disp>>, \A op \in Op : ops'[op].pc = ops[op].pc \/
                 ops[op].pc \in {"idle", "wait"} \/ ops'[op].pc = "failed",
             \A op \in Op : ops'[op].pc \in {"write", "reconnect"} => ops'[op].pc = ops[op].pc
      PROVE  SendLock'
    BY <1>1 DEF SendLock, Types, DispType
<1>2. ASSUME NEW op \in Op, Begin(op) \/ GivesUp(op) \/ Receive(op) PROVE SendLock'
    <2>1. UNCHANGED <<out, disp>> BY <1>2, Frames
    <2>2. CASE Begin(op) BY <1>1, <2>1, <2>2, OpGoes DEF Begin
    <2>3. CASE Receive(op) BY <1>1, <2>1, <2>3, ReceiveUpdates
    <2>4. CASE ContextEnds(op) \/ SendGivesUp(op)
        BY <1>1, <2>1, <2>4, OpGoes DEF ContextEnds, SendGivesUp
    <2>5. CASE ReceiveClosed(op)
        BY <1>1, <2>1, <2>5, OpGoes DEF ReceiveClosed
    <2>. QED BY <1>2, <2>2, <2>3, <2>4, <2>5 DEF GivesUp
<1>3. ASSUME NEW op \in Op, Accept(op) PROVE SendLock'
    <2>1. disp.lastOp = NoOp /\ disp'.lastOp = op /\ UNCHANGED out
        BY <1>3 DEF Accept, SendFree, Types, DispType
    <2>2. out.done = "empty" /\ \A q \in Op : ops[q].pc \notin {"write", "reconnect"}
        BY <2>1 DEF SendLock
    <2>3. ops'[op].pc = "write" /\ \A q \in Op : q # op => ops'[q] = ops[q]
        BY <1>3, OpMoves DEF Accept
    <2>. QED BY <2>1, <2>2, <2>3 DEF SendLock
<1>4. ASSUME NEW op \in Op, ops[op].pc \in {"write", "reconnect"}, UNCHANGED disp,
             \A q \in Op : q # op => ops'[q] = ops[q]
      PROVE  /\ disp'.lastOp = op /\ op # NoOp /\ out.done = "empty"
             /\ \A q \in Op : q # op => ops'[q].pc \notin {"write", "reconnect"}
    BY <1>4 DEF SendLock
<1>5. ASSUME NEW op \in Op, Write(op) PROVE SendLock'
    <2>1. ops[op].pc = "write" /\ UNCHANGED disp /\ out'.done = "nil"
        BY <1>5 DEF Write, Types, OutType
    <2>. QED BY <1>4, <1>5, <2>1, WriteUpdates DEF SendLock
<1>6. ASSUME NEW op \in Op, SendError(op) \/ ReconnectGivesUp(op) PROVE SendLock'
    <2>1. /\ ops[op].pc \in {"write", "reconnect"} /\ UNCHANGED disp /\ out'.done = "error"
          /\ ops' = [ops EXCEPT ![op].pc = "failed"]
        BY <1>6 DEF SendError, WriteFails, DialFails, ReconnectGivesUp, SendFails, Types, OutType
    <2>2. ops'[op].pc = "failed" /\ \A q \in Op : q # op => ops'[q] = ops[q]
        BY <2>1, OpMoves
    <2>3. disp'.lastOp = op /\ op # NoOp /\ \A q \in Op : q # op => ops'[q].pc \notin {"write", "reconnect"}
        BY <1>4, <2>1, <2>2
    <2>. QED BY <2>1, <2>2, <2>3 DEF SendLock
<1>7. ASSUME NEW op \in Op, Dial(op) PROVE SendLock'
    <2>1. /\ ops[op].pc = "write" /\ UNCHANGED disp
          /\ out'.done = out.done /\ out'.conn = Nil
          /\ ops' = [ops EXCEPT ![op].pc = "reconnect"]
        BY <1>7 DEF Dial, Types, OutType
    <2>. QED BY <1>4, <2>1, OpMoves DEF SendLock
<1>8. ASSUME NEW op \in Op, Reconnected(op) PROVE SendLock'
    <2>1. /\ ops[op].pc = "reconnect" /\ disp'.lastOp = disp.lastOp
          /\ out'.done = out.done
          /\ ops' = [ops EXCEPT ![op].pc = "write"]
        BY <1>8 DEF Reconnected, Types, OutType, DispType
    <2>2. ops'[op].pc = "write" /\ \A q \in Op : q # op => ops'[q] = ops[q]
        BY <2>1, OpMoves
    <2>. QED BY <2>1, <2>2 DEF SendLock
<1>9. ASSUME TakeSendDone PROVE SendLock'
    <2>1. out.done # "empty" /\ out'.done = "empty" /\ UNCHANGED ops
        BY <1>9 DEF TakeSendDone, Types, OutType
    <2>. QED BY <2>1 DEF SendLock
<1>10. ASSUME UNCHANGED out, disp'.lastOp = disp.lastOp, \A op \in Op : ops'[op].pc = ops[op].pc
       PROVE  SendLock'
    BY <1>10 DEF SendLock, Types, DispType
<1>11. ASSUME CloseOps, UNCHANGED out, disp'.lastOp = disp.lastOp PROVE SendLock'
    BY <1>10, <1>11, CloseUpdates
<1>12. ASSUME NEW c \in Conn,
              TakeResp(c) \/ TakeErr(c) \/ DrainResp(c) \/ DrainErr(c) \/ AwaitErr(c) \/ NetStep(c)
              \/ \E ids \in SUBSET net[c].server : Answer(c, ids)
       PROVE  SendLock'
    <2>1. UNCHANGED out /\ disp'.lastOp = disp.lastOp /\ (UNCHANGED ops \/ CloseOps)
        BY <1>12, Frames
        DEF TakeResp, TakeErr, DrainResp, DrainErr, AwaitErr, Answer, Types, DispType
    <2>. QED BY <1>10, <1>11, <2>1
<1>13. ASSUME NEW k \in Closer, CloserStep(k) \/ TakeClose(k) PROVE SendLock'
    <2>1. UNCHANGED out /\ disp'.lastOp = disp.lastOp /\ (UNCHANGED ops \/ CloseOps)
        BY <1>13, Frames DEF TakeClose, Types, DispType
    <2>. QED BY <1>10, <1>11, <2>1
<1>14. ASSUME NEW item, NEW respWait, NEW running, Handled(item, respWait, running)
       PROVE  UNCHANGED out /\ disp'.lastOp = disp.lastOp
    BY <1>14 DEF Handled, Types, DispType
<1>15. ASSUME NEW id \in AllIds, HandleResponse(id) PROVE SendLock'
    <2>1. \A op \in Op : ops'[op].pc = ops[op].pc
        BY <1>15, OwnerOfId, OpMoves DEF HandleResponse
    <2>. QED BY <1>10, <1>14, <1>15, <2>1 DEF HandleResponse
<1>16. ASSUME NEW s \in Sub, HandleSubscribed(s) PROVE SendLock'
    <2>1. \A op \in Op : ops'[op].pc = ops[op].pc
        BY <1>16, DistinctOps, OpMoves DEF HandleSubscribed
    <2>. QED BY <1>10, <1>14, <1>16, <2>1 DEF HandleSubscribed
<1>17. ASSUME \/ \E s \in Sub : QuitSub(s) \/ SubStep(s) \/ Notify(s)
                   \/ \E n \in 1 .. MaxNote : Deliver(s, n)
              \/ ReadErrDone \/ CloseDone \/ \E item \in disp.batch : Drop(item)
       PROVE  SendLock'
    <2>1. UNCHANGED ops /\ UNCHANGED out /\ disp'.lastOp = disp.lastOp
        BY <1>14, <1>17, Frames
        DEF QuitSub, Notify, Deliver, ReadErrDone, CloseDone, Drop, Types, DispType
    <2>. QED BY <1>10, <2>1
<1>18. ASSUME NEW s \in Sub, NEW who \in {"user", "forward"}, EnterOnce(s, who) PROVE SendLock'
    <2>1. /\ UnsubscribeOp(s) \in Op /\ ops[UnsubscribeOp(s)].pc = "idle" /\ UNCHANGED <<out, disp>>
          /\ ops' = [ops EXCEPT ![UnsubscribeOp(s)].pc = "send"]
        BY <1>18, DistinctOps DEF EnterOnce, IInv, QuitOnce
    <2>. QED BY <1>1, <2>1, OpMoves
<1>19. ASSUME UNCHANGED vars PROVE SendLock' BY <1>10, <1>19 DEF vars
<1>. QED
    BY <1>2, <1>3, <1>5, <1>6, <1>7, <1>8, <1>9, <1>12, <1>13, <1>15, <1>16, <1>17, <1>18, <1>19,
       Actions

-----------------------------------------------------------------------------
(* Every step preserves the ledgers. *)

(* The ids of an operation that are in a set can be counted, also without  *)
(* one of them.                                                            *)
LEMMA SomeIds ==
    ASSUME NEW op \in Op, NEW S
    PROVE  /\ IsFiniteSet(Ids(op) \cap S) /\ Cardinality(Ids(op) \cap S) \in Nat
           /\ Cardinality(Ids(op) \cap S) <= Length(op)
           /\ \A id \in Ids(op) \cap S :
                 Cardinality(Ids(op) \cap (S \ {id})) = Cardinality(Ids(op) \cap S) - 1
<1>1. IsFiniteSet(Ids(op)) /\ Cardinality(Ids(op)) = Length(op) BY IdsCounted
<1>2. /\ IsFiniteSet(Ids(op) \cap S) /\ Cardinality(Ids(op) \cap S) <= Length(op)
    BY <1>1, FS_Subset
<1>3. Cardinality(Ids(op) \cap S) \in Nat BY <1>2, FS_CardinalityType
<1>4. ASSUME NEW id \in Ids(op) \cap S
      PROVE  Cardinality(Ids(op) \cap (S \ {id})) = Cardinality(Ids(op) \cap S) - 1
    <2>1. Ids(op) \cap (S \ {id}) = (Ids(op) \cap S) \ {id} OBVIOUS
    <2>. QED BY <1>2, <2>1, FS_RemoveElement
<1>. QED BY <1>2, <1>3, <1>4

(* What the ledger of an operation is about.                               *)
LEMMA LedgerFrame ==
    ASSUME NEW op \in Op, Ledger(op), ops'[op] = ops[op],
           disp'.lastOp = disp.lastOp \/ disp'.lastOp # op,
           Ids(op) \cap disp'.respWait = Ids(op) \cap disp.respWait
    PROVE  Ledger(op)'
BY DEF Ledger, Registered

(* An operation that goes on, with the same responses.                     *)
LEMMA LedgerGoes ==
    ASSUME NEW op \in Op, Ledger(op), OpsType,
           ops'[op].resp = ops[op].resp, ops'[op].taken = ops[op].taken,
           ops'[op].chan = ops[op].chan, disp'.lastOp = disp.lastOp,
           Ids(op) \cap disp'.respWait = Ids(op) \cap disp.respWait,
           \/ ops[op].pc = "idle" /\ ops'[op].pc = "send"
           \/ ops'[op].pc \in {"ok", "failed"}
           \/ ops[op].pc \in {"write", "reconnect"} /\ ops'[op].pc \in {"write", "reconnect", "wait"}
    PROVE  Ledger(op)'
<1>1. Length(op) \in Nat \ {0} BY LengthType
<1>2. ops[op].resp \in Nat /\ ops[op].taken \in Nat BY DEF OpsType
<1>3. Registered(op)' = Registered(op) BY DEF Registered
<1>. QED BY <1>1, <1>2, <1>3 DEF Ledger

(* Every step keeps account of the responses.                              *)
LEMMA NextLedger == IInv /\ [Next]_vars => \A op \in Op : Ledger(op)'
<1>. SUFFICES ASSUME IInv, [Next]_vars PROVE \A op \in Op : Ledger(op)' OBVIOUS
<1>. Types /\ OpsType /\ SendLock /\ \A op \in Op : Ledger(op) BY DEF IInv, Types
<1>1. ASSUME UNCHANGED ops, disp'.lastOp = disp.lastOp, disp'.respWait = disp.respWait
      PROVE  \A op \in Op : Ledger(op)'
    BY <1>1, LedgerFrame
<1>2. ASSUME NEW op \in Op, Ledger(op)', disp'.lastOp = disp.lastOp, disp'.respWait = disp.respWait,
             \A q \in Op : q # op => ops'[q] = ops[q]
      PROVE  \A q \in Op : Ledger(q)'
    BY <1>2, LedgerFrame
<1>3. ASSUME NEW op \in Op, Begin(op) \/ GivesUp(op) PROVE \A q \in Op : Ledger(q)'
    <2>1. disp'.lastOp = disp.lastOp /\ disp'.respWait = disp.respWait BY <1>3, Frames
    <2>2. PICK pc \in {"send", "ok", "failed"} :
             Goes(op, pc) /\ (pc = "send" => ops[op].pc = "idle")
        BY <1>3 DEF Begin, GivesUp, ContextEnds, SendGivesUp, ReceiveClosed
    <2>. QED BY <1>2, <2>1, <2>2, OpGoes, LedgerGoes
<1>4. ASSUME NEW op \in Op, Receive(op) PROVE \A q \in Op : Ledger(q)'
    <2>1. disp'.lastOp = disp.lastOp /\ disp'.respWait = disp.respWait BY <1>4, Frames
    <2>2. Length(op) \in Nat /\ ops[op].resp \in Nat /\ ops[op].taken \in Nat
        BY LengthType DEF OpsType
    <2>3. Registered(op)' = Registered(op) /\ Cardinality(Registered(op)) \in Nat
        BY <2>1, SomeIds DEF Registered
    <2>4. Ledger(op)' BY <1>4, <2>2, <2>3, ReceiveUpdates DEF Ledger
    <2>. QED BY <1>2, <1>4, <2>1, <2>4, ReceiveUpdates
<1>5. ASSUME NEW op \in Op, Accept(op) PROVE \A q \in Op : Ledger(q)'
    <2>1. /\ disp'.lastOp = op /\ disp'.respWait = disp.respWait \cup Ids(op)
          /\ ops[op].pc = "send" /\ ops' = [ops EXCEPT ![op].pc = "write"]
        BY <1>5 DEF Accept, Types, DispType
    <2>2. /\ ops'[op].pc = "write" /\ ops'[op].resp = 0 /\ ops'[op].taken = 0
          /\ ops'[op].chan = "open" /\ \A q \in Op : q # op => ops'[q] = ops[q]
        <3>1. ops[op].resp = 0 /\ ops[op].taken = 0 /\ ops[op].chan = "open"
            BY <2>1 DEF Ledger
        <3>. QED BY <2>1, <3>1, OpMoves
    <2>3. Registered(op)' = Ids(op) BY <2>1 DEF Registered
    <2>4. Cardinality(Registered(op)') = Length(op) /\ Length(op) \in Nat \ {0}
        BY <2>3, IdsCounted, LengthType
    <2>5. Ledger(op)' BY <2>2, <2>4 DEF Ledger
    <2>6. ASSUME NEW q \in Op, q # op PROVE Ledger(q)'
        <3>1. Ids(q) \cap Ids(op) = {} BY <2>6, OwnerOfId
        <3>. QED BY <2>1, <2>2, <2>6, <3>1, LedgerFrame
    <2>. QED BY <2>5, <2>6
<1>6. ASSUME NEW op \in Op, Write(op) PROVE \A q \in Op : Ledger(q)'
    <2>1. ops[op].pc = "write" /\ UNCHANGED disp BY <1>6 DEF Write
    <2>2. Ledger(op)' BY <1>6, <2>1, WriteUpdates, LedgerGoes
    <2>. QED BY <1>2, <1>6, <2>1, <2>2, WriteUpdates
<1>7. ASSUME NEW op \in Op,
             SendError(op) \/ ReconnectGivesUp(op) \/ Dial(op) \/ Reconnected(op)
      PROVE  \A q \in Op : Ledger(q)'
    <2>1. disp'.lastOp = disp.lastOp /\ disp'.respWait = disp.respWait
        BY <1>7, Frames DEF ReconnectGivesUp, Dial, Reconnected, SendFails, Types, DispType
    <2>2. PICK pc \in {"write", "reconnect", "failed"} : ops' = [ops EXCEPT ![op].pc = pc]
        BY <1>7 DEF SendError, WriteFails, DialFails, SendFails, ReconnectGivesUp, Dial, Reconnected
    <2>3. ops[op].pc \in {"write", "reconnect"}
        BY <1>7 DEF SendError, WriteFails, DialFails, ReconnectGivesUp, Dial, Reconnected
    <2>4. /\ ops'[op].pc = pc /\ ops'[op].resp = ops[op].resp
          /\ ops'[op].taken = ops[op].taken /\ ops'[op].chan = ops[op].chan
          /\ \A q \in Op : q # op => ops'[q] = ops[q]
        BY <2>2, OpMoves
    <2>5. Ledger(op)' BY <2>1, <2>3, <2>4, LedgerGoes
    <2>. QED BY <1>2, <2>1, <2>4, <2>5
<1>8. ASSUME TakeSendDone PROVE \A q \in Op : Ledger(q)'
    <2>1. /\ UNCHANGED ops /\ disp'.lastOp = NoOp /\ NoOp \notin Op /\ out.done # "empty"
          /\ disp'.respWait = IF out.done = "error" THEN disp.respWait \ Ids(disp.lastOp)
                              ELSE disp.respWait
        BY <1>8, RpcAssumption DEF TakeSendDone, Types, DispType, RpcAssumption
    <2>2. ASSUME NEW q \in Op, ~(out.done = "error" /\ q = disp.lastOp) PROVE Ledger(q)'
        <3>1. disp.lastOp \in Op BY <2>1 DEF SendLock, Types, DispType
        <3>2. out.done = "error" => Ids(q) \cap Ids(disp.lastOp) = {} BY <2>2, <3>1, OwnerOfId
        <3>3. Ids(q) \cap disp'.respWait = Ids(q) \cap disp.respWait BY <2>1, <3>2
        <3>. QED BY <2>1, <3>3, LedgerFrame
    <2>3. ASSUME NEW q \in Op, out.done = "error", q = disp.lastOp PROVE Ledger(q)'
        <3>1. ops'[q].pc = "failed" BY <2>1, <2>3 DEF SendLock
        <3>2. Registered(q)' = {} BY <2>1, <2>3 DEF Registered
        <3>3. Cardinality(Registered(q)') = 0 BY <3>2, FS_EmptySet
        <3>4. /\ Cardinality(Registered(q)) \in Nat /\ Length(q) \in Nat
              /\ ops[q].resp \in Nat /\ ops[q].taken \in Nat
            BY SomeIds, LengthType DEF Registered, OpsType
        <3>5. ops[q].taken + ops[q].resp + Cardinality(Registered(q)) <= Length(q) BY DEF Ledger
        <3>. QED BY <2>1, <3>1, <3>2, <3>3, <3>4, <3>5 DEF Ledger
    <2>. QED BY <2>2, <2>3
<1>9. ASSUME NEW item, NEW respWait, NEW running, Handled(item, respWait, running)
      PROVE  disp'.lastOp = disp.lastOp /\ disp'.respWait = respWait
    BY <1>9 DEF Handled, Types, DispType
<1>10. ASSUME NEW id \in AllIds, NEW op \in Op, op = Owner(id), id \in disp.respWait,
              disp'.lastOp = disp.lastOp, disp'.respWait = disp.respWait \ {id},
              \A q \in Op : q # op => ops'[q] = ops[q]
       PROVE  /\ \A q \in Op : q # op => Ledger(q)'
              /\ Cardinality(Registered(op)) \in Nat /\ Registered(op) # {}
              /\ Cardinality(Registered(op)') = Cardinality(Registered(op)) - 1
              /\ Cardinality(Registered(op)') \in Nat /\ Registered(op)' \subseteq Registered(op)
    <2>1. id \in Ids(op) BY <1>10, OwnerOfId
    <2>2. ASSUME NEW q \in Op, q # op PROVE Ledger(q)'
        <3>1. id \notin Ids(q) BY <1>10, <2>2, OwnerOfId
        <3>. QED BY <1>10, <2>2, <3>1, LedgerFrame
    <2>3. Cardinality(Ids(op) \cap (disp.respWait \ {id})) = Cardinality(Ids(op) \cap disp.respWait) - 1
        BY <1>10, <2>1, SomeIds
    <2>4. Registered(op)' = Ids(op) \cap (disp.respWait \ {id}) BY <1>10 DEF Registered
    <2>5. Cardinality(Registered(op)) \in Nat /\ Cardinality(Registered(op)') \in Nat
        BY <2>4, SomeIds DEF Registered
    <2>. QED BY <1>10, <2>1, <2>2, <2>3, <2>4, <2>5 DEF Registered
<1>11. ASSUME NEW id \in AllIds, HandleResponse(id) PROVE \A q \in Op : Ledger(q)'
    <2>. DEFINE op == Owner(id)
    <2>1. op \in Op BY OwnerOfId
    <2>2. /\ id \in disp.respWait /\ ops' = [ops EXCEPT ![op].resp = ops[op].resp + 1]
          /\ disp'.lastOp = disp.lastOp /\ disp'.respWait = disp.respWait \ {id}
        BY <1>9, <1>11 DEF HandleResponse, RespWaitWithout
    <2>. HIDE DEF op
    <2>3. /\ ops'[op].pc = ops[op].pc /\ ops'[op].resp = ops[op].resp + 1
          /\ ops'[op].taken = ops[op].taken /\ ops'[op].chan = ops[op].chan
          /\ \A q \in Op : q # op => ops'[q] = ops[q]
        BY <2>1, <2>2, RespUpdates
    <2>4. /\ \A q \in Op : q # op => Ledger(q)'
          /\ Cardinality(Registered(op)) \in Nat /\ Registered(op) # {}
          /\ Cardinality(Registered(op)') = Cardinality(Registered(op)) - 1
          /\ Registered(op)' \subseteq Registered(op)
        BY <1>10, <2>1, <2>2, <2>3 DEF op
    <2>5. Length(op) \in Nat /\ ops[op].resp \in Nat /\ ops[op].taken \in Nat
        BY <2>1, LengthType DEF OpsType
    <2>6. Ledger(op)' BY <2>1, <2>3, <2>4, <2>5 DEF Ledger
    <2>. QED BY <2>4, <2>6
<1>12. ASSUME NEW s \in Sub, HandleSubscribed(s) PROVE \A q \in Op : Ledger(q)'
    <2>. DEFINE op == SubscribeOp(s)
                id == SubscribeId(s)
    <2>1. op \in Op /\ id \in AllIds /\ Owner(id) = op BY DistinctOps, SubscribeIds
    <2>2. PICK chan \in {"closed", "error"} : ops' = [ops EXCEPT ![op].chan = chan]
        BY <1>12 DEF HandleSubscribed
    <2>3. /\ id \in disp.respWait
          /\ disp'.lastOp = disp.lastOp /\ disp'.respWait = disp.respWait \ {id}
        BY <1>9, <1>12 DEF HandleSubscribed, RespWaitWithout, SubscribeId
    <2>4. /\ ops'[op].pc = ops[op].pc /\ ops'[op].resp = ops[op].resp
          /\ ops'[op].taken = ops[op].taken /\ ops'[op].chan = chan
          /\ \A q \in Op : q # op => ops'[q] = ops[q]
        BY <2>1, <2>2, ChanUpdates
    <2>5. Registered(op)' = {} BY <2>3, SubscribeIds DEF Registered
    <2>. HIDE DEF op, id
    <2>6. /\ \A q \in Op : q # op => Ledger(q)'
          /\ Cardinality(Registered(op)) \in Nat /\ Registered(op) # {}
          /\ Cardinality(Registered(op)') = Cardinality(Registered(op)) - 1
        BY <1>10, <2>1, <2>3, <2>4
    <2>7. Length(op) \in Nat /\ ops[op].resp \in Nat /\ ops[op].taken \in Nat
        BY <2>1, LengthType DEF OpsType
    <2>8. Ledger(op)' BY <2>1, <2>4, <2>5, <2>6, <2>7 DEF Ledger
    <2>. QED BY <2>6, <2>8
<1>13. ASSUME CloseOps, disp'.lastOp = disp.lastOp, disp'.respWait = {}
       PROVE  \A q \in Op : Ledger(q)'
    <2>. SUFFICES ASSUME NEW q \in Op PROVE Ledger(q)' OBVIOUS
    <2>1. Registered(q)' = {} BY <1>13 DEF Registered
    <2>2. Cardinality(Registered(q)') = 0 BY <2>1, FS_EmptySet
    <2>3. /\ ops'[q].pc = ops[q].pc /\ ops'[q].resp = ops[q].resp
          /\ ops'[q].taken = ops[q].taken
          /\ ops'[q].chan = IF q \in {Owner(id) : id \in disp.respWait} THEN "error"
                            ELSE ops[q].chan
        BY <1>13, CloseUpdates
    <2>4. Registered(q) # {} <=> q \in {Owner(id) : id \in disp.respWait}
        BY OwnerOfId DEF Registered, Types, DispType
    <2>5. Registered(q) = {} => Cardinality(Registered(q)) = 0 BY FS_EmptySet
    <2>6. /\ Length(q) \in Nat /\ ops[q].resp \in Nat /\ ops[q].taken \in Nat
          /\ Cardinality(Registered(q)) \in Nat
        BY LengthType, SomeIds DEF OpsType, Registered
    <2>. QED BY <1>13, <2>1, <2>2, <2>3, <2>4, <2>5, <2>6 DEF Ledger
<1>14. ASSUME NEW c \in Conn,
              TakeResp(c) \/ TakeErr(c) \/ DrainResp(c) \/ DrainErr(c) \/ AwaitErr(c) \/ NetStep(c)
              \/ \E ids \in SUBSET net[c].server : Answer(c, ids)
       PROVE  \A q \in Op : Ledger(q)'
    <2>1. CASE TakeErr(c) BY <1>13, <2>1 DEF TakeErr, Types, DispType
    <2>2. CASE ~TakeErr(c)
        <3>1. UNCHANGED ops /\ disp'.lastOp = disp.lastOp /\ disp'.respWait = disp.respWait
            BY <1>14, <2>2, Frames
            DEF TakeResp, DrainResp, DrainErr, AwaitErr, Answer, Types, DispType
        <3>. QED BY <1>1, <3>1
    <2>. QED BY <2>1, <2>2
<1>15. ASSUME NEW k \in Closer, CloserStep(k) \/ TakeClose(k) PROVE \A q \in Op : Ledger(q)'
    <2>1. CASE TakeClose(k) BY <1>13, <2>1 DEF TakeClose, Types, DispType
    <2>2. CASE CloserStep(k) BY <1>1, <2>2, Frames
    <2>. QED BY <1>15, <2>1, <2>2
<1>16. ASSUME \/ \E s \in Sub : QuitSub(s) \/ SubStep(s) \/ Notify(s)
                   \/ \E n \in 1 .. MaxNote : Deliver(s, n)
              \/ ReadErrDone \/ CloseDone \/ \E item \in disp.batch : Drop(item)
       PROVE  \A q \in Op : Ledger(q)'
    <2>1. UNCHANGED ops /\ disp'.lastOp = disp.lastOp /\ disp'.respWait = disp.respWait
        BY <1>9, <1>16, Frames
        DEF QuitSub, Notify, Deliver, ReadErrDone, CloseDone, Drop, Types, DispType
    <2>. QED BY <1>1, <2>1
<1>17. ASSUME NEW s \in Sub, NEW who \in {"user", "forward"}, EnterOnce(s, who)
       PROVE  \A q \in Op : Ledger(q)'
    <2>1. /\ UnsubscribeOp(s) \in Op /\ ops[UnsubscribeOp(s)].pc = "idle" /\ UNCHANGED disp
          /\ ops' = [ops EXCEPT ![UnsubscribeOp(s)].pc = "send"]
        BY <1>17, DistinctOps DEF EnterOnce, IInv, QuitOnce
    <2>2. Ledger(UnsubscribeOp(s))' BY <2>1, OpMoves, LedgerGoes
    <2>. QED BY <1>2, <2>1, <2>2, OpMoves
<1>18. ASSUME UNCHANGED vars PROVE \A q \in Op : Ledger(q)' BY <1>1, <1>18 DEF vars
<1>. QED
    BY <1>3, <1>4, <1>5, <1>6, <1>7, <1>8, <1>11, <1>12, <1>14, <1>15, <1>16, <1>17, <1>18, Actions

-----------------------------------------------------------------------------
(* Every step preserves what dispatch leaves where it is in its loop. *)
LEMMA NextLoopStates == IInv /\ [Next]_vars => LoopStates'
<1>. SUFFICES ASSUME IInv, [Next]_vars PROVE LoopStates' OBVIOUS
<1>. Types /\ DispType /\ LoopStates /\ Readers BY DEF IInv, Types
<1>1. ASSUME loop' = loop \/ loop' = "select" \/ loop' = "await", disp'.batch = disp.batch,
             (loop = "handle" <=> loop' = "handle"), disp'.respWait \subseteq disp.respWait,
             disp'.subs \subseteq disp.subs
      PROVE  LoopStates'
    BY <1>1 DEF LoopStates
<1>2. ASSUME NEW op \in Op,
             Write(op) \/ Dial(op) \/ ReconnectGivesUp(op) \/ Begin(op) \/ GivesUp(op) \/ Receive(op)
             \/ SendError(op)
      PROVE  LoopStates'
    <2>1. UNCHANGED <<loop, disp>> BY <1>2, Frames DEF Write, Dial, ReconnectGivesUp, SendFails
    <2>. QED BY <1>1, <2>1
<1>3. ASSUME NEW op \in Op, Accept(op) PROVE LoopStates'
    <2>1. /\ loop = "select" /\ loop' = loop /\ disp'.batch = disp.batch /\ disp'.subs = disp.subs
        BY <1>3 DEF Accept, DispType
    <2>. QED BY <2>1 DEF LoopStates
<1>4. ASSUME NEW op \in Op, Reconnected(op) PROVE LoopStates'
    <2>1. /\ loop = "select" /\ loop' \in {"select", "await"} /\ disp'.batch = disp.batch
          /\ disp'.subs = disp.subs /\ disp'.respWait = disp.respWait
        BY <1>4 DEF Reconnected, DispType
    <2>. QED BY <2>1 DEF LoopStates
<1>5. ASSUME TakeSendDone PROVE LoopStates'
    <2>1. /\ loop' = loop /\ disp'.batch = disp.batch /\ disp'.subs = disp.subs
          /\ disp'.respWait \subseteq disp.respWait
        BY <1>5 DEF TakeSendDone, DispType
    <2>. QED BY <1>1, <2>1
<1>6. ASSUME NEW c \in Conn, TakeResp(c) PROVE LoopStates'
    <2>1. /\ loop' = "handle" /\ disp'.batch = net[c].message /\ net[c].message # {}
        BY <1>6 DEF TakeResp, DispType, Readers
    <2>. QED BY <2>1 DEF LoopStates
<1>7. ASSUME NEW item, NEW respWait, NEW running, Handled(item, respWait, running)
      PROVE  LoopStates'
    BY <1>7 DEF Handled, LoopStates
<1>8. ASSUME NEW id \in AllIds, HandleResponse(id) PROVE LoopStates'
    BY <1>7, <1>8 DEF HandleResponse
<1>9. ASSUME NEW s \in Sub, HandleSubscribed(s) PROVE LoopStates'
    BY <1>7, <1>9 DEF HandleSubscribed
<1>10. ASSUME NEW s \in Sub, NEW n \in 1 .. MaxNote, Deliver(s, n) PROVE LoopStates'
    BY <1>7, <1>10 DEF Deliver
<1>11. ASSUME NEW item \in disp.batch, Drop(item) PROVE LoopStates'
    BY <1>7, <1>11 DEF Drop
<1>12. ASSUME NEW c \in Conn, TakeErr(c) PROVE LoopStates'
    <2>1. /\ loop = "select" /\ loop' = "failing" /\ disp'.batch = disp.batch
          /\ disp'.respWait = {}
        BY <1>12 DEF TakeErr, DispType
    <2>. QED BY <2>1 DEF LoopStates
<1>13. ASSUME NEW k \in Closer, CloserStep(k) \/ TakeClose(k) PROVE LoopStates'
    <2>1. CASE CloserStep(k)
        <3>1. UNCHANGED <<loop, disp>> BY <2>1, Frames
        <3>. QED BY <1>1, <3>1
    <2>2. CASE TakeClose(k)
        <3>1. /\ loop = "select" /\ loop' = "quitting" /\ disp'.batch = disp.batch
              /\ disp'.respWait = {}
            BY <2>2 DEF TakeClose, DispType
        <3>. QED BY <3>1 DEF LoopStates
    <2>. QED BY <1>13, <2>1, <2>2
<1>14. ASSUME NEW s \in Sub, QuitSub(s) PROVE LoopStates'
    <2>1. /\ loop' = loop /\ disp'.batch = disp.batch /\ disp'.subs \subseteq disp.subs
          /\ disp'.respWait = disp.respWait
        BY <1>14 DEF QuitSub, DispType
    <2>. QED BY <1>1, <2>1
<1>15. ASSUME ReadErrDone PROVE LoopStates'
    <2>1. /\ loop = "failing" /\ loop' = "select" /\ disp'.batch = disp.batch
        BY <1>15 DEF ReadErrDone, DispType
    <2>. QED BY <2>1 DEF LoopStates
<1>16. ASSUME CloseDone PROVE LoopStates'
    <2>1. /\ loop = "quitting" /\ loop' \in {"draining", "quit"} /\ UNCHANGED disp
          /\ disp.subs = {}
        BY <1>16 DEF CloseDone
    <2>. QED BY <2>1 DEF LoopStates
<1>17. ASSUME NEW c \in Conn, AwaitErr(c) PROVE LoopStates'
    <2>1. /\ loop = "await" /\ loop' = "select" /\ disp'.batch = disp.batch
        BY <1>17 DEF AwaitErr, DispType
    <2>. QED BY <2>1 DEF LoopStates
<1>18. ASSUME NEW c \in Conn, DrainErr(c) PROVE LoopStates'
    BY <1>18 DEF DrainErr, LoopStates
<1>19. ASSUME NEW c \in Conn,
              DrainResp(c) \/ NetStep(c) \/ \E ids \in SUBSET net[c].server : Answer(c, ids)
       PROVE  LoopStates'
    <2>1. UNCHANGED <<loop, disp>> BY <1>19, Frames DEF DrainResp, Answer
    <2>. QED BY <1>1, <2>1
<1>20. ASSUME NEW s \in Sub,
              SubStep(s) \/ Notify(s) \/ \E who \in {"user", "forward"} : EnterOnce(s, who)
       PROVE  LoopStates'
    <2>1. UNCHANGED <<loop, disp>> BY <1>20, Frames DEF Notify, EnterOnce
    <2>. QED BY <1>1, <2>1
<1>21. ASSUME UNCHANGED vars PROVE LoopStates' BY <1>1, <1>21 DEF vars
<1>. QED
    BY <1>2, <1>3, <1>4, <1>5, <1>6, <1>8, <1>9, <1>10, <1>11, <1>12, <1>13, <1>14, <1>15, <1>16,
       <1>17, <1>18, <1>19, <1>20, <1>21, Actions

-----------------------------------------------------------------------------
(* Every step preserves the readers. *)

(* What opening or closing a connection does to it.                        *)
LEMMA NetOpens ==
    ASSUME NetType, NEW c \in Conn, NEW open, net' = [net EXCEPT ![c].open = open]
    PROVE  /\ net'[c].open = open /\ net'[c].reader = net[c].reader
           /\ net'[c].message = net[c].message /\ net'[c].broken = net[c].broken
           /\ net'[c].server = net[c].server
           /\ \A d \in Conn : d # c => net'[d] = net[d]
BY DEF NetType

(* What a step of the reader of a connection does to it.                   *)
LEMMA NetReader ==
    ASSUME NetType, NEW c \in Conn, NEW reader, net' = [net EXCEPT ![c].reader = reader]
    PROVE  /\ net'[c].open = net[c].open /\ net'[c].reader = reader
           /\ net'[c].message = net[c].message /\ net'[c].broken = net[c].broken
           /\ net'[c].server = net[c].server
           /\ \A d \in Conn : d # c => net'[d] = net[d]
BY DEF NetType

(* What taking the message of a reader does to its connection.             *)
LEMMA NetTaken ==
    ASSUME NetType, NEW c \in Conn, NEW reader,
           net' = [net EXCEPT ![c].reader = reader, ![c].message = {}]
    PROVE  /\ net'[c].open = net[c].open /\ net'[c].reader = reader
           /\ net'[c].message = {} /\ net'[c].broken = net[c].broken
           /\ net'[c].server = net[c].server
           /\ \A d \in Conn : d # c => net'[d] = net[d]
BY DEF NetType

(* What the loss of a connection does to it.                               *)
LEMMA NetBreaks ==
    ASSUME NetType, NEW c \in Conn, Break(c)
    PROVE  /\ net'[c].open = net[c].open /\ net'[c].reader = net[c].reader
           /\ net'[c].message = net[c].message /\ net'[c].server = net[c].server
           /\ \A d \in Conn : d # c => net'[d] = net[d]
BY DEF NetType, Break

(* A reader goes on to report what it has read, or its error.              *)
LEMMA ReadUpdates ==
    ASSUME NetType, NEW c \in Conn, Decode(c) \/ ReadFails(c) \/ DecodeFails(c)
    PROVE  \E to \in {"resp", "err"} :
              /\ net[c].reader = "decode" /\ net'[c].reader = to
              /\ to = "resp" => net[c].message # {}
              /\ net'[c].open = net[c].open /\ net'[c].message = net[c].message
              /\ net'[c].broken = net[c].broken /\ net'[c].server = net[c].server
              /\ \A d \in Conn : d # c => net'[d] = net[d]
<1>1. PICK to \in {"resp", "err"} : Reads(c, to) /\ (to = "resp" => net[c].message # {})
    BY DEF Decode, ReadFails, DecodeFails
<1>2. net[c].reader = "decode" /\ net' = [net EXCEPT ![c].reader = to] BY <1>1 DEF Reads
<1>. QED BY <1>1, <1>2, NetReader

(* Writing changes what the server has received.                           *)
LEMMA WriteNet ==
    ASSUME NetType, OutType, NEW op \in Op, Write(op)
    PROVE  /\ out.conn \in Conn /\ net[out.conn].open
           /\ \A c \in Conn :
                 /\ net'[c].open = net[c].open /\ net'[c].reader = net[c].reader
                 /\ net'[c].message = net[c].message /\ net'[c].broken = net[c].broken
                 /\ c # out.conn \/ net[c].broken => net'[c].server = net[c].server
           /\ net'[out.conn].server \subseteq net[out.conn].server \cup Ids(op)
BY DEF NetType, OutType, Write

(* Answering and notifying put something in a message.                     *)
LEMMA AnswerNet ==
    ASSUME NetType, NEW c \in Conn, NEW ids \in SUBSET net[c].server, Answer(c, ids)
    PROVE  /\ ids # {} /\ net[c].message = {} /\ net'[c].message = ids
           /\ net'[c].server = (net[c].server \ ids) \cup (ids \cap Repeated)
           /\ \A d \in Conn :
                 /\ net'[d].open = net[d].open /\ net'[d].reader = net[d].reader
                 /\ net'[d].broken = net[d].broken
                 /\ d # c => net'[d] = net[d]
BY DEF NetType, Answer

(* What a notification of the server changes.                              *)
LEMMA NotifyUpdates ==
    ASSUME NetType, SubsType, NEW s \in Sub, Notify(s)
    PROVE  /\ subs[s].live \in Conn /\ net[subs[s].live].message = {}
           /\ subs[s].sent + 1 \in 1 .. MaxNote /\ subs[s].sent \in Nat
           /\ net'[subs[s].live].message = {Note(s, subs[s].sent + 1)}
           /\ \A d \in Conn :
                 /\ net'[d].open = net[d].open /\ net'[d].reader = net[d].reader
                 /\ net'[d].broken = net[d].broken /\ net'[d].server = net[d].server
                 /\ d # subs[s].live => net'[d] = net[d]
           /\ subs' = [subs EXCEPT ![s].sent = subs[s].sent + 1]
<1>1. subs[s].live \in Conn /\ net[subs[s].live].message = {}
    BY SubFields DEF Notify
<1>2. subs[s].sent + 1 \in 1 .. MaxNote /\ subs[s].sent \in Nat
    BY SubFields, RpcAssumption DEF Notify, RpcAssumption
<1>3. subs' = [subs EXCEPT ![s].sent = subs[s].sent + 1] BY DEF Notify
<1>4. subs'[s].sent = subs[s].sent + 1 BY <1>3 DEF SubsType, SubRecord
<1>5. net' = [net EXCEPT ![subs[s].live].message = {Note(s, subs[s].sent + 1)}]
    BY <1>4 DEF Notify
<1>. QED BY <1>1, <1>2, <1>3, <1>5 DEF NetType

(* What the readers are about.                                             *)
LEMMA ReadersFrame ==
    ASSUME Readers, NetType,
           \A c \in Conn : net'[c].reader = net[c].reader,
           \A c \in Conn : net[c].message # {} => net'[c].message # {},
           disp'.conn = disp.conn, disp'.conn \in Conn, disp'.reading = disp.reading,
           \/ loop' = loop
           \/ loop = "select" /\ loop' \in {"handle", "await", "quitting"}
           \/ loop = "handle" /\ loop' = "select"
    PROVE  Readers'
BY DEF Readers

(* The reader of the connection of dispatch comes to its end.              *)
LEMMA ReaderEnds ==
    ASSUME Readers, NetType, NEW c \in Conn, net[c].reader = "err",
           net' = [net EXCEPT ![c].reader = "exited"], disp'.conn = disp.conn,
           loop' \in {"failing", "quit"}
    PROVE  Readers'
<1>1. \A d \in Conn : net[d].reader \in Alive => d = c
    BY DEF Readers, Alive
<1>2. \A d \in Conn : net'[d].reader \notin Alive
    <2>1. net'[c].reader = "exited" /\ \A d \in Conn : d # c => net'[d] = net[d]
        BY NetReader
    <2>. QED BY <1>1, <2>1 DEF Alive
<1>. QED BY <1>2 DEF Readers, Alive

(* Nobody reads any more, and dispatch starts a reader.                    *)
LEMMA ReaderBegins ==
    ASSUME NEW d \in Conn, disp'.conn = d, disp'.reading = TRUE, loop' = "select",
           net'[d].reader = "decode", \A c \in Conn : c # d => net'[c].reader \notin Alive
    PROVE  Readers'
BY DEF Readers, Alive

(* Every step keeps the readers apart.                                     *)
LEMMA NextReaders == IInv /\ [Next]_vars => Readers'
<1>. SUFFICES ASSUME IInv, [Next]_vars PROVE Readers' OBVIOUS
<1>. Types /\ DispType /\ NetType /\ OutType /\ SubsType /\ LoopStates /\ Readers
    BY DEF IInv, Types
<1>1. disp.conn \in Conn BY DEF DispType
<1>2. ASSUME UNCHANGED <<net, loop>>, disp'.conn = disp.conn, disp'.reading = disp.reading
      PROVE  Readers'
    BY <1>1, <1>2, ReadersFrame
<1>3. ASSUME NEW op \in Op,
             Begin(op) \/ GivesUp(op) \/ Receive(op) \/ SendError(op) \/ Accept(op)
      PROVE  Readers'
    <2>1. UNCHANGED <<net, loop>> /\ disp'.conn = disp.conn /\ disp'.reading = disp.reading
        BY <1>3, Frames DEF Accept, DispType
    <2>. QED BY <1>2, <2>1
<1>4. ASSUME NEW op \in Op, Write(op) PROVE Readers'
    <2>1. UNCHANGED <<loop, disp>> BY <1>4 DEF Write
    <2>. QED BY <1>1, <1>4, <2>1, WriteNet, ReadersFrame
<1>5. ASSUME NEW c \in Conn, NEW open, net' = [net EXCEPT ![c].open = open],
             disp'.conn = disp.conn, disp'.reading = disp.reading,
             loop' = loop \/ (loop = "select" /\ loop' = "await")
      PROVE  Readers'
    <2>1. \A d \in Conn : net'[d].reader = net[d].reader /\ net'[d].message = net[d].message
        BY <1>5, NetOpens
    <2>. QED BY <1>1, <1>5, <2>1, ReadersFrame
<1>6. ASSUME NEW op \in Op, Dial(op) PROVE Readers'
    <2>1. out'.dialled \in Conn BY NextTypes DEF Types, OutType
    <2>2. /\ UNCHANGED <<loop, disp>>
          /\ net' = [net EXCEPT ![out'.dialled].open = TRUE]
        BY <1>6 DEF Dial
    <2>. QED BY <1>5, <2>1, <2>2
<1>7. ASSUME NEW op \in Op, ReconnectGivesUp(op) PROVE Readers'
    <2>1. out.dialled \in Conn BY DEF OutType
    <2>2. /\ UNCHANGED <<loop, disp>>
          /\ net' = [net EXCEPT ![out.dialled].open = FALSE]
        BY <1>7 DEF ReconnectGivesUp, SendFails
    <2>. QED BY <1>5, <2>1, <2>2
<1>8. ASSUME NEW op \in Op, Reconnected(op) PROVE Readers'
    <2>1. CASE OldReader
        <3>1. /\ loop = "select" /\ loop' = "await" /\ UNCHANGED disp
              /\ net' = [net EXCEPT ![disp.conn].open = FALSE]
            BY <1>8, <2>1 DEF Reconnected
        <3>. QED BY <1>1, <1>5, <3>1
    <2>2. CASE ~OldReader
        <3>1. /\ loop = "select" /\ loop' = "select"
              /\ disp'.reading = TRUE /\ disp'.conn = out.dialled
              /\ net' = [net EXCEPT ![out.dialled].reader = "decode"]
            BY <1>8, <2>2 DEF Reconnected, DispType
        <3>2. \A c \in Conn : net[c].reader \notin Alive
            BY <2>2 DEF Readers, OldReader
        <3>3. out.dialled \in Conn BY DEF OutType
        <3>4. /\ net'[out.dialled].reader = "decode"
              /\ \A c \in Conn : c # out.dialled => net'[c].reader \notin Alive
            BY <3>1, <3>2, <3>3, NetReader
        <3>. QED BY <3>1, <3>3, <3>4, ReaderBegins
    <2>. QED BY <2>1, <2>2
<1>9. ASSUME TakeSendDone PROVE Readers'
    <2>1. UNCHANGED <<net, loop>> /\ disp'.conn = disp.conn /\ disp'.reading = disp.reading
        BY <1>9 DEF TakeSendDone, DispType
    <2>. QED BY <1>2, <2>1
<1>10. ASSUME NEW c \in Conn, TakeResp(c) \/ DrainResp(c) PROVE Readers'
    <2>1. /\ disp'.conn = disp.conn /\ disp'.reading = disp.reading
          /\ loop' = loop \/ (loop = "select" /\ loop' = "handle")
          /\ net[c].reader = "resp"
          /\ net' = [net EXCEPT ![c].reader = "decode", ![c].message = {}]
        BY <1>10 DEF TakeResp, DrainResp, DispType
    <2>2. /\ net'[c].reader = "decode" /\ \A d \in Conn : d # c => net'[d] = net[d]
        BY <2>1, NetTaken
    <2>3. c = disp.conn /\ disp.reading /\ loop \notin {"failing", "quit"}
        BY <2>1 DEF Readers, Alive
    <2>4. \A d \in Conn : d # c => net[d].reader \notin Alive BY <2>3 DEF Readers
    <2>5. \A d \in Conn : net'[d].reader \in Alive => d = c BY <2>2, <2>4
    <2>6. \A d \in Conn : net'[d].reader = "resp" => net'[d].message # {}
        BY <2>2 DEF Readers
    <2>. QED BY <2>1, <2>2, <2>3, <2>5, <2>6 DEF Readers
<1>11. ASSUME NEW item, NEW respWait, NEW running, Handled(item, respWait, running)
       PROVE  Readers'
    <2>1. /\ UNCHANGED net /\ disp'.conn = disp.conn /\ disp'.reading = disp.reading
          /\ loop = "handle" /\ loop' \in {"handle", "select"}
        BY <1>11 DEF Handled, DispType
    <2>. QED BY <1>1, <2>1, ReadersFrame
<1>12. ASSUME \/ \E id \in AllIds : HandleResponse(id)
              \/ \E item \in disp.batch : Drop(item)
              \/ \E s \in Sub : HandleSubscribed(s) \/ \E n \in 1 .. MaxNote : Deliver(s, n)
       PROVE  Readers'
    BY <1>11, <1>12 DEF HandleResponse, Drop, HandleSubscribed, Deliver
<1>13. ASSUME NEW c \in Conn, TakeErr(c) \/ DrainErr(c) PROVE Readers'
    <2>1. /\ net[c].reader = "err" /\ net' = [net EXCEPT ![c].reader = "exited"]
          /\ disp'.conn = disp.conn /\ loop' \in {"failing", "quit"}
        BY <1>13 DEF TakeErr, DrainErr, DispType
    <2>. QED BY <2>1, ReaderEnds
<1>14. ASSUME NEW k \in Closer, CloserStep(k) \/ TakeClose(k) PROVE Readers'
    <2>1. /\ UNCHANGED net /\ disp'.conn = disp.conn /\ disp'.reading = disp.reading
          /\ loop' = loop \/ (loop = "select" /\ loop' = "quitting")
        BY <1>14, Frames DEF TakeClose, DispType
    <2>. QED BY <1>1, <2>1, ReadersFrame
<1>15. ASSUME NEW s \in Sub, QuitSub(s) PROVE Readers'
    <2>1. UNCHANGED <<net, loop>> /\ disp'.conn = disp.conn /\ disp'.reading = disp.reading
        BY <1>15 DEF QuitSub, DispType
    <2>. QED BY <1>2, <2>1
<1>16. ASSUME ReadErrDone \/ CloseDone PROVE Readers'
    <2>1. /\ net' = [net EXCEPT ![disp.conn].open = FALSE] /\ disp'.conn = disp.conn
          /\ \/ loop = "failing" /\ loop' = "select" /\ disp'.reading = FALSE
             \/ /\ loop = "quitting" /\ disp'.reading = disp.reading
                /\ loop' = IF disp.reading THEN "draining" ELSE "quit"
        BY <1>16 DEF ReadErrDone, CloseDone, ConnClosed, DispType
    <2>2. \A d \in Conn : net'[d].reader = net[d].reader /\ net'[d].message = net[d].message
        BY <1>1, <2>1, NetOpens
    <2>. QED BY <2>1, <2>2 DEF Readers
<1>17. ASSUME NEW c \in Conn, AwaitErr(c) PROVE Readers'
    <2>1. /\ net[c].reader = "err" /\ out.dialled \in Conn /\ loop' = "select"
          /\ net' = [net EXCEPT ![c].reader = "exited", ![out.dialled].reader = "decode"]
          /\ disp'.reading = TRUE /\ disp'.conn = out.dialled
        BY <1>17 DEF AwaitErr, DispType, OutType
    <2>2. c = disp.conn /\ \A d \in Conn : d # c => net[d].reader \notin Alive
        BY <2>1 DEF Readers, Alive
    <2>3. /\ net'[out.dialled].reader = "decode"
          /\ \A d \in Conn : d # out.dialled =>
                net'[d].reader = IF d = c THEN "exited" ELSE net[d].reader
        BY <2>1 DEF NetType
    <2>4. \A d \in Conn : d # out.dialled => net'[d].reader \notin Alive
        BY <2>2, <2>3 DEF Alive
    <2>. QED BY <2>1, <2>3, <2>4, ReaderBegins
<1>18. ASSUME NEW c \in Conn, NetStep(c) PROVE Readers'
    <2>1. UNCHANGED <<loop, disp>> BY <1>18, Frames
    <2>2. CASE Break(c)
        <3>1. \A d \in Conn : net'[d].reader = net[d].reader /\ net'[d].message = net[d].message
            BY <2>2, NetBreaks
        <3>. QED BY <1>1, <2>1, <3>1, ReadersFrame
    <2>3. CASE Decode(c) \/ ReadFails(c) \/ DecodeFails(c)
        <3>1. PICK to \in {"resp", "err"} :
                 /\ net[c].reader = "decode" /\ net'[c].reader = to
                 /\ to = "resp" => net[c].message # {}
                 /\ net'[c].message = net[c].message
                 /\ \A d \in Conn : d # c => net'[d] = net[d]
            BY <2>3, ReadUpdates
        <3>2. c = disp.conn /\ disp.reading /\ loop \notin {"failing", "quit"}
              /\ \A d \in Conn : d # c => net[d].reader \notin Alive
            BY <3>1 DEF Readers, Alive
        <3>3. \A d \in Conn : net'[d].reader \in Alive => d = c BY <3>1, <3>2
        <3>4. \A d \in Conn : net'[d].reader = "resp" => net'[d].message # {}
            BY <3>1 DEF Readers
        <3>. QED BY <2>1, <3>1, <3>2, <3>3, <3>4 DEF Readers
    <2>. QED BY <1>18, <2>2, <2>3 DEF NetStep
<1>19. ASSUME NEW c \in Conn, NEW ids \in SUBSET net[c].server, Answer(c, ids) PROVE Readers'
    <2>1. UNCHANGED <<loop, disp>> BY <1>19 DEF Answer
    <2>. QED BY <1>1, <1>19, <2>1, AnswerNet, ReadersFrame
<1>20. ASSUME NEW s \in Sub, Notify(s) PROVE Readers'
    <2>1. UNCHANGED <<loop, disp>> BY <1>20 DEF Notify
    <2>2. /\ \A d \in Conn : net'[d].reader = net[d].reader
          /\ \A d \in Conn : net[d].message # {} => net'[d].message # {}
        BY <1>20, NotifyUpdates
    <2>. QED BY <1>1, <2>1, <2>2, ReadersFrame
<1>21. ASSUME NEW s \in Sub, SubStep(s) \/ \E who \in {"user", "forward"} : EnterOnce(s, who)
       PROVE  Readers'
    <2>1. UNCHANGED <<net, loop, disp>> BY <1>21, Frames DEF EnterOnce
    <2>. QED BY <1>2, <2>1
<1>22. ASSUME UNCHANGED vars PROVE Readers' BY <1>2, <1>22 DEF vars
<1>. QED
    BY <1>3, <1>4, <1>6, <1>7, <1>8, <1>9, <1>10, <1>12, <1>13, <1>14, <1>15, <1>16, <1>17, <1>18,
       <1>19, <1>20, <1>21, <1>22, Actions

-----------------------------------------------------------------------------
(* Every step preserves what holds of the connections. *)

(* What the connections are about.                                         *)
LEMMA ConnectionsFrame ==
    ASSUME Connections,
           \A c \in Conn : net'[c].open = net[c].open, disp'.conn \in Conn,
           disp'.conn = disp.conn, disp'.reading = disp.reading,
           UNCHANGED out, out.dialled \in Conn,
           \A op \in Op : ops'[op].pc = "reconnect" <=> ops[op].pc = "reconnect",
           \A op \in Op : ops'[op].pc = "write" => ops[op].pc = "write" \/ loop' # "await",
           \/ loop' = loop
           \/ {loop, loop'} \subseteq {"select", "handle", "failing", "quitting"}
           \/ {loop, loop'} \subseteq {"draining", "quit"}
    PROVE  Connections'
<1>1. \A c \in Conn : net'[c].open => \/ c = disp'.conn /\ loop' \notin {"draining", "quit"}
                                      \/ /\ c = out'.dialled
                                         /\ loop' = "await" \/ \E op \in Op : ops'[op].pc = "reconnect"
    BY DEF Connections, NoConnectionLeaks
<1>2. NoConnectionLeaks' BY <1>1 DEF NoConnectionLeaks
<1>. QED BY <1>2 DEF Connections

(* Every step keeps account of the connections.                            *)
LEMMA NextConnections == IInv /\ [Next]_vars => Connections'
<1>. SUFFICES ASSUME IInv, [Next]_vars PROVE Connections' OBVIOUS
<1>. Types /\ DispType /\ NetType /\ OutType /\ SubsType /\ OpsType /\ SendLock /\ Connections
    BY DEF IInv, Types
<1>1. disp.conn \in Conn /\ out.dialled \in Conn BY DEF DispType, OutType
<1>2. NoConnectionLeaks BY DEF Connections
<1>3. ASSUME \A op \in Op : ops'[op].pc = ops[op].pc, \A c \in Conn : net'[c].open = net[c].open,
             disp'.conn = disp.conn, disp'.reading = disp.reading,
             out' = out, 
             \/ loop' = loop
             \/ {loop, loop'} \subseteq {"select", "handle", "failing", "quitting"}
             \/ {loop, loop'} \subseteq {"draining", "quit"}
      PROVE  Connections'
    BY <1>1, <1>3, ConnectionsFrame
<1>4. ASSUME NEW op \in Op, Begin(op) \/ GivesUp(op) \/ Receive(op) PROVE Connections'
    <2>1. UNCHANGED <<net, loop, disp, out>> BY <1>4, Frames
    <2>2. \A q \in Op : q # op => ops'[q] = ops[q]
        BY <1>4, OpGoes, ReceiveUpdates
        DEF Begin, GivesUp, ContextEnds, SendGivesUp, ReceiveClosed
    <2>3. /\ ops[op].pc \notin {"write", "reconnect"}
          /\ ops'[op].pc \notin {"write", "reconnect"}
        BY <1>4, OpGoes, ReceiveUpdates
        DEF Begin, GivesUp, ContextEnds, SendGivesUp, ReceiveClosed
    <2>. QED BY <1>1, <2>1, <2>2, <2>3, ConnectionsFrame
<1>5. ASSUME NEW op \in Op, Accept(op) PROVE Connections'
    <2>1. /\ UNCHANGED <<net, loop, out>> /\ disp'.conn = disp.conn /\ disp'.reading = disp.reading
          /\ loop = "select" /\ ops[op].pc = "send" /\ ops' = [ops EXCEPT ![op].pc = "write"]
        BY <1>5 DEF Accept, DispType
    <2>2. ops'[op].pc = "write" /\ \A q \in Op : q # op => ops'[q] = ops[q]
        BY <2>1, OpMoves
    <2>. QED BY <1>1, <2>1, <2>2, ConnectionsFrame
<1>6. ASSUME NEW op \in Op, ops[op].pc \in {"write", "reconnect"}
      PROVE  \A q \in Op : q # op => ops[q].pc \notin {"write", "reconnect"}
    BY <1>6 DEF SendLock
<1>7. ASSUME NEW op \in Op, Write(op) PROVE Connections'
    <2>1. /\ UNCHANGED <<loop, disp>> /\ ops[op].pc = "write"
          /\ out'.dialled = out.dialled /\ out'.conn = out.conn
        BY <1>7 DEF Write, OutType
    <2>2. \A c \in Conn : net'[c].open = net[c].open BY <1>7, WriteNet
    <2>3. ops'[op].pc = "wait" /\ \A q \in Op : q # op => ops'[q] = ops[q]
        BY <1>7, WriteUpdates
    <2>4. \A q \in Op : ops'[q].pc \notin {"write", "reconnect"} /\ ops[q].pc # "reconnect"
        BY <1>6, <2>1, <2>3
    <2>5. NoConnectionLeaks' BY <1>2, <2>1, <2>2, <2>4 DEF NoConnectionLeaks
    <2>. QED BY <1>1, <2>1, <2>2, <2>4, <2>5 DEF Connections
<1>8. ASSUME NEW op \in Op, SendError(op) PROVE Connections'
    <2>1. /\ UNCHANGED <<loop, disp, net>> /\ ops[op].pc = "write"
          /\ out'.dialled = out.dialled /\ ops' = [ops EXCEPT ![op].pc = "failed"]
        BY <1>8, Frames DEF SendError, WriteFails, DialFails, SendFails, OutType
    <2>2. ops'[op].pc = "failed" /\ \A q \in Op : q # op => ops'[q] = ops[q]
        BY <2>1, OpMoves
    <2>3. \A q \in Op : ops'[q].pc \notin {"write", "reconnect"} /\ ops[q].pc # "reconnect"
        BY <1>6, <2>1, <2>2
    <2>4. NoConnectionLeaks' BY <1>2, <2>1, <2>3 DEF NoConnectionLeaks
    <2>. QED BY <1>1, <2>1, <2>3, <2>4 DEF Connections
<1>9. ASSUME NEW op \in Op, Dial(op) PROVE Connections'
    <2>. DEFINE d == out'.dialled
    <2>1. /\ UNCHANGED <<loop, disp>> /\ ops[op].pc = "write" /\ out.conn = Nil
          /\ d = out.dialled + 1 /\ d \in Conn
          /\ ops' = [ops EXCEPT ![op].pc = "reconnect"]
          /\ net' = [net EXCEPT ![d].open = TRUE]
        BY <1>9, NextTypes DEF Dial, Types, OutType
    <2>2. /\ ops'[op].pc = "reconnect" /\ \A q \in Op : q # op => ops'[q] = ops[q]
        BY <2>1, OpMoves
    <2>3. net'[d].open /\ \A c \in Conn : c # d => net'[c] = net[c]
        BY <2>1, NetOpens
    <2>4. loop # "await" BY <2>1 DEF Connections
    <2>5. \A q \in Op : ops[q].pc # "reconnect" BY <1>6, <2>1
    <2>6. \A c \in Conn : net[c].open => c = disp.conn /\ loop \notin {"draining", "quit"}
        BY <1>2, <2>4, <2>5 DEF NoConnectionLeaks
    <2>7. disp.conn < d /\ out.dialled \in Nat
        BY <1>1, <2>1 DEF Connections, Conn
    <2>. HIDE DEF d
    <2>8. \A c \in Conn : net'[c].open => \/ c = disp.conn /\ loop \notin {"draining", "quit"}
                                          \/ c = d /\ \E q \in Op : ops'[q].pc = "reconnect"
        BY <2>2, <2>3, <2>6
    <2>9. NoConnectionLeaks' BY <2>1, <2>8 DEF NoConnectionLeaks, d
    <2>10. \A c \in Conn : net'[c].open => c <= d
        BY <2>3, <2>7, <2>1 DEF Connections, Conn
    <2>11. ~disp.reading => ~net'[disp.conn].open
        BY <1>1, <2>3, <2>7 DEF Connections, Conn
    <2>12. /\ disp'.conn = disp.conn /\ disp'.reading = disp.reading /\ loop' # "await"
           /\ net'[out'.dialled].open /\ disp.conn <= d
        BY <1>1, <2>1, <2>3, <2>4, <2>7 DEF d, Conn
    <2>. QED BY <2>7, <2>9, <2>10, <2>11, <2>12 DEF Connections, d
<1>10. ASSUME NEW op \in Op, Reconnected(op) PROVE Connections'
    <2>1. /\ ops[op].pc = "reconnect" /\ loop = "select"
          /\ out'.dialled = out.dialled /\ out'.conn = out.dialled
          /\ ops' = [ops EXCEPT ![op].pc = "write"]
        BY <1>10 DEF Reconnected, OutType
    <2>2. ops'[op].pc = "write" /\ \A q \in Op : q # op => ops'[q] = ops[q]
        BY <2>1, OpMoves
    <2>3. \A q \in Op : ops'[q].pc # "reconnect" BY <1>6, <2>1, <2>2
    <2>4. disp.conn < out.dialled /\ out'.conn # Nil BY <1>1, <2>1 DEF Connections, Conn, Nil
    <2>5. CASE OldReader
        <3>1. /\ loop' = "await" /\ UNCHANGED disp
              /\ net' = [net EXCEPT ![disp.conn].open = FALSE]
            BY <1>10, <2>5 DEF Reconnected
        <3>2. ~net'[disp.conn].open /\ \A c \in Conn : c # disp.conn => net'[c] = net[c]
            BY <1>1, <3>1, NetOpens
        <3>3. \A c \in Conn : net'[c].open => c = out.dialled
            BY <1>2, <3>2 DEF NoConnectionLeaks
        <3>4. NoConnectionLeaks' BY <2>1, <3>1, <3>3 DEF NoConnectionLeaks
        <3>5. \A c \in Conn : net'[c].open => c <= out.dialled BY <1>1, <3>3 DEF Conn
        <3>. QED BY <2>1, <2>3, <2>4, <3>1, <3>2, <3>4, <3>5 DEF Connections
    <2>6. CASE ~OldReader
        <3>1. /\ loop' = "select"
              /\ disp'.reading = TRUE /\ disp'.conn = out.dialled
              /\ net' = [net EXCEPT ![out.dialled].reader = "decode"]
            BY <1>10, <2>1, <2>6 DEF Reconnected, DispType
        <3>2. \A c \in Conn : net'[c].open = net[c].open BY <1>1, <3>1, NetOpens
        <3>3. ~net[disp.conn].open BY <2>6 DEF Connections, OldReader
        <3>4. \A c \in Conn : net'[c].open => c = out.dialled
            BY <1>2, <3>2, <3>3 DEF NoConnectionLeaks
        <3>5. NoConnectionLeaks' BY <3>1, <3>4 DEF NoConnectionLeaks
        <3>6. \A c \in Conn : net'[c].open => c <= out.dialled BY <1>1, <3>4 DEF Conn
        <3>7. out.dialled <= out.dialled BY <1>1 DEF Conn
        <3>. QED BY <2>1, <2>3, <3>1, <3>5, <3>6, <3>7 DEF Connections
    <2>. QED BY <2>5, <2>6
<1>11. ASSUME NEW op \in Op, ReconnectGivesUp(op) PROVE Connections'
    <2>1. /\ UNCHANGED <<loop, disp>> /\ ops[op].pc = "reconnect" /\ loop = "quit"
          /\ out'.dialled = out.dialled
          /\ ops' = [ops EXCEPT ![op].pc = "failed"]
          /\ net' = [net EXCEPT ![out.dialled].open = FALSE]
        BY <1>11 DEF ReconnectGivesUp, SendFails, OutType
    <2>2. ops'[op].pc = "failed" /\ \A q \in Op : q # op => ops'[q] = ops[q]
        BY <2>1, OpMoves
    <2>3. \A q \in Op : ops'[q].pc # "reconnect" BY <1>6, <2>1, <2>2
    <2>4. ~net'[out.dialled].open /\ \A c \in Conn : c # out.dialled => net'[c] = net[c]
        BY <1>1, <2>1, NetOpens
    <2>5. \A c \in Conn : ~net'[c].open BY <1>2, <2>1, <2>4 DEF NoConnectionLeaks
    <2>6. NoConnectionLeaks' BY <2>5 DEF NoConnectionLeaks
    <2>. QED BY <1>1, <2>1, <2>3, <2>5, <2>6 DEF Connections
<1>12. ASSUME TakeSendDone PROVE Connections'
    <2>1. /\ UNCHANGED <<ops, net, loop>> /\ disp'.conn = disp.conn /\ disp'.reading = disp.reading
          /\ out'.dialled = out.dialled /\ out'.conn = out.conn
        BY <1>12 DEF TakeSendDone, DispType, OutType
    <2>2. NoConnectionLeaks' BY <1>2, <2>1 DEF NoConnectionLeaks
    <2>. QED BY <2>1, <2>2 DEF Connections
<1>13. ASSUME CloseOps PROVE \A op \in Op : ops'[op].pc = ops[op].pc
    BY <1>13, CloseUpdates
<1>14. ASSUME NEW c \in Conn, TakeResp(c) \/ TakeErr(c) \/ DrainResp(c) \/ DrainErr(c)
       PROVE  Connections'
    <2>1. /\ disp'.conn = disp.conn /\ disp'.reading = disp.reading
          /\ out' = out /\ (UNCHANGED ops \/ CloseOps)
          /\ \/ net' = [net EXCEPT ![c].reader = "exited"]
             \/ net' = [net EXCEPT ![c].reader = "decode", ![c].message = {}]
        BY <1>14 DEF TakeResp, TakeErr, DrainResp, DrainErr, DispType
    <2>2. \/ loop' = loop
          \/ {loop, loop'} \subseteq {"select", "handle", "failing", "quitting"}
          \/ {loop, loop'} \subseteq {"draining", "quit"}
        BY <1>14 DEF TakeResp, TakeErr, DrainResp, DrainErr
    <2>3. \A d \in Conn : net'[d].open = net[d].open BY <2>1, NetReader
    <2>4. \A op \in Op : ops'[op].pc = ops[op].pc BY <1>13, <2>1
    <2>. QED BY <1>3, <2>1, <2>2, <2>3, <2>4
<1>15. ASSUME NEW item, NEW respWait, NEW running, Handled(item, respWait, running),
              \A op \in Op : ops'[op].pc = ops[op].pc
       PROVE  Connections'
    <2>1. /\ UNCHANGED net /\ disp'.conn = disp.conn /\ disp'.reading = disp.reading
          /\ out' = out
          /\ {loop, loop'} \subseteq {"select", "handle", "failing", "quitting"}
        BY <1>15 DEF Handled, DispType
    <2>. QED BY <1>3, <1>15, <2>1
<1>16. ASSUME NEW id \in AllIds, HandleResponse(id) PROVE Connections'
    <2>1. \A op \in Op : ops'[op].pc = ops[op].pc
        BY <1>16, OwnerOfId, OpMoves DEF HandleResponse
    <2>. QED BY <1>15, <1>16, <2>1 DEF HandleResponse
<1>17. ASSUME NEW s \in Sub, HandleSubscribed(s) PROVE Connections'
    <2>1. \A op \in Op : ops'[op].pc = ops[op].pc
        BY <1>17, DistinctOps, OpMoves DEF HandleSubscribed
    <2>. QED BY <1>15, <1>17, <2>1 DEF HandleSubscribed
<1>18. ASSUME \/ \E s \in Sub, n \in 1 .. MaxNote : Deliver(s, n)
              \/ \E item \in disp.batch : Drop(item)
       PROVE  Connections'
    BY <1>15, <1>18 DEF Deliver, Drop
<1>19. ASSUME NEW k \in Closer, CloserStep(k) \/ TakeClose(k) PROVE Connections'
    <2>1. /\ UNCHANGED net /\ disp'.conn = disp.conn /\ disp'.reading = disp.reading
          /\ out' = out /\ (UNCHANGED ops \/ CloseOps)
          /\ \/ loop' = loop
             \/ {loop, loop'} \subseteq {"select", "handle", "failing", "quitting"}
        BY <1>19, Frames DEF TakeClose, DispType
    <2>2. \A op \in Op : ops'[op].pc = ops[op].pc BY <1>13, <2>1
    <2>. QED BY <1>3, <2>1, <2>2
<1>20. ASSUME NEW s \in Sub, QuitSub(s) \/ SubStep(s) PROVE Connections'
    <2>1. /\ UNCHANGED <<ops, net, out, loop>>
          /\ disp'.conn = disp.conn /\ disp'.reading = disp.reading
        BY <1>20, Frames DEF QuitSub, DispType
    <2>. QED BY <1>3, <2>1
<1>21. ASSUME ReadErrDone \/ CloseDone PROVE Connections'
    <2>1. /\ net' = [net EXCEPT ![disp.conn].open = FALSE] /\ disp'.conn = disp.conn
          /\ UNCHANGED <<ops, out>> /\ loop # "await" /\ loop' # "await"
        BY <1>21 DEF ReadErrDone, CloseDone, ConnClosed, DispType
    <2>2. ~net'[disp.conn].open /\ \A c \in Conn : c # disp.conn => net'[c] = net[c]
        BY <1>1, <2>1, NetOpens
    <2>3. \A c \in Conn : net'[c].open => c = out.dialled /\ \E op \in Op : ops[op].pc = "reconnect"
        BY <1>2, <2>1, <2>2 DEF NoConnectionLeaks
    <2>4. NoConnectionLeaks' BY <2>1, <2>3 DEF NoConnectionLeaks
    <2>5. \A op \in Op : ops[op].pc = "reconnect" =>
             disp.conn < out.dialled /\ net'[out.dialled].open
        BY <1>1, <2>2 DEF Connections, Conn
    <2>6. \A c \in Conn : net'[c].open => c <= out.dialled BY <1>1, <2>3 DEF Conn
    <2>. QED BY <2>1, <2>2, <2>4, <2>5, <2>6 DEF Connections
<1>22. ASSUME NEW c \in Conn, AwaitErr(c) PROVE Connections'
    <2>1. /\ UNCHANGED <<ops, out>> /\ loop = "await" /\ loop' = "select"
          /\ net' = [net EXCEPT ![c].reader = "exited", ![out.dialled].reader = "decode"]
          /\ disp'.reading = TRUE /\ disp'.conn = out.dialled
        BY <1>22 DEF AwaitErr, DispType
    <2>2. \A d \in Conn : net'[d].open = net[d].open BY <2>1 DEF NetType
    <2>3. ~net[disp.conn].open /\ \A op \in Op : ops[op].pc # "reconnect"
        BY <2>1 DEF Connections
    <2>4. \A d \in Conn : net'[d].open => d = out.dialled
        BY <1>2, <2>2, <2>3 DEF NoConnectionLeaks
    <2>5. NoConnectionLeaks' BY <2>1, <2>4 DEF NoConnectionLeaks
    <2>6. \A d \in Conn : net'[d].open => d <= out.dialled BY <1>1, <2>4 DEF Conn
    <2>7. out.dialled <= out.dialled BY <1>1 DEF Conn
    <2>. QED BY <2>1, <2>3, <2>5, <2>6, <2>7 DEF Connections
<1>23. ASSUME NEW c \in Conn, NetStep(c) PROVE Connections'
    <2>1. UNCHANGED <<ops, out, loop, disp>> BY <1>23, Frames
    <2>2. CASE Break(c)
        <3>1. \A d \in Conn : net'[d].open = net[d].open BY <2>2, NetBreaks
        <3>. QED BY <1>3, <2>1, <3>1
    <2>3. CASE Decode(c) \/ ReadFails(c) \/ DecodeFails(c)
        <3>1. \A d \in Conn : net'[d].open = net[d].open BY <2>3, ReadUpdates
        <3>. QED BY <1>3, <2>1, <3>1
    <2>. QED BY <1>23, <2>2, <2>3 DEF NetStep
<1>24. ASSUME NEW c \in Conn, NEW ids \in SUBSET net[c].server, Answer(c, ids) PROVE Connections'
    <2>1. UNCHANGED <<ops, out, loop, disp>> BY <1>24 DEF Answer
    <2>. QED BY <1>3, <1>24, <2>1, AnswerNet
<1>25. ASSUME NEW s \in Sub, Notify(s) PROVE Connections'
    <2>1. UNCHANGED <<ops, out, loop, disp>> BY <1>25 DEF Notify
    <2>. QED BY <1>3, <1>25, <2>1, NotifyUpdates
<1>26. ASSUME NEW s \in Sub, NEW who \in {"user", "forward"}, EnterOnce(s, who) PROVE Connections'
    <2>1. /\ UnsubscribeOp(s) \in Op /\ ops[UnsubscribeOp(s)].pc = "idle"
          /\ UNCHANGED <<net, disp, loop, out>>
          /\ ops' = [ops EXCEPT ![UnsubscribeOp(s)].pc = "send"]
        BY <1>26, DistinctOps DEF EnterOnce, IInv, QuitOnce
    <2>2. /\ ops'[UnsubscribeOp(s)].pc = "send"
          /\ \A q \in Op : q # UnsubscribeOp(s) => ops'[q] = ops[q]
        BY <2>1, OpMoves
    <2>. QED BY <1>1, <2>1, <2>2, ConnectionsFrame
<1>27. ASSUME UNCHANGED vars PROVE Connections' BY <1>3, <1>27 DEF vars
<1>. QED
    BY <1>4, <1>5, <1>7, <1>8, <1>9, <1>10, <1>11, <1>12, <1>14, <1>16, <1>17, <1>18, <1>19, <1>20,
       <1>21, <1>22, <1>23, <1>24, <1>25, <1>26, <1>27, Actions

-----------------------------------------------------------------------------
(* Every step preserves that whoever waits is signalled. *)

(* An operation that waits for a response goes on waiting on a connection  *)
(* that is read.                                                           *)
StillWaits(op) ==
    /\ ops[op].pc = "wait" /\ Registered(op) # {} /\ ops'[op].via = ops[op].via
    /\ \A c \in Conn : net[c].reader # "exited" => net'[c].reader # "exited"

(* What the signals are about.                                             *)
LEMMA SignalsFrame ==
    ASSUME Signals, OpsType, disp.conn \in Conn,
           out'.conn = out.conn, disp'.conn = disp.conn, disp'.reading = disp.reading,
           \A c \in Conn : net'[c].open = net[c].open,
           \/ loop' = loop
           \/ {loop, loop'} \subseteq {"select", "handle", "failing", "quitting"}
           \/ {loop, loop'} \subseteq {"draining", "quit"},
           \A op \in Op : ops'[op].pc = "wait" /\ Registered(op)' # {} => StillWaits(op)
    PROVE  Signals'
<1>. SUFFICES ASSUME ~WriteFaults PROVE Signals' BY DEF Signals
<1>1. ASSUME NEW op \in Op, ops'[op].pc = "wait", Registered(op)' # {}
      PROVE  ops'[op].via # Nil /\ net'[ops'[op].via].reader # "exited"
    <2>1. StillWaits(op) BY <1>1
    <2>2. ops[op].via # Nil /\ net[ops[op].via].reader # "exited" BY <2>1 DEF Signals, StillWaits
    <2>3. ops[op].via \in Conn BY <2>2 DEF OpsType
    <2>. QED BY <2>1, <2>2, <2>3 DEF StillWaits
<1>. QED BY <1>1 DEF Signals

(* Every step keeps the end of a call signalled.                           *)
LEMMA NextSignals == IInv /\ [Next]_vars => Signals'
<1>. SUFFICES ASSUME IInv, [Next]_vars, ~WriteFaults PROVE Signals' BY DEF Signals
<1>. Types /\ DispType /\ NetType /\ OutType /\ SubsType /\ OpsType /\ SendLock /\ LoopStates
     /\ Readers /\ Connections /\ Signals
    BY DEF IInv, Types
<1>1. disp.conn \in Conn /\ out.dialled \in Conn BY DEF DispType, OutType
<1>2. \A op \in Op : disp'.respWait \subseteq disp.respWait => Registered(op)' \subseteq Registered(op)
    BY DEF Registered
<1>3. ASSUME \A op \in Op : ops'[op].pc = "wait" => ops[op].pc = "wait" /\ ops'[op].via = ops[op].via,
             disp'.respWait \subseteq disp.respWait,
             \A c \in Conn : net[c].reader # "exited" => net'[c].reader # "exited"
      PROVE  \A op \in Op : ops'[op].pc = "wait" /\ Registered(op)' # {} => StillWaits(op)
    BY <1>2, <1>3 DEF StillWaits
<1>4. ASSUME NEW op \in Op, Begin(op) \/ GivesUp(op) \/ Receive(op) PROVE Signals'
    <2>1. UNCHANGED <<net, loop, disp, out>> BY <1>4, Frames
    <2>2. \A q \in Op : ops'[q].pc = "wait" => ops[q].pc = "wait" /\ ops'[q].via = ops[q].via
        BY <1>4, OpGoes, ReceiveUpdates
        DEF Begin, GivesUp, ContextEnds, SendGivesUp, ReceiveClosed
    <2>. QED BY <1>1, <1>3, <2>1, <2>2, SignalsFrame
<1>5. ASSUME NEW op \in Op, Accept(op) PROVE Signals'
    <2>1. /\ UNCHANGED <<net, loop, out>> /\ disp'.conn = disp.conn /\ disp'.reading = disp.reading
          /\ disp'.respWait = disp.respWait \cup Ids(op)
          /\ ops' = [ops EXCEPT ![op].pc = "write"]
        BY <1>5 DEF Accept, DispType
    <2>2. ops'[op].pc = "write" /\ \A q \in Op : q # op => ops'[q] = ops[q]
        BY <2>1, OpMoves
    <2>3. ASSUME NEW q \in Op, ops'[q].pc = "wait", Registered(q)' # {} PROVE StillWaits(q)
        <3>1. q # op BY <2>2, <2>3
        <3>2. Ids(q) \cap Ids(op) = {} BY <3>1, OwnerOfId
        <3>3. Registered(q)' = Registered(q) BY <2>1, <3>2 DEF Registered
        <3>. QED BY <2>1, <2>2, <2>3, <3>1, <3>3 DEF StillWaits
    <2>. QED BY <1>1, <2>1, <2>3, SignalsFrame
<1>6. ASSUME NEW op \in Op, Write(op) PROVE Signals'
    <2>1. UNCHANGED <<loop, disp>> /\ out'.conn = out.conn BY <1>6 DEF Write, OutType
    <2>2. /\ out.conn \in Conn /\ net[out.conn].open /\ out.conn # Nil
          /\ \A c \in Conn : net'[c].open = net[c].open /\ net'[c].reader = net[c].reader
        BY <1>6, WriteNet DEF Write
    <2>3. out.conn = disp.conn /\ loop # "await" BY <2>2 DEF Signals
    <2>4. disp.reading BY <2>2, <2>3 DEF Connections
    <2>5. ASSUME Registered(op) # {} PROVE net[disp.conn].reader # "exited"
        <3>1. loop \in {"select", "handle"}
            BY <2>3, <2>5 DEF LoopStates, Registered, Types
        <3>. QED BY <2>4, <3>1 DEF Readers
    <2>6. \A q \in Op : Registered(q)' = Registered(q) BY <2>1 DEF Registered
    <2>7. ASSUME NEW q \in Op, ops'[q].pc = "wait", Registered(q)' # {}
          PROVE  ops'[q].via # Nil /\ net'[ops'[q].via].reader # "exited"
        <3>1. CASE q = op BY <1>6, <2>2, <2>3, <2>5, <2>6, <2>7, <3>1, WriteUpdates
        <3>2. CASE q # op
            <4>1. ops'[q] = ops[q] BY <1>6, <3>2, WriteUpdates
            <4>2. ops[q].via # Nil /\ net[ops[q].via].reader # "exited"
                BY <2>6, <2>7, <4>1 DEF Signals
            <4>3. ops[q].via \in Conn BY <4>2 DEF OpsType
            <4>. QED BY <2>2, <4>1, <4>2, <4>3
        <3>. QED BY <3>1, <3>2
    <2>. QED BY <1>1, <2>1, <2>2, <2>7 DEF Signals
<1>7. ASSUME NEW op \in Op, SendError(op) PROVE Signals'
    <2>1. /\ UNCHANGED <<loop, disp, net>> /\ out'.conn = Nil
          /\ ops' = [ops EXCEPT ![op].pc = "failed"]
        BY <1>7, Frames DEF SendError, WriteFails, DialFails, SendFails, OutType
    <2>2. out.conn = Nil \/ ~net[out.conn].open
        BY <1>7 DEF SendError, WriteFails, DialFails
    <2>3. ~disp.reading \/ loop \in {"draining", "quit"} BY <2>2 DEF Signals
    <2>4. \A q \in Op : ops'[q].pc = "wait" => ops'[q] = ops[q] BY <2>1, OpMoves
    <2>5. \A q \in Op : Registered(q)' = Registered(q) BY <2>1 DEF Registered
    <2>. QED BY <2>1, <2>3, <2>4, <2>5 DEF Signals
<1>8. ASSUME NEW op \in Op, Dial(op) PROVE Signals'
    <2>. DEFINE d == out'.dialled
    <2>1. /\ UNCHANGED <<loop, disp>> /\ out.conn = Nil /\ out'.conn = Nil
          /\ d = out.dialled + 1 /\ d \in Conn
          /\ ops' = [ops EXCEPT ![op].pc = "reconnect"]
          /\ net' = [net EXCEPT ![d].open = TRUE]
        BY <1>8, NextTypes DEF Dial, Types, OutType
    <2>2. /\ ops'[op].pc = "reconnect" /\ \A q \in Op : q # op => ops'[q] = ops[q]
        BY <2>1, OpMoves
    <2>3. \A c \in Conn : net'[c].reader = net[c].reader
        BY <2>1, NetOpens
    <2>4. ~disp.reading \/ loop \in {"draining", "quit"} BY <2>1 DEF Signals
    <2>5. ASSUME NEW q \in Op, ops'[q].pc = "wait", Registered(q)' # {}
          PROVE  ops'[q].via # Nil /\ net'[ops'[q].via].reader # "exited"
        <3>1. ops'[q] = ops[q] BY <2>2, <2>5
        <3>2. Registered(q)' = Registered(q) BY <2>1 DEF Registered
        <3>3. ops[q].via # Nil /\ net[ops[q].via].reader # "exited"
            BY <2>5, <3>1, <3>2 DEF Signals
        <3>4. ops[q].via \in Conn BY <3>3 DEF OpsType
        <3>. QED BY <2>3, <3>1, <3>3, <3>4
    <2>. QED BY <2>1, <2>4, <2>5 DEF Signals
<1>9. ASSUME NEW op \in Op, Reconnected(op) PROVE Signals'
    <2>1. /\ ops[op].pc = "reconnect" /\ loop = "select" /\ out'.conn = out.dialled
          /\ ops' = [ops EXCEPT ![op].pc = "write"] /\ disp'.respWait = disp.respWait
        BY <1>9 DEF Reconnected, OutType, DispType
    <2>2. out.conn = Nil BY <2>1 DEF SendLock
    <2>3. ~disp.reading BY <2>1, <2>2 DEF Signals
    <2>4. /\ loop' = loop
          /\ disp'.reading = TRUE /\ disp'.conn = out.dialled
          /\ net' = [net EXCEPT ![out.dialled].reader = "decode"]
        BY <1>9, <2>3 DEF Reconnected, OldReader, DispType
    <2>5. net[out.dialled].open BY <2>1 DEF Connections
    <2>6. /\ net'[out.dialled].open /\ net'[out.dialled].reader = "decode"
          /\ \A c \in Conn : c # out.dialled => net'[c] = net[c]
        BY <1>1, <2>4, <2>5, NetReader
    <2>7. \A q \in Op : ops'[q].pc = "wait" => ops'[q] = ops[q] BY <2>1, OpGoes
    <2>8. ASSUME NEW q \in Op, ops'[q].pc = "wait", Registered(q)' # {}
          PROVE  ops'[q].via # Nil /\ net'[ops'[q].via].reader # "exited"
        <3>1. ops'[q] = ops[q] BY <2>7, <2>8
        <3>2. Registered(q)' = Registered(q) BY <2>1 DEF Registered
        <3>3. ops[q].via # Nil /\ net[ops[q].via].reader # "exited"
            BY <2>8, <3>1, <3>2 DEF Signals
        <3>4. ops[q].via \in Conn BY <3>3 DEF OpsType
        <3>. QED BY <2>6, <3>1, <3>3, <3>4
    <2>9. out.dialled # Nil BY <1>1 DEF Conn, Nil
    <2>. QED BY <2>1, <2>4, <2>6, <2>8, <2>9 DEF Signals
<1>10. ASSUME NEW op \in Op, ReconnectGivesUp(op) PROVE Signals'
    <2>1. /\ UNCHANGED <<loop, disp>> /\ loop = "quit" /\ out'.conn = Nil
        BY <1>10 DEF ReconnectGivesUp, SendFails, OutType
    <2>2. \A q \in Op : Registered(q)' = {} BY <2>1 DEF Registered, LoopStates
    <2>. QED BY <2>1, <2>2 DEF Signals
<1>11. ASSUME TakeSendDone PROVE Signals'
    <2>1. /\ UNCHANGED <<ops, net, loop>> /\ disp'.conn = disp.conn /\ disp'.reading = disp.reading
          /\ disp'.respWait \subseteq disp.respWait /\ out'.conn = out.conn
        BY <1>11 DEF TakeSendDone, DispType, OutType
    <2>. QED BY <1>1, <1>3, <2>1, SignalsFrame
<1>12. ASSUME NEW c \in Conn, TakeResp(c) PROVE Signals'
    <2>1. /\ disp'.conn = disp.conn /\ disp'.reading = disp.reading
          /\ disp'.respWait = disp.respWait /\ UNCHANGED <<ops, out>>
          /\ net' = [net EXCEPT ![c].reader = "decode", ![c].message = {}]
          /\ {loop, loop'} \subseteq {"select", "handle", "failing", "quitting"}
        BY <1>12 DEF TakeResp, DispType
    <2>2. \A d \in Conn : /\ net'[d].open = net[d].open
                          /\ net[d].reader # "exited" => net'[d].reader # "exited"
        <3>1. /\ net'[c].open = net[c].open /\ net'[c].reader = "decode"
              /\ \A d \in Conn : d # c => net'[d] = net[d]
            BY <2>1, NetTaken
        <3>. QED BY <3>1
    <2>. QED BY <1>1, <1>3, <2>1, <2>2, SignalsFrame
<1>13. ASSUME disp'.respWait = {} PROVE \A op \in Op : Registered(op)' = {}
    BY <1>13 DEF Registered
<1>14. ASSUME NEW c \in Conn, TakeErr(c) \/ DrainResp(c) \/ DrainErr(c) PROVE Signals'
    <2>1. /\ disp'.conn = disp.conn /\ disp'.reading = disp.reading
          /\ UNCHANGED out
          /\ \/ net' = [net EXCEPT ![c].reader = "exited"]
             \/ net' = [net EXCEPT ![c].reader = "decode", ![c].message = {}]
          /\ \/ {loop, loop'} \subseteq {"select", "handle", "failing", "quitting"}
             \/ {loop, loop'} \subseteq {"draining", "quit"}
        BY <1>14 DEF TakeErr, DrainResp, DrainErr, DispType
    <2>2. disp'.respWait = {}
        BY <1>14 DEF TakeErr, DrainResp, DrainErr, DispType, LoopStates
    <2>3. \A d \in Conn : net'[d].open = net[d].open BY <2>1, NetReader
    <2>. QED BY <1>1, <1>13, <2>1, <2>2, <2>3, SignalsFrame
<1>15. ASSUME NEW c \in Conn, AwaitErr(c) PROVE Signals'
    BY <1>15 DEF AwaitErr, Signals
<1>16. ASSUME NEW item, NEW respWait \in SUBSET disp.respWait, NEW running,
              Handled(item, respWait, running),
              \A op \in Op : ops'[op].pc = ops[op].pc /\ ops'[op].via = ops[op].via
       PROVE  Signals'
    <2>1. /\ UNCHANGED net /\ disp'.conn = disp.conn /\ disp'.reading = disp.reading
          /\ UNCHANGED out /\ disp'.respWait \subseteq disp.respWait
          /\ {loop, loop'} \subseteq {"select", "handle", "failing", "quitting"}
        BY <1>16 DEF Handled, DispType
    <2>. QED BY <1>1, <1>3, <1>16, <2>1, SignalsFrame
<1>17. ASSUME NEW id \in AllIds, HandleResponse(id) PROVE Signals'
    <2>1. \A op \in Op : ops'[op].pc = ops[op].pc /\ ops'[op].via = ops[op].via
        BY <1>17, OwnerOfId, OpMoves DEF HandleResponse
    <2>. QED BY <1>16, <1>17, <2>1 DEF HandleResponse, RespWaitWithout
<1>18. ASSUME NEW s \in Sub, HandleSubscribed(s) PROVE Signals'
    <2>1. \A op \in Op : ops'[op].pc = ops[op].pc /\ ops'[op].via = ops[op].via
        BY <1>18, DistinctOps, OpMoves DEF HandleSubscribed
    <2>. QED BY <1>16, <1>18, <2>1 DEF HandleSubscribed, RespWaitWithout
<1>19. ASSUME \/ \E s \in Sub, n \in 1 .. MaxNote : Deliver(s, n)
              \/ \E item \in disp.batch : Drop(item)
       PROVE  Signals'
    BY <1>16, <1>19 DEF Deliver, Drop
<1>20. ASSUME NEW k \in Closer, CloserStep(k) \/ TakeClose(k) PROVE Signals'
    <2>1. CASE CloserStep(k)
        <3>1. UNCHANGED <<ops, out, loop, disp, net>> BY <2>1, Frames
        <3>. QED BY <1>1, <1>3, <3>1, SignalsFrame
    <2>2. CASE TakeClose(k)
        <3>1. /\ UNCHANGED <<net, out>> /\ disp'.conn = disp.conn /\ disp'.reading = disp.reading
              /\ disp'.respWait = {}
              /\ {loop, loop'} \subseteq {"select", "handle", "failing", "quitting"}
            BY <2>2 DEF TakeClose, DispType
        <3>. QED BY <1>1, <1>13, <3>1, SignalsFrame
    <2>. QED BY <1>20, <2>1, <2>2
<1>21. ASSUME NEW s \in Sub, QuitSub(s) \/ SubStep(s) PROVE Signals'
    <2>1. /\ UNCHANGED <<ops, net, out, loop>> /\ disp'.respWait = disp.respWait
          /\ disp'.conn = disp.conn /\ disp'.reading = disp.reading
        BY <1>21, Frames DEF QuitSub, DispType
    <2>. QED BY <1>1, <1>3, <2>1, SignalsFrame
<1>22. ASSUME ReadErrDone \/ CloseDone PROVE Signals'
    <2>1. /\ net' = [net EXCEPT ![disp.conn].open = FALSE] /\ disp'.conn = disp.conn
          /\ UNCHANGED <<ops, out>> /\ loop \in {"failing", "quitting"} /\ loop' # "await"
          /\ disp'.respWait = disp.respWait
          /\ ~disp'.reading \/ loop' \in {"draining", "quit"}
        BY <1>22 DEF ReadErrDone, CloseDone, ConnClosed, DispType
    <2>2. \A op \in Op : Registered(op)' = {} BY <2>1 DEF LoopStates, Registered
    <2>. QED BY <2>1, <2>2 DEF Signals
<1>23. ASSUME NEW c \in Conn, NetStep(c) PROVE Signals'
    <2>1. UNCHANGED <<ops, out, loop, disp>> BY <1>23, Frames
    <2>2. \A d \in Conn : /\ net'[d].open = net[d].open
                          /\ net[d].reader # "exited" => net'[d].reader # "exited"
        <3>1. CASE Break(c) BY <3>1, NetBreaks
        <3>2. CASE Decode(c) \/ ReadFails(c) \/ DecodeFails(c)
            <4>1. PICK to \in {"resp", "err"} :
                     /\ net'[c].reader = to /\ net'[c].open = net[c].open
                     /\ \A d \in Conn : d # c => net'[d] = net[d]
                BY <3>2, ReadUpdates
            <4>. QED BY <4>1
        <3>. QED BY <1>23, <3>1, <3>2 DEF NetStep
    <2>. QED BY <1>1, <1>3, <2>1, <2>2, SignalsFrame
<1>24. ASSUME NEW c \in Conn, NEW ids \in SUBSET net[c].server, Answer(c, ids) PROVE Signals'
    <2>1. UNCHANGED <<ops, out, loop, disp>> BY <1>24 DEF Answer
    <2>2. \A d \in Conn : net'[d].open = net[d].open /\ net'[d].reader = net[d].reader
        BY <1>24, AnswerNet
    <2>. QED BY <1>1, <1>3, <2>1, <2>2, SignalsFrame
<1>25. ASSUME NEW s \in Sub, Notify(s) PROVE Signals'
    <2>1. UNCHANGED <<ops, out, loop, disp>> BY <1>25 DEF Notify
    <2>2. \A d \in Conn : net'[d].open = net[d].open /\ net'[d].reader = net[d].reader
        BY <1>25, NotifyUpdates
    <2>. QED BY <1>1, <1>3, <2>1, <2>2, SignalsFrame
<1>26. ASSUME NEW s \in Sub, NEW who \in {"user", "forward"}, EnterOnce(s, who) PROVE Signals'
    <2>1. /\ UnsubscribeOp(s) \in Op
          /\ UNCHANGED <<net, disp, loop, out>>
          /\ ops' = [ops EXCEPT ![UnsubscribeOp(s)].pc = "send"]
        BY <1>26, DistinctOps DEF EnterOnce
    <2>2. \A q \in Op : ops'[q].pc = "wait" => ops'[q] = ops[q] BY <2>1, OpMoves
    <2>. QED BY <1>1, <1>3, <2>1, <2>2, SignalsFrame
<1>27. ASSUME UNCHANGED vars PROVE Signals' BY <1>1, <1>3, <1>27, SignalsFrame DEF vars
<1>. QED
    BY <1>4, <1>5, <1>6, <1>7, <1>8, <1>9, <1>10, <1>11, <1>12, <1>14, <1>15, <1>17, <1>18, <1>19,
       <1>20, <1>21, <1>22, <1>23, <1>24, <1>25, <1>26, <1>27, Actions

-----------------------------------------------------------------------------
(* What each step does to a subscription. *)
LEMMA SubscribedUpdates ==
    ASSUME SubsType, NEW s \in Sub, HandleSubscribed(s)
    PROVE  /\ subs'[s].forward = IF subs[s].live # Nil THEN "select" ELSE subs[s].forward
           /\ subs'[s].once = subs[s].once /\ subs'[s].quit = subs[s].quit
           /\ subs'[s].buffer = subs[s].buffer /\ subs'[s].received = subs[s].received
           /\ subs'[s].live = subs[s].live /\ subs'[s].sent = subs[s].sent
           /\ \A t \in Sub : t # s => subs'[t] = subs[t]
BY DEF SubsType, SubRecord, HandleSubscribed

(* A notification that is delivered to it.                                 *)
LEMMA DeliverUpdates ==
    ASSUME SubsType, NEW s \in Sub, NEW n \in 1 .. MaxNote, Deliver(s, n)
    PROVE  /\ \/ subs'[s].forward = "failing" /\ subs'[s].buffer = subs[s].buffer
              \/ /\ subs'[s].forward = subs[s].forward
                 /\ Len(subs[s].buffer) < MaxBuffer
                 /\ subs'[s].buffer = Append(subs[s].buffer, n)
           /\ subs'[s].once = subs[s].once /\ subs'[s].quit = subs[s].quit
           /\ subs'[s].received = subs[s].received
           /\ subs'[s].live = subs[s].live /\ subs'[s].sent = subs[s].sent
           /\ \A t \in Sub : t # s => subs'[t] = subs[t]
BY DEF SubsType, SubRecord, Deliver, Buffered

(* The end of its connection.                                              *)
LEMMA QuitUpdates ==
    ASSUME SubsType, NEW s \in Sub, QuitSub(s)
    PROVE  /\ subs'[s].once = "done" /\ subs'[s].quit = TRUE
           /\ subs'[s].forward = subs[s].forward
           /\ subs'[s].buffer = subs[s].buffer /\ subs'[s].received = subs[s].received
           /\ subs'[s].live = subs[s].live /\ subs'[s].sent = subs[s].sent
           /\ \A t \in Sub : t # s => subs'[t] = subs[t]
BY DEF SubsType, SubRecord, QuitSub

(* A notification that its user takes.                                     *)
LEMMA ConsumeUpdates ==
    ASSUME SubsType, NEW s \in Sub, Consume(s)
    PROVE  /\ subs[s].buffer # <<>> /\ subs'[s].buffer = Tail(subs[s].buffer)
           /\ subs'[s].received = Append(subs[s].received, Head(subs[s].buffer))
           /\ subs'[s].once = subs[s].once /\ subs'[s].quit = subs[s].quit
           /\ subs'[s].forward = subs[s].forward
           /\ subs'[s].live = subs[s].live /\ subs'[s].sent = subs[s].sent
           /\ \A t \in Sub : t # s => subs'[t] = subs[t]
BY DEF SubsType, SubRecord, Consume, Becomes

(* The end of forward(), and steps of the user.                            *)
LEMMA UserUpdates ==
    ASSUME SubsType, NEW s \in Sub, ForwardReturns(s) \/ Unsubscribe(s) \/ UnsubscribeReturn(s)
    PROVE  /\ subs'[s].forward = subs[s].forward
              \/ /\ subs'[s].forward = "done" /\ subs[s].forward \in {"select", "failing"}
                 /\ subs[s].forward = "select" => subs[s].quit
                 /\ subs[s].forward = "failing" => subs[s].once = "done"
           /\ subs'[s].once = subs[s].once /\ subs'[s].quit = subs[s].quit
           /\ subs'[s].buffer = subs[s].buffer /\ subs'[s].received = subs[s].received
           /\ subs'[s].live = subs[s].live /\ subs'[s].sent = subs[s].sent
           /\ \A t \in Sub : t # s => subs'[t] = subs[t]
BY DEF SubsType, SubRecord, ForwardReturns, Unsubscribe, UnsubscribeReturn, Becomes

(* The end of its quitOnce ...                                             *)
LEMMA LeaveUpdates ==
    ASSUME SubsType, NEW s \in Sub, LeaveOnce(s)
    PROVE  /\ subs'[s].once = "done" /\ subs'[s].quit = TRUE
           /\ subs'[s].forward = IF subs[s].once = "forward" THEN "done" ELSE subs[s].forward
           /\ subs'[s].buffer = subs[s].buffer /\ subs'[s].received = subs[s].received
           /\ subs'[s].live = subs[s].live /\ subs'[s].sent = subs[s].sent
           /\ \A t \in Sub : t # s => subs'[t] = subs[t]
BY DEF SubsType, SubRecord, LeaveOnce, Becomes

(* ... and its entry.                                                      *)
LEMMA EnterUpdates ==
    ASSUME SubsType, NEW s \in Sub, NEW who \in {"user", "forward"}, EnterOnce(s, who)
    PROVE  /\ subs[s].once = "free" /\ subs'[s].once = who /\ subs'[s].quit = TRUE
           /\ subs'[s].forward = subs[s].forward
           /\ who = "forward" => subs[s].forward = "failing"
           /\ subs'[s].buffer = subs[s].buffer /\ subs'[s].received = subs[s].received
           /\ subs'[s].live = subs[s].live /\ subs'[s].sent = subs[s].sent
           /\ \A t \in Sub : t # s => subs'[t] = subs[t]
BY DEF SubsType, SubRecord, EnterOnce, QuitFirst

(* An answer of the server.                                                *)
LEMMA AnswerUpdates ==
    ASSUME SubsType, NEW c \in Conn, NEW ids \in SUBSET net[c].server, Answer(c, ids),
           NEW s \in Sub
    PROVE  /\ subs'[s].once = subs[s].once /\ subs'[s].quit = subs[s].quit
           /\ subs'[s].forward = subs[s].forward
           /\ subs'[s].buffer = subs[s].buffer /\ subs'[s].received = subs[s].received
           /\ subs'[s].sent = subs[s].sent
           /\ \/ subs'[s].live = subs[s].live
              \/ subs'[s].live = c /\ SubscribeId(s) \in ids
<1>1. PICK accepted \in SUBSET {t \in Sub : SubscribeId(t) \in ids} :
         subs' = [t \in Sub |-> IF t \in accepted THEN [subs[t] EXCEPT !.live = c] ELSE subs[t]]
    BY DEF Answer, SubscribeId
<1>2. subs[s] \in SubRecord BY DEF SubsType
<1>3. CASE s \in accepted
    <2>1. subs'[s] = [subs[s] EXCEPT !.live = c] BY <1>1, <1>3
    <2>. QED BY <1>2, <1>3, <2>1 DEF SubRecord
<1>4. CASE s \notin accepted BY <1>1, <1>4
<1>. QED BY <1>3, <1>4

(* A notification that the server sends.                                   *)
LEMMA NotifiedUpdates ==
    ASSUME SubsType, NEW s \in Sub, Notify(s)
    PROVE  /\ subs'[s].once = subs[s].once /\ subs'[s].quit = subs[s].quit
           /\ subs'[s].forward = subs[s].forward
           /\ subs'[s].buffer = subs[s].buffer /\ subs'[s].received = subs[s].received
           /\ subs'[s].live = subs[s].live /\ subs'[s].sent = subs[s].sent + 1
           /\ \A t \in Sub : t # s => subs'[t] = subs[t]
BY DEF SubsType, SubRecord, Notify

-----------------------------------------------------------------------------
(* Every step preserves that quit is closed before the server is asked. *)
LEMMA NextQuitOnce == IInv /\ [Next]_vars => QuitOnce'
<1>. SUFFICES ASSUME IInv, [Next]_vars, NEW s \in Sub
              PROVE  /\ subs'[s].once = "free" => ops'[UnsubscribeOp(s)].pc = "idle"
                     /\ subs'[s].once # "free" => subs'[s].quit
                     /\ Len(subs'[s].buffer) <= MaxBuffer
    BY DEF QuitOnce
<1>. Types /\ DispType /\ NetType /\ OutType /\ SubsType /\ OpsType /\ SendLock /\ QuitOnce
    BY DEF IInv, Types
<1>. DEFINE asking == UnsubscribeOp(s)
<1>1. asking \in Op BY DistinctOps
<1>2. /\ subs[s].once = "free" => ops[asking].pc = "idle"
      /\ subs[s].once # "free" => subs[s].quit
      /\ Len(subs[s].buffer) <= MaxBuffer
    BY DEF QuitOnce
<1>. DEFINE Kept == ops[asking].pc = "idle" => ops'[asking].pc = "idle"
            Same == /\ subs'[s].once = subs[s].once /\ subs'[s].quit = subs[s].quit
                    /\ Len(subs'[s].buffer) <= Len(subs[s].buffer)
            Closed == subs'[s].once # "free" /\ subs'[s].quit = TRUE
                      /\ subs'[s].buffer = subs[s].buffer
            Goal == /\ subs'[s].once = "free" => ops'[asking].pc = "idle"
                    /\ subs'[s].once # "free" => subs'[s].quit
                    /\ Len(subs'[s].buffer) <= MaxBuffer
<1>3. subs[s].buffer \in NoteSeq /\ subs'[s].buffer \in NoteSeq
    BY NextSubsType, SubFields DEF SubsType, SubRecord
<1>4. Len(subs[s].buffer) \in Nat /\ Len(subs'[s].buffer) \in Nat /\ MaxBuffer \in Nat
    BY <1>3, RpcAssumption DEF NoteSeq, RpcAssumption
<1>5. ASSUME Kept, Same \/ Closed PROVE Goal
    BY <1>2, <1>4, <1>5
<1>6. ASSUME subs'[s] = subs[s] PROVE Same BY <1>4, <1>6
<1>. HIDE DEF asking, Kept, Same, Closed, Goal
<1>7. ASSUME NEW op \in Op,
             \/ Begin(op) /\ \A t \in Sub : op # UnsubscribeOp(t)
             \/ GivesUp(op) \/ Receive(op)
      PROVE  Goal
    <2>1. UNCHANGED subs BY <1>7, Frames
    <2>2. Kept
        BY <1>1, <1>7, OpGoes, ReceiveUpdates
        DEF Begin, GivesUp, ContextEnds, SendGivesUp, ReceiveClosed, Kept, asking
    <2>. QED BY <1>5, <1>6, <2>1, <2>2
<1>8. ASSUME NEW op \in Op, \E pc : ops' = [ops EXCEPT ![op].pc = pc], ops[op].pc # "idle"
      PROVE  Kept
    BY <1>1, <1>8, OpMoves DEF Kept
<1>9. ASSUME NEW op \in Op,
             Accept(op) \/ SendError(op) \/ Dial(op) \/ Reconnected(op) \/ ReconnectGivesUp(op)
      PROVE  Goal
    <2>1. UNCHANGED subs
        BY <1>9, Frames DEF Accept, Dial, Reconnected, ReconnectGivesUp, SendFails
    <2>2. ops[op].pc # "idle" /\ \E pc : ops' = [ops EXCEPT ![op].pc = pc]
        BY <1>9
        DEF Accept, SendError, WriteFails, DialFails, SendFails, Dial, Reconnected, ReconnectGivesUp
    <2>. QED BY <1>5, <1>6, <1>8, <2>1, <2>2
<1>10. ASSUME NEW op \in Op, Write(op) PROVE Goal
    <2>1. UNCHANGED subs /\ ops[op].pc = "write" BY <1>10 DEF Write
    <2>2. Kept BY <1>1, <1>10, <2>1, WriteUpdates DEF Kept
    <2>. QED BY <1>5, <1>6, <2>1, <2>2
<1>11. ASSUME UNCHANGED ops PROVE Kept BY <1>11 DEF Kept
<1>12. ASSUME CloseOps PROVE Kept BY <1>1, <1>12, CloseUpdates DEF Kept
<1>13. ASSUME NEW c \in Conn,
              TakeResp(c) \/ TakeErr(c) \/ DrainResp(c) \/ DrainErr(c) \/ AwaitErr(c) \/ NetStep(c)
       PROVE  Goal
    <2>1. UNCHANGED subs /\ (UNCHANGED ops \/ CloseOps)
        BY <1>13, Frames DEF TakeResp, TakeErr, DrainResp, DrainErr, AwaitErr
    <2>. QED BY <1>5, <1>6, <1>11, <1>12, <2>1
<1>14. ASSUME NEW k \in Closer, CloserStep(k) \/ TakeClose(k) PROVE Goal
    <2>1. UNCHANGED subs /\ (UNCHANGED ops \/ CloseOps) BY <1>14, Frames DEF TakeClose
    <2>. QED BY <1>5, <1>6, <1>11, <1>12, <2>1
<1>15. ASSUME NEW id \in AllIds, HandleResponse(id) PROVE Goal
    <2>1. UNCHANGED subs BY <1>15 DEF HandleResponse
    <2>2. Kept BY <1>1, <1>15, OwnerOfId, OpMoves DEF HandleResponse, Kept
    <2>. QED BY <1>5, <1>6, <2>1, <2>2
<1>16. ASSUME TakeSendDone \/ ReadErrDone \/ CloseDone \/ \E item \in disp.batch : Drop(item)
       PROVE  Goal
    <2>1. UNCHANGED subs /\ UNCHANGED ops
        BY <1>16 DEF TakeSendDone, ReadErrDone, CloseDone, Drop
    <2>. QED BY <1>5, <1>6, <1>11, <2>1
<1>17. ASSUME NEW t \in Sub, HandleSubscribed(t) PROVE Goal
    <2>1. Kept BY <1>1, <1>17, DistinctOps, OpMoves DEF HandleSubscribed, Kept
    <2>2. Same BY <1>4, <1>6, <1>17, SubscribedUpdates DEF Same
    <2>. QED BY <1>5, <2>1, <2>2
<1>18. ASSUME NEW t \in Sub, NEW n \in 1 .. MaxNote, Deliver(t, n) PROVE Goal
    <2>1. Kept BY <1>11, <1>18 DEF Deliver
    <2>2. CASE t # s
        <3>1. Same BY <1>6, <1>18, <2>2, DeliverUpdates
        <3>. QED BY <1>5, <2>1, <3>1
    <2>3. CASE t = s
        <3>1. subs'[s].once = subs[s].once /\ subs'[s].quit = subs[s].quit
            BY <1>18, <2>3, DeliverUpdates
        <3>2. CASE subs'[s].buffer = subs[s].buffer
            BY <1>4, <1>5, <2>1, <3>1, <3>2 DEF Same
        <3>3. CASE Len(subs[s].buffer) < MaxBuffer /\ subs'[s].buffer = Append(subs[s].buffer, n)
            <4>1. Len(subs'[s].buffer) = Len(subs[s].buffer) + 1
                BY <1>3, <3>3 DEF NoteSeq
            <4>. QED BY <1>2, <1>4, <2>1, <3>1, <3>3, <4>1 DEF Goal, Kept
        <3>. QED BY <1>18, <2>3, <3>2, <3>3, DeliverUpdates
    <2>. QED BY <2>2, <2>3
<1>19. ASSUME NEW t \in Sub, QuitSub(t) PROVE Goal
    <2>1. Kept BY <1>11, <1>19 DEF QuitSub
    <2>2. Same \/ Closed BY <1>6, <1>19, QuitUpdates DEF Closed
    <2>. QED BY <1>5, <2>1, <2>2
<1>20. ASSUME NEW t \in Sub, SubStep(t) PROVE Goal
    <2>1. Kept BY <1>11, <1>20, Frames
    <2>2. CASE t # s
        <3>1. subs'[s] = subs[s]
            BY <1>20, <2>2, ConsumeUpdates, UserUpdates, LeaveUpdates DEF SubStep
        <3>. QED BY <1>5, <1>6, <2>1, <3>1
    <2>3. CASE t = s /\ Consume(s)
        <3>1. subs'[s].once = subs[s].once /\ subs'[s].quit = subs[s].quit
              /\ subs[s].buffer # <<>> /\ subs'[s].buffer = Tail(subs[s].buffer)
            BY <2>3, ConsumeUpdates
        <3>2. Len(subs'[s].buffer) = Len(subs[s].buffer) - 1 BY <1>3, <3>1 DEF NoteSeq
        <3>3. Same BY <1>4, <3>1, <3>2 DEF Same
        <3>. QED BY <1>5, <2>1, <3>3
    <2>4. CASE t = s /\ (ForwardReturns(s) \/ Unsubscribe(s) \/ UnsubscribeReturn(s))
        <3>1. Same BY <1>4, <2>4, UserUpdates DEF Same
        <3>. QED BY <1>5, <2>1, <3>1
    <2>5. CASE t = s /\ LeaveOnce(s)
        <3>1. Closed BY <2>5, LeaveUpdates DEF Closed
        <3>. QED BY <1>5, <2>1, <3>1
    <2>. QED BY <1>20, <2>2, <2>3, <2>4, <2>5 DEF SubStep
<1>21. ASSUME NEW t \in Sub, NEW who \in {"user", "forward"}, EnterOnce(t, who) PROVE Goal
    <2>1. CASE t = s
        <3>1. Closed BY <1>21, <2>1, EnterUpdates DEF Closed
        <3>. QED BY <1>2, <3>1 DEF Goal, Closed
    <2>2. CASE t # s
        <3>1. Same BY <1>6, <1>21, <2>2, EnterUpdates
        <3>2. UnsubscribeOp(t) # asking /\ UnsubscribeOp(t) \in Op
            BY <2>2, DistinctOps DEF asking
        <3>3. ops'[asking] = ops[asking]
            BY <1>1, <1>21, <3>2, OpMoves DEF EnterOnce
        <3>. QED BY <1>5, <3>1, <3>3 DEF Kept
    <2>. QED BY <2>1, <2>2
<1>22. ASSUME NEW t \in Sub, Notify(t) PROVE Goal
    <2>1. Kept BY <1>11, <1>22 DEF Notify
    <2>2. Same BY <1>4, <1>6, <1>22, NotifiedUpdates DEF Same
    <2>. QED BY <1>5, <2>1, <2>2
<1>23. ASSUME NEW c \in Conn, NEW ids \in SUBSET net[c].server, Answer(c, ids) PROVE Goal
    <2>1. Kept BY <1>11, <1>23 DEF Answer
    <2>2. Same BY <1>4, <1>23, AnswerUpdates DEF Same
    <2>. QED BY <1>5, <2>1, <2>2
<1>24. ASSUME UNCHANGED vars PROVE Goal BY <1>5, <1>6, <1>11, <1>24 DEF vars
<1>25. Goal
    BY <1>7, <1>9, <1>10, <1>13, <1>14, <1>15, <1>16, <1>17, <1>18, <1>19, <1>20, <1>21, <1>22,
       <1>23, <1>24, Actions
<1>. QED BY <1>25 DEF Goal, asking

-----------------------------------------------------------------------------
(* Every step preserves what holds of the notifications.  Most steps mean  *)
(* nothing to a given subscription: they keep what its invariant is about. *)

KeepsSub(s) ==
    /\ subs'[s].once = subs[s].once /\ subs'[s].quit = subs[s].quit
    /\ subs'[s].forward = subs[s].forward
    /\ subs'[s].buffer = subs[s].buffer /\ subs'[s].received = subs[s].received
    /\ subs'[s].live = subs[s].live /\ subs'[s].sent = subs[s].sent

KeepsAsking(s) ==
    /\ ops'[SubscribeOp(s)].via = ops[SubscribeOp(s)].via
    /\ ops'[SubscribeOp(s)].pc \in Early => ops[SubscribeOp(s)].pc \in Early
    /\ \A c \in Conn : SubscribeId(s) \in net'[c].server => SubscribeId(s) \in net[c].server

KeepsMessages(s) ==
    \A c \in Conn :
        /\ SubscribeId(s) \in net[c].message => SubscribeId(s) \in net'[c].message
        /\ \A n \in 1 .. MaxNote : Note(s, n) \in net'[c].message <=> Note(s, n) \in net[c].message

KeepsBatch(s) ==
    /\ \A n \in 1 .. MaxNote : Note(s, n) \in disp'.batch => Note(s, n) \in disp.batch
    /\ SubscribeId(s) \in disp'.respWait =>
          \/ subs[s].live = Nil
          \/ /\ SubscribeId(s) \in disp.respWait
             /\ SubscribeId(s) \in disp.batch => SubscribeId(s) \in disp'.batch

KeepsRunning(s) ==
    Runs(s) =>
        /\ s \in disp'.subs
        /\ \A n \in 1 .. MaxNote : Note(s, n) \in disp.batch => Note(s, n) \in disp'.batch

Quiet(s) ==
    KeepsSub(s) /\ KeepsAsking(s) /\ KeepsMessages(s) /\ KeepsBatch(s) /\ KeepsRunning(s)

(* What an accepted subscription is about.                                 *)
LEMMA AcceptedFrame ==
    ASSUME SubsType, NEW s \in Sub, Accepted(s),
           subs'[s].live = subs[s].live, subs'[s].sent = subs[s].sent,
           subs'[s].buffer = subs[s].buffer, subs'[s].received = subs[s].received,
           subs'[s].forward = "none" <=> subs[s].forward = "none",
           subs'[s].once = "forward" => subs'[s].forward = "failing",
           KeepsAsking(s), KeepsMessages(s), KeepsBatch(s)
    PROVE  Accepted(s)'
<1>. DEFINE id == SubscribeId(s)
            asking == SubscribeOp(s)
<1>1. /\ \A c \in Conn : id \in net[c].server => ops[asking].via = c /\ subs[s].live = Nil
      /\ ops[asking].pc \in Early =>
            /\ ops[asking].via = Nil /\ subs[s].live = Nil
            /\ \A c \in Conn : id \notin net[c].server
      /\ subs[s].live = Nil => subs[s].sent = 0 /\ subs[s].forward = "none"
      /\ subs[s].forward = "none" => subs[s].buffer = <<>> /\ subs[s].received = <<>>
      /\ id \in disp.respWait => subs[s].forward = "none"
    BY DEF Accepted
<1>2. /\ \A c \in Conn : id \in net'[c].server => ops'[asking].via = c /\ subs'[s].live = Nil
      /\ ops'[asking].pc \in Early =>
            /\ ops'[asking].via = Nil /\ subs'[s].live = Nil
            /\ \A c \in Conn : id \notin net'[c].server
      /\ subs'[s].live = Nil => subs'[s].sent = 0 /\ subs'[s].forward = "none"
      /\ subs'[s].forward = "none" => subs'[s].buffer = <<>> /\ subs'[s].received = <<>>
      /\ subs'[s].once = "forward" => subs'[s].forward = "failing"
    BY <1>1 DEF KeepsAsking
<1>3. id \in disp'.respWait => subs'[s].forward = "none" BY <1>1 DEF KeepsBatch
<1>4. ASSUME id \in disp'.respWait, subs'[s].live # Nil
      PROVE  \/ id \in net'[subs'[s].live].message /\ subs'[s].sent = 0
             \/ /\ id \in disp'.batch
                /\ \/ subs'[s].sent = 0
                   \/ subs'[s].sent = 1 /\ Note(s, 1) \in net'[subs'[s].live].message
    <2>1. id \in disp.respWait /\ (id \in disp.batch => id \in disp'.batch)
        BY <1>4 DEF KeepsBatch
    <2>2. \/ id \in net[subs[s].live].message /\ subs[s].sent = 0
          \/ /\ id \in disp.batch
             /\ \/ subs[s].sent = 0
                \/ subs[s].sent = 1 /\ Note(s, 1) \in net[subs[s].live].message
        BY <1>4, <2>1 DEF Accepted
    <2>3. subs[s].live \in Conn /\ (subs[s].sent = 1 => 1 \in 1 .. MaxNote)
        BY <1>4, SubFields
    <2>4. id \in net[subs[s].live].message => id \in net'[subs[s].live].message
        BY <2>3 DEF KeepsMessages
    <2>5. subs[s].sent = 1 =>
             (Note(s, 1) \in net'[subs[s].live].message <=> Note(s, 1) \in net[subs[s].live].message)
        BY <2>3 DEF KeepsMessages
    <2>. QED BY <2>1, <2>2, <2>4, <2>5
<1>. HIDE DEF id, asking
<1>. QED BY <1>2, <1>3, <1>4 DEF Accepted, id, asking

(* What the notifications on their way are about.                          *)
LEMMA UnderwayFrame ==
    ASSUME SubsType, NEW s \in Sub, Accepted(s), Underway(s),
           subs'[s].live = subs[s].live, subs'[s].sent = subs[s].sent,
           KeepsMessages(s), KeepsBatch(s)
    PROVE  Underway(s)'
<1>1. \A c \in Conn, n \in 1 .. MaxNote : Note(s, n) \in net'[c].message =>
         c = subs'[s].live /\ n = subs'[s].sent
    BY DEF Underway, KeepsMessages
<1>2. ASSUME NEW n \in 1 .. MaxNote, Note(s, n) \in disp'.batch
      PROVE  IF /\ subs'[s].sent \in 1 .. MaxNote
                /\ Note(s, subs'[s].sent) \in net'[subs'[s].live].message
             THEN n = subs'[s].sent - 1
             ELSE n = subs'[s].sent
    <2>1. Note(s, n) \in disp.batch BY <1>2 DEF KeepsBatch
    <2>2. CASE subs[s].live \in Conn
        BY <2>1, <2>2 DEF Underway, KeepsMessages
    <2>3. CASE subs[s].live = Nil
        <3>1. n = subs[s].sent \/ n = subs[s].sent - 1 BY <2>1 DEF Underway
        <3>2. subs[s].sent = 0 BY <2>3 DEF Accepted
        <3>. QED BY <3>1, <3>2
    <2>. QED BY <2>2, <2>3, SubFields
<1>. QED BY <1>1, <1>2 DEF Underway

(* What is coming is in the batch or in a message.                         *)
LEMMA ComingFrame ==
    ASSUME NEW s \in Sub, Runs(s), KeepsMessages(s), KeepsBatch(s), KeepsRunning(s)
    PROVE  Coming(s)' = Coming(s)
BY DEF Coming, Carried, KeepsMessages, KeepsBatch, KeepsRunning

(* A step that means nothing to a subscription.                            *)
LEMMA QuietKeeps ==
    ASSUME SubsType, NEW s \in Sub, Accepted(s), Underway(s), InOrder(s), Quiet(s)
    PROVE  Accepted(s)' /\ Underway(s)' /\ InOrder(s)'
<1>. KeepsSub(s) /\ KeepsAsking(s) /\ KeepsMessages(s) /\ KeepsBatch(s) /\ KeepsRunning(s)
    BY DEF Quiet
<1>1. Accepted(s)'
    <2>1. subs[s].once = "forward" => subs[s].forward = "failing" BY DEF Accepted
    <2>. QED BY <2>1, AcceptedFrame DEF KeepsSub
<1>2. Underway(s)' BY UnderwayFrame DEF KeepsSub
<1>3. ASSUME Runs(s)'
      PROVE  /\ s \in disp'.subs
             /\ Len(Got(s)') <= subs'[s].sent
             /\ Got(s)' = [n \in 1 .. Len(Got(s)') |-> n]
             /\ Coming(s)' = Len(Got(s)') + 1 .. subs'[s].sent
    <2>1. Runs(s) /\ Got(s)' = Got(s) /\ subs'[s].sent = subs[s].sent
        BY <1>3 DEF KeepsSub, Runs, Got
    <2>2. Coming(s)' = Coming(s) BY <2>1, ComingFrame
    <2>. QED BY <2>1, <2>2 DEF InOrder, KeepsRunning
<1>4. InOrder(s)' BY <1>3 DEF InOrder
<1>. QED BY <1>1, <1>2, <1>4

(* A step after which the subscription does not run.                       *)
LEMMA StopKeeps ==
    ASSUME SubsType, NEW s \in Sub, Accepted(s), Underway(s),
           subs'[s].live = subs[s].live, subs'[s].sent = subs[s].sent,
           subs'[s].buffer = subs[s].buffer, subs'[s].received = subs[s].received,
           subs'[s].forward = "none" <=> subs[s].forward = "none",
           subs'[s].once = "forward" => subs'[s].forward = "failing",
           KeepsAsking(s), KeepsMessages(s), KeepsBatch(s), ~Runs(s)'
    PROVE  Accepted(s)' /\ Underway(s)' /\ InOrder(s)'
BY AcceptedFrame, UnderwayFrame DEF InOrder

(* The steps that mean something to a subscription.                        *)
Eventful(s) ==
    \/ Write(SubscribeOp(s)) \/ HandleSubscribed(s) \/ QuitSub(s) \/ SubStep(s) \/ Notify(s)
    \/ \E n \in 1 .. MaxNote : Deliver(s, n)
    \/ \E who \in {"user", "forward"} : EnterOnce(s, who)
    \/ \E c \in Conn :
          \/ TakeResp(c) \/ DrainResp(c)
          \/ \E ids \in SUBSET net[c].server : Answer(c, ids) /\ SubscribeId(s) \in ids

(* All other steps leave the notifications of s as they are.               *)
LEMMA OtherSteps ==
    ASSUME IInv, [Next]_vars, NEW s \in Sub
    PROVE  Eventful(s) \/ Quiet(s)
<1>. SUFFICES ASSUME ~Eventful(s) PROVE Quiet(s) OBVIOUS
<1>. Types /\ DispType /\ NetType /\ OutType /\ SubsType /\ OpsType /\ SendLock /\ LoopStates
     /\ Accepted(s) /\ InOrder(s) /\ OneNote(disp.batch)
    BY DEF IInv, Types, Notifications
<1>. DEFINE id == SubscribeId(s)
            asking == SubscribeOp(s)
<1>1. asking \in Op /\ id \in AllIds BY DistinctOps, SubscribeIds
<1>2. \A c \in Conn, n \in 1 .. MaxNote : Note(s, n) # id BY <1>1, NotesDiffer
(* What is unchanged is kept.                                              *)
<1>3. ASSUME subs'[s] = subs[s] PROVE KeepsSub(s) BY <1>3 DEF KeepsSub
<1>4. ASSUME ops'[asking].via = ops[asking].via,
             ops'[asking].pc \in Early => ops[asking].pc \in Early,
             \A c \in Conn : net'[c].server \subseteq net[c].server
      PROVE  KeepsAsking(s)
    BY <1>4 DEF KeepsAsking
<1>5. ASSUME \A c \in Conn : net'[c].message = net[c].message PROVE KeepsMessages(s)
    BY <1>5 DEF KeepsMessages
<1>6. ASSUME disp'.batch = disp.batch, disp'.respWait \subseteq disp.respWait PROVE KeepsBatch(s)
    BY <1>6 DEF KeepsBatch
<1>7. ASSUME disp'.batch = disp.batch, disp'.subs = disp.subs PROVE KeepsRunning(s)
    BY <1>7 DEF KeepsRunning, InOrder
<1>8. ASSUME UNCHANGED ops
      PROVE  ops'[asking].via = ops[asking].via /\ (ops'[asking].pc \in Early => ops[asking].pc \in Early)
    BY <1>8
<1>9. ASSUME CloseOps
      PROVE  ops'[asking].via = ops[asking].via /\ (ops'[asking].pc \in Early => ops[asking].pc \in Early)
    BY <1>1, <1>9, CloseUpdates
<1>. HIDE DEF id, asking
<1>10. ASSUME NEW op \in Op,
              \/ Begin(op) /\ \A t \in Sub : op # UnsubscribeOp(t)
              \/ GivesUp(op) \/ Receive(op) \/ SendError(op)
       PROVE  Quiet(s)
    <2>1. UNCHANGED <<disp, net, subs>> BY <1>10, Frames
    <2>2. ops'[asking].via = ops[asking].via /\ (ops'[asking].pc \in Early => ops[asking].pc \in Early)
        BY <1>1, <1>10, OpMoves, OpGoes, ReceiveUpdates
        DEF Begin, GivesUp, ContextEnds, SendGivesUp, ReceiveClosed, SendError, WriteFails,
            DialFails, SendFails, Early
    <2>. QED BY <1>3, <1>4, <1>5, <1>6, <1>7, <2>1, <2>2 DEF Quiet
<1>11. ASSUME NEW op \in Op, NEW pc, ops' = [ops EXCEPT ![op].pc = pc],
              ops[op].pc \in Early \/ pc \notin Early
       PROVE  ops'[asking].via = ops[asking].via /\ (ops'[asking].pc \in Early => ops[asking].pc \in Early)
    BY <1>1, <1>11, OpMoves
<1>12. ASSUME NEW op \in Op, Accept(op) PROVE Quiet(s)
    <2>1. /\ UNCHANGED <<net, subs>> /\ disp'.batch = disp.batch /\ disp'.subs = disp.subs
          /\ disp'.respWait = disp.respWait \cup Ids(op)
          /\ ops[op].pc = "send" /\ ops' = [ops EXCEPT ![op].pc = "write"]
        BY <1>12 DEF Accept, DispType
    <2>2. KeepsAsking(s) BY <1>4, <1>11, <2>1 DEF Early
    <2>3. ASSUME id \in Ids(op) PROVE subs[s].live = Nil
        <3>1. op = asking BY <1>1, <2>3, OwnerOfId, SubscribeIds DEF id, asking
        <3>. QED BY <2>1, <3>1 DEF Accepted, Early, asking
    <2>4. KeepsBatch(s) BY <2>1, <2>3 DEF KeepsBatch, id
    <2>. QED BY <1>3, <1>5, <1>7, <2>1, <2>2, <2>4 DEF Quiet
<1>13. ASSUME NEW op \in Op, Write(op) PROVE Quiet(s)
    <2>1. UNCHANGED <<disp, subs>> BY <1>13 DEF Write
    <2>2. op # asking BY <1>13 DEF Eventful, asking
    <2>3. ops'[asking] = ops[asking] BY <1>1, <1>13, <2>2, WriteUpdates
    <2>4. id \notin Ids(op) BY <1>1, <2>2, OwnerOfId, SubscribeIds DEF id, asking
    <2>5. /\ \A c \in Conn : net'[c].message = net[c].message
          /\ \A c \in Conn : id \in net'[c].server => id \in net[c].server
        BY <1>13, <2>4, WriteNet
    <2>6. KeepsAsking(s) BY <2>3, <2>5 DEF KeepsAsking, id, asking
    <2>. QED BY <1>3, <1>5, <1>6, <1>7, <2>1, <2>5, <2>6 DEF Quiet
<1>14. ASSUME NEW op \in Op, Dial(op) \/ Reconnected(op) \/ ReconnectGivesUp(op) PROVE Quiet(s)
    <2>1. /\ UNCHANGED subs /\ disp'.batch = disp.batch /\ disp'.subs = disp.subs
          /\ disp'.respWait = disp.respWait
        BY <1>14 DEF Dial, Reconnected, ReconnectGivesUp, SendFails, DispType
    <2>2. /\ ops[op].pc \in {"write", "reconnect"}
          /\ \E pc \in {"reconnect", "write", "failed"} : ops' = [ops EXCEPT ![op].pc = pc]
        BY <1>14 DEF Dial, Reconnected, ReconnectGivesUp, SendFails
    <2>3. ops'[asking].via = ops[asking].via /\ (ops'[asking].pc \in Early => ops[asking].pc \in Early)
        BY <1>11, <2>2 DEF Early
    <2>4. out'.dialled \in Conn /\ out.dialled \in Conn /\ disp.conn \in Conn
        BY NextTypes DEF Types, OutType, DispType
    <2>5. \A c \in Conn : net'[c].message = net[c].message /\ net'[c].server = net[c].server
        <3>1. \/ net' = [net EXCEPT ![out'.dialled].open = TRUE]
              \/ net' = [net EXCEPT ![out.dialled].open = FALSE]
              \/ net' = [net EXCEPT ![disp.conn].open = FALSE]
              \/ net' = [net EXCEPT ![out.dialled].reader = "decode"]
            BY <1>14 DEF Dial, Reconnected, ReconnectGivesUp
        <3>. QED BY <2>4, <3>1 DEF NetType
    <2>. QED BY <1>3, <1>4, <1>5, <1>6, <1>7, <2>1, <2>3, <2>5 DEF Quiet
<1>15. ASSUME NEW k \in Closer, CloserStep(k) \/ TakeClose(k) PROVE Quiet(s)
    <2>1. /\ UNCHANGED <<subs, net>> /\ disp'.batch = disp.batch /\ disp'.subs = disp.subs
          /\ disp'.respWait \subseteq disp.respWait /\ (UNCHANGED ops \/ CloseOps)
        BY <1>15, Frames DEF TakeClose, DispType
    <2>. QED BY <1>3, <1>4, <1>5, <1>6, <1>7, <1>8, <1>9, <2>1 DEF Quiet
<1>16. ASSUME NEW c \in Conn, TakeErr(c) \/ DrainErr(c) \/ AwaitErr(c) \/ NetStep(c) PROVE Quiet(s)
    <2>1. /\ UNCHANGED subs /\ disp'.batch = disp.batch /\ disp'.subs = disp.subs
          /\ disp'.respWait \subseteq disp.respWait /\ (UNCHANGED ops \/ CloseOps)
        BY <1>16, Frames DEF TakeErr, DrainErr, AwaitErr, DispType
    <2>2. \A d \in Conn : net'[d].message = net[d].message /\ net'[d].server = net[d].server
        <3>1. CASE TakeErr(c) \/ DrainErr(c)
            <4>1. net' = [net EXCEPT ![c].reader = "exited"] BY <3>1 DEF TakeErr, DrainErr
            <4>. QED BY <4>1 DEF NetType
        <3>2. CASE AwaitErr(c) BY <3>2 DEF AwaitErr, NetType, OutType
        <3>3. CASE Break(c) BY <3>3, NetBreaks
        <3>4. CASE Decode(c) \/ ReadFails(c) \/ DecodeFails(c)
            <4>1. /\ net'[c].message = net[c].message /\ net'[c].server = net[c].server
                  /\ \A d \in Conn : d # c => net'[d] = net[d]
                BY <3>4, ReadUpdates
            <4>. QED BY <4>1
        <3>. QED BY <1>16, <3>1, <3>2, <3>3, <3>4 DEF NetStep
    <2>. QED BY <1>3, <1>4, <1>5, <1>6, <1>7, <1>8, <1>9, <2>1, <2>2 DEF Quiet
<1>17. ASSUME NEW c \in Conn, NEW ids \in SUBSET net[c].server, Answer(c, ids) PROVE Quiet(s)
    <2>1. UNCHANGED <<ops, disp>> /\ id \notin ids BY <1>17 DEF Answer, Eventful, id
    <2>2. ids \subseteq AllIds /\ net[c].message = {} /\ net'[c].message = ids
          /\ \A d \in Conn : d # c => net'[d] = net[d]
        BY <1>17, AnswerNet DEF NetType
    <2>3. \A d \in Conn : net'[d].server \subseteq net[d].server
        <3>1. net'[c].server = (net[c].server \ ids) \cup (ids \cap Repeated)
            BY <1>17, AnswerNet
        <3>. QED BY <2>2, <3>1
    <2>4. KeepsMessages(s) BY <2>2, NotesDiffer DEF KeepsMessages
    <2>5. KeepsSub(s) BY <1>17, <2>1, AnswerUpdates DEF KeepsSub, id
    <2>. QED BY <1>4, <1>6, <1>7, <1>8, <2>1, <2>3, <2>4, <2>5 DEF Quiet
<1>18. ASSUME NEW t \in Sub, t # s, Notify(t) PROVE Quiet(s)
    <2>1. UNCHANGED <<ops, disp>> BY <1>18 DEF Notify
    <2>2. /\ subs[t].live \in Conn /\ net[subs[t].live].message = {}
          /\ net'[subs[t].live].message = {Note(t, subs[t].sent + 1)}
          /\ subs[t].sent + 1 \in 1 .. MaxNote
          /\ \A d \in Conn : net'[d].server = net[d].server
          /\ \A d \in Conn : d # subs[t].live => net'[d] = net[d]
        BY <1>18, NotifyUpdates
    <2>3. \A n \in 1 .. MaxNote : Note(s, n) # Note(t, subs[t].sent + 1)
        BY <1>18, <2>2, NotesDiffer
    <2>4. KeepsMessages(s) BY <2>2, <2>3 DEF KeepsMessages
    <2>5. KeepsSub(s) BY <1>3, <1>18, NotifiedUpdates
    <2>. QED BY <1>4, <1>6, <1>7, <1>8, <2>1, <2>2, <2>4, <2>5 DEF Quiet
<1>19. ASSUME NEW t \in Sub, t # s, SubStep(t) PROVE Quiet(s)
    <2>1. UNCHANGED <<ops, disp, net>> BY <1>19, Frames
    <2>2. subs'[s] = subs[s] BY <1>19, ConsumeUpdates, UserUpdates, LeaveUpdates DEF SubStep
    <2>. QED BY <1>3, <1>4, <1>5, <1>6, <1>7, <1>8, <2>1, <2>2 DEF Quiet
<1>20. ASSUME NEW t \in Sub, t # s, NEW who \in {"user", "forward"}, EnterOnce(t, who) PROVE Quiet(s)
    <2>1. /\ UNCHANGED <<disp, net>> /\ ops' = [ops EXCEPT ![UnsubscribeOp(t)].pc = "send"]
          /\ UnsubscribeOp(t) \in Op /\ UnsubscribeOp(t) # asking
        BY <1>20, DistinctOps DEF EnterOnce, asking
    <2>2. ops'[asking] = ops[asking] BY <1>1, <2>1, OpMoves
    <2>3. subs'[s] = subs[s] BY <1>20, EnterUpdates
    <2>. QED BY <1>3, <1>4, <1>5, <1>6, <1>7, <2>1, <2>2, <2>3 DEF Quiet
<1>21. ASSUME NEW t \in Sub, t # s, QuitSub(t) PROVE Quiet(s)
    <2>1. /\ UNCHANGED <<ops, net>> /\ disp'.batch = disp.batch /\ disp'.respWait = disp.respWait
          /\ disp'.subs = disp.subs \ {t}
        BY <1>21 DEF QuitSub, DispType
    <2>2. KeepsRunning(s) BY <1>21, <2>1 DEF KeepsRunning, InOrder
    <2>3. subs'[s] = subs[s] BY <1>21, QuitUpdates
    <2>. QED BY <1>3, <1>4, <1>5, <1>6, <1>8, <2>1, <2>2, <2>3 DEF Quiet
<1>22. ASSUME TakeSendDone \/ ReadErrDone \/ CloseDone PROVE Quiet(s)
    <2>1. /\ UNCHANGED <<ops, subs>> /\ disp'.batch = disp.batch /\ disp'.subs = disp.subs
          /\ disp'.respWait \subseteq disp.respWait
          /\ (UNCHANGED net \/ net' = [net EXCEPT ![disp.conn].open = FALSE])
        <3>1. CASE TakeSendDone BY <3>1 DEF TakeSendDone, DispType
        <3>2. CASE ReadErrDone \/ CloseDone
            BY <3>2 DEF ReadErrDone, CloseDone, ConnClosed, DispType
        <3>. QED BY <1>22, <3>1, <3>2
    <2>2. \A d \in Conn : net'[d].message = net[d].message /\ net'[d].server = net[d].server
        BY <2>1 DEF NetType, DispType
    <2>. QED BY <1>3, <1>4, <1>5, <1>6, <1>7, <1>8, <2>1, <2>2 DEF Quiet
(* Other messages are handled.                                             *)
<1>23. ASSUME NEW item, NEW respWait \in SUBSET disp.respWait, NEW running,
              Handled(item, respWait, running), item # id \/ id \notin respWait,
              \A n \in 1 .. MaxNote : item = Note(s, n) => ~Runs(s),
              disp.subs \subseteq running
       PROVE  KeepsMessages(s) /\ KeepsBatch(s) /\ KeepsRunning(s) /\ UNCHANGED net
    <2>1. /\ UNCHANGED net /\ disp'.batch = disp.batch \ {item} /\ disp'.respWait = respWait
          /\ disp'.subs = running
        BY <1>23 DEF Handled, DispType
    <2>2. KeepsBatch(s) BY <1>23, <2>1 DEF KeepsBatch, id
    <2>3. KeepsRunning(s) BY <1>23, <2>1 DEF KeepsRunning, InOrder
    <2>. QED BY <1>5, <2>1, <2>2, <2>3
<1>24. ASSUME NEW r \in AllIds, HandleResponse(r) PROVE Quiet(s)
    <2>1. Handled(r, disp.respWait \ {r}, disp.subs) /\ UNCHANGED subs
        BY <1>24 DEF HandleResponse, RespWaitWithout
    <2>2. \A n \in 1 .. MaxNote : r # Note(s, n) BY NotesDiffer
    <2>3. ops'[asking].via = ops[asking].via /\ (ops'[asking].pc \in Early => ops[asking].pc \in Early)
        BY <1>1, <1>24, OwnerOfId, OpMoves DEF HandleResponse
    <2>4. KeepsMessages(s) /\ KeepsBatch(s) /\ KeepsRunning(s) /\ UNCHANGED net
        BY <1>23, <2>1, <2>2
    <2>. QED BY <1>3, <1>4, <2>1, <2>3, <2>4 DEF Quiet
<1>25. ASSUME NEW t \in Sub, t # s, HandleSubscribed(t) PROVE Quiet(s)
    <2>. DEFINE r == SubscribeId(t)
    <2>1. /\ \E running : Handled(r, disp.respWait \ {r}, running) /\ disp.subs \subseteq running
          /\ \E chan : ops' = [ops EXCEPT ![SubscribeOp(t)].chan = chan]
        BY <1>25 DEF HandleSubscribed, RespWaitWithout, SubscribeId
    <2>2. r \in AllIds /\ r # id /\ \A n \in 1 .. MaxNote : r # Note(s, n)
        BY <1>25, DistinctOps, SubscribeIds, NotesDiffer DEF SubscribeId, id
    <2>3. ops'[asking].via = ops[asking].via /\ (ops'[asking].pc \in Early => ops[asking].pc \in Early)
        BY <1>1, <2>1, DistinctOps, OpMoves
    <2>. HIDE DEF r
    <2>4. KeepsMessages(s) /\ KeepsBatch(s) /\ KeepsRunning(s) /\ UNCHANGED net
        BY <1>23, <2>1, <2>2
    <2>5. subs'[s] = subs[s] BY <1>25, SubscribedUpdates
    <2>. QED BY <1>3, <1>4, <2>3, <2>4, <2>5 DEF Quiet
<1>26. ASSUME NEW t \in Sub, t # s, NEW n \in 1 .. MaxNote, Deliver(t, n) PROVE Quiet(s)
    <2>1. Handled(Note(t, n), disp.respWait, disp.subs) /\ UNCHANGED ops BY <1>26 DEF Deliver
    <2>2. Note(t, n) # id /\ \A m \in 1 .. MaxNote : Note(t, n) # Note(s, m)
        BY <1>1, <1>26, NotesDiffer
    <2>3. KeepsMessages(s) /\ KeepsBatch(s) /\ KeepsRunning(s) /\ UNCHANGED net
        BY <1>23, <2>1, <2>2
    <2>4. subs'[s] = subs[s] BY <1>26, DeliverUpdates
    <2>. QED BY <1>3, <1>4, <1>8, <2>1, <2>3, <2>4 DEF Quiet
<1>27. ASSUME NEW item \in disp.batch, Drop(item) PROVE Quiet(s)
    <2>1. Handled(item, disp.respWait, disp.subs) /\ UNCHANGED <<ops, subs>> /\ item \notin disp.respWait
        BY <1>27 DEF Drop
    <2>2. \A n \in 1 .. MaxNote : item = Note(s, n) => ~Runs(s)
        BY <1>27 DEF Drop, InOrder, Runs
    <2>3. KeepsMessages(s) /\ KeepsBatch(s) /\ KeepsRunning(s) /\ UNCHANGED net
        BY <1>23, <2>1, <2>2
    <2>. QED BY <1>3, <1>4, <1>8, <2>1, <2>3 DEF Quiet
<1>28. ASSUME UNCHANGED vars PROVE Quiet(s)
    BY <1>3, <1>4, <1>5, <1>6, <1>7, <1>8, <1>28 DEF vars, Quiet
<1>. QED
    BY <1>10, <1>12, <1>13, <1>14, <1>15, <1>16, <1>17, <1>18, <1>19, <1>20, <1>21, <1>22, <1>24,
       <1>25, <1>26, <1>27, <1>28, Actions DEF Eventful


-----------------------------------------------------------------------------
(* Each eventful step preserves what holds of its subscription. *)

Noted(s) == Accepted(s) /\ Underway(s) /\ InOrder(s)

(* Taking the first element of one sequence to the end of another, and     *)
(* adding one, as seen from both.                                          *)
LEMMA TakenAndAdded ==
    ASSUME NEW S, NEW a \in Seq(S), NEW b \in Seq(S)
    PROVE  /\ b # <<>> => Append(a, Head(b)) \o Tail(b) = a \o b
           /\ \A x \in S : a \o Append(b, x) = Append(a \o b, x)
<1>1. ASSUME b # <<>> PROVE Append(a, Head(b)) \o Tail(b) = a \o b
    <2>1. Head(b) \in S /\ Tail(b) \in Seq(S) /\ Len(Tail(b)) = Len(b) - 1
        BY <1>1
    <2>2. Append(a, Head(b)) \in Seq(S) /\ Len(Append(a, Head(b))) = Len(a) + 1
        BY <2>1
    <2>. DEFINE left == Append(a, Head(b)) \o Tail(b)
                right == a \o b
    <2>3. left \in Seq(S) /\ right \in Seq(S) BY <2>1, <2>2
    <2>4. Len(left) = Len(a) + Len(b) /\ Len(right) = Len(a) + Len(b)
        BY <2>1, <2>2
    <2>5. ASSUME NEW i \in 1 .. Len(left) PROVE left[i] = right[i]
        BY <1>1, <2>1, <2>2, <2>4
    <2>. QED BY <2>3, <2>4, <2>5, SeqEqual
<1>2. ASSUME NEW x \in S PROVE a \o Append(b, x) = Append(a \o b, x)
    <2>. DEFINE left == a \o Append(b, x)
                right == Append(a \o b, x)
    <2>3. left \in Seq(S) /\ right \in Seq(S) /\ Len(left) = Len(right) OBVIOUS
    <2>5. ASSUME NEW i \in 1 .. Len(left) PROVE left[i] = right[i]
        OBVIOUS
    <2>. QED BY <2>3, <2>5, SeqEqual
<1>. QED BY <1>1, <1>2

(* The request of the subscription is written.                             *)
LEMMA WriteNoted ==
    ASSUME IInv, NEW s \in Sub, Write(SubscribeOp(s))
    PROVE  Noted(s)'
<1>. /\ NetType /\ OutType /\ SubsType /\ OpsType /\ Accepted(s) /\ Underway(s)
    BY DEF IInv, Types, Notifications
<1>. DEFINE id == SubscribeId(s)
            asking == SubscribeOp(s)
<1>1. ops[asking].pc = "write" /\ UNCHANGED <<disp, subs>> /\ asking \in Op
    BY DistinctOps DEF Write
<1>2. /\ subs[s].live = Nil /\ subs[s].sent = 0 /\ subs[s].forward = "none"
      /\ subs[s].buffer = <<>> /\ subs[s].received = <<>>
      /\ \A c \in Conn : id \notin net[c].server
      /\ subs[s].once # "forward"
    BY <1>1 DEF Accepted, Early
<1>3. ops'[asking].pc = "wait" /\ ops'[asking].via = out.conn BY <1>1, WriteUpdates
<1>4. /\ \A c \in Conn : net'[c].message = net[c].message
      /\ \A c \in Conn : id \in net'[c].server => c = out.conn
    BY <1>1, <1>2, WriteNet
<1>5. Accepted(s)'
    <2>. HIDE DEF id, asking
    <2>. QED BY <1>1, <1>2, <1>3, <1>4 DEF Accepted, Early, id, asking
<1>6. Underway(s)'
    <2>1. KeepsMessages(s) /\ KeepsBatch(s) BY <1>1, <1>2, <1>4 DEF KeepsMessages, KeepsBatch
    <2>. QED BY <1>1, <2>1, UnderwayFrame
<1>7. InOrder(s)' BY <1>1, <1>2 DEF InOrder, Runs
<1>. QED BY <1>5, <1>6, <1>7 DEF Noted

(* What Carried holds: the notifications of s in the batch or a message.    *)
LEMMA CarriedNotes ==
    ASSUME NEW s, NEW batch, NEW messages, NEW n \in 1 .. MaxNote
    PROVE  n \in Carried(s, batch, messages)
           <=> Note(s, n) \in batch \/ \E c \in Conn : Note(s, n) \in messages[c].message
BY DEF Carried

(* A message goes to the batch of dispatch.                                *)
LEMMA TakeNoted ==
    ASSUME IInv, NEW s \in Sub, NEW c \in Conn, TakeResp(c)
    PROVE  Noted(s)'
<1>. /\ DispType /\ NetType /\ SubsType /\ Accepted(s) /\ Underway(s) /\ InOrder(s) /\ LoopStates
    BY DEF IInv, Types, Notifications
<1>. DEFINE id == SubscribeId(s)
<1>1. /\ UNCHANGED <<ops, subs>> /\ disp.batch = {} /\ disp'.batch = net[c].message
      /\ disp'.respWait = disp.respWait /\ disp'.subs = disp.subs
      /\ net' = [net EXCEPT ![c].reader = "decode", ![c].message = {}]
    BY DEF TakeResp, DispType, LoopStates
<1>2. /\ net'[c].message = {} /\ net'[c].server = net[c].server
      /\ \A d \in Conn : d # c => net'[d] = net[d]
    BY <1>1, NetTaken
<1>3. Accepted(s)'
    <2>1. /\ \A d \in Conn : id \in net'[d].server <=> id \in net[d].server
          /\ id \in disp'.respWait <=> id \in disp.respWait
        BY <1>1, <1>2
    <2>2. ASSUME id \in disp'.respWait, subs'[s].live # Nil
          PROVE  \/ id \in net'[subs'[s].live].message /\ subs'[s].sent = 0
                 \/ id \in disp'.batch /\ subs'[s].sent = 0
        <3>1. subs[s].live \in Conn BY <1>1, <2>2, SubFields
        <3>2. id \in net[subs[s].live].message /\ subs[s].sent = 0
            BY <1>1, <2>2 DEF Accepted
        <3>. QED BY <1>1, <1>2, <3>1, <3>2
    <2>. HIDE DEF id
    <2>. QED BY <1>1, <2>1, <2>2 DEF Accepted, id
<1>4. Underway(s)'
    <2>1. ASSUME NEW d \in Conn, NEW n \in 1 .. MaxNote, Note(s, n) \in net'[d].message
          PROVE  d = subs'[s].live /\ n = subs'[s].sent
        BY <1>1, <1>2, <2>1 DEF Underway
    <2>2. ASSUME NEW n \in 1 .. MaxNote, Note(s, n) \in disp'.batch
          PROVE  n = subs'[s].sent /\ Note(s, subs'[s].sent) \notin net'[subs'[s].live].message
        <3>1. c = subs[s].live /\ n = subs[s].sent BY <1>1, <2>2 DEF Underway
        <3>. QED BY <1>1, <1>2, <3>1
    <2>. QED BY <2>1, <2>2 DEF Underway
<1>5. InOrder(s)'
    <2>1. Runs(s)' = Runs(s) /\ Got(s)' = Got(s) BY <1>1 DEF Runs, Got
    <2>2. Coming(s)' = Coming(s)
        <3>1. ASSUME NEW n \in 1 .. MaxNote
              PROVE  n \in Coming(s)' <=> n \in Coming(s)
            <4>1. \/ Note(s, n) \in disp'.batch
                  \/ \E d \in Conn : Note(s, n) \in net'[d].message
                  <=> \/ Note(s, n) \in disp.batch
                      \/ \E d \in Conn : Note(s, n) \in net[d].message
                BY <1>1, <1>2
            <4>. QED BY <4>1, CarriedNotes DEF Coming
        <3>2. Coming(s)' \subseteq 1 .. MaxNote /\ Coming(s) \subseteq 1 .. MaxNote
            BY DEF Coming, Carried
        <3>. QED BY <3>1, <3>2
    <2>. QED BY <1>1, <2>1, <2>2 DEF InOrder
<1>. QED BY <1>3, <1>4, <1>5 DEF Noted

(* A message is dropped when dispatch ends: no subscription runs.          *)
LEMMA DrainNoted ==
    ASSUME IInv, NEW s \in Sub, NEW c \in Conn, DrainResp(c)
    PROVE  Noted(s)'
<1>. /\ DispType /\ NetType /\ SubsType /\ Accepted(s) /\ Underway(s) /\ InOrder(s) /\ LoopStates
    BY DEF IInv, Types, Notifications
<1>1. /\ UNCHANGED <<ops, subs, disp>> /\ disp.batch = {} /\ disp.respWait = {} /\ disp.subs = {}
      /\ net' = [net EXCEPT ![c].reader = "decode", ![c].message = {}]
    BY DEF DrainResp, LoopStates
<1>2. \A d \in Conn : /\ net'[d].message \subseteq net[d].message
                      /\ net'[d].server = net[d].server
    <2>1. /\ net'[c].message = {} /\ net'[c].server = net[c].server
          /\ \A d \in Conn : d # c => net'[d] = net[d]
        BY <1>1, NetTaken
    <2>. QED BY <2>1
<1>3. Accepted(s)'
    <2>1. \A d \in Conn : SubscribeId(s) \in net'[d].server <=> SubscribeId(s) \in net[d].server
        BY <1>2
    <2>2. SubscribeId(s) \notin disp'.respWait BY <1>1
    <2>. QED BY <1>1, <2>1, <2>2 DEF Accepted
<1>4. Underway(s)' BY <1>1, <1>2 DEF Underway
<1>5. InOrder(s)'
    <2>1. ~Runs(s) BY <1>1 DEF InOrder
    <2>. QED BY <1>1, <2>1 DEF InOrder, Runs
<1>. QED BY <1>3, <1>4, <1>5 DEF Noted

(* The server answers the request.                                         *)
LEMMA AnswerNoted ==
    ASSUME IInv, NEW s \in Sub, NEW c \in Conn, NEW ids \in SUBSET net[c].server,
           Answer(c, ids), SubscribeId(s) \in ids
    PROVE  Noted(s)'
<1>. /\ DispType /\ NetType /\ SubsType /\ Accepted(s) /\ Underway(s)
    BY DEF IInv, Types, Notifications
<1>. DEFINE id == SubscribeId(s)
            asking == SubscribeOp(s)
<1>1. UNCHANGED <<ops, disp>> BY DEF Answer
<1>2. /\ ops[asking].via = c /\ ops[asking].pc \notin Early
      /\ subs[s].live = Nil /\ subs[s].sent = 0 /\ subs[s].forward = "none"
      /\ subs[s].buffer = <<>> /\ subs[s].received = <<>> /\ subs[s].once # "forward"
    BY DEF Accepted
<1>3. id \notin Repeated
    <2>1. \A op \in Call : id \notin Ids(op) BY SubscribeIds, OwnerOfId, DistinctOps DEF Op
    <2>. QED BY <2>1, RpcAssumption DEF RpcAssumption
<1>4. /\ net'[c].message = ids /\ ids \subseteq AllIds
      /\ net'[c].server = (net[c].server \ ids) \cup (ids \cap Repeated)
      /\ \A d \in Conn : d # c => net'[d] = net[d]
    BY AnswerNet DEF NetType
<1>5. \A d \in Conn : id \notin net'[d].server
    <2>1. id \notin net'[c].server BY <1>3, <1>4
    <2>2. ASSUME NEW d \in Conn, d # c PROVE id \notin net'[d].server
        BY <1>2, <1>4, <2>2 DEF Accepted
    <2>. QED BY <2>1, <2>2
<1>6. /\ subs'[s].live \in {Nil, c} /\ subs'[s].sent = 0 /\ subs'[s].forward = "none"
      /\ subs'[s].buffer = <<>> /\ subs'[s].received = <<>> /\ subs'[s].once # "forward"
    BY <1>2, AnswerUpdates
<1>7. Accepted(s)'
    <2>1. subs'[s].live # Nil => id \in net'[subs'[s].live].message BY <1>4, <1>6
    <2>. HIDE DEF id, asking
    <2>. QED BY <1>1, <1>2, <1>5, <1>6, <2>1 DEF Accepted, id, asking
<1>8. Underway(s)'
    <2>1. \A d \in Conn, n \in 1 .. MaxNote : Note(s, n) \notin net[d].message
        BY <1>2 DEF Underway
    <2>2. \A d \in Conn, n \in 1 .. MaxNote : Note(s, n) \notin net'[d].message
        BY <1>4, <2>1, NotesDiffer
    <2>3. \A n \in 1 .. MaxNote : Note(s, n) \notin disp.batch
        BY <1>2 DEF Underway
    <2>. QED BY <1>1, <2>2, <2>3 DEF Underway
<1>9. InOrder(s)' BY <1>6 DEF InOrder, Runs
<1>. QED BY <1>7, <1>8, <1>9 DEF Noted

(* The server sends a notification.                                        *)
LEMMA NotifyNoted ==
    ASSUME IInv, NEW s \in Sub, Notify(s)
    PROVE  Noted(s)'
<1>. /\ DispType /\ NetType /\ SubsType /\ Accepted(s) /\ Underway(s) /\ InOrder(s)
    BY DEF IInv, Types, Notifications
<1>. DEFINE id == SubscribeId(s)
            asking == SubscribeOp(s)
            c == subs[s].live
            next == subs[s].sent + 1
<1>1. UNCHANGED <<ops, disp>> BY DEF Notify
<1>2. /\ c \in Conn /\ net[c].message = {} /\ next \in 1 .. MaxNote /\ subs[s].sent \in Nat
      /\ net'[c].message = {Note(s, next)}
      /\ \A d \in Conn : net'[d].server = net[d].server
      /\ \A d \in Conn : d # c => net'[d] = net[d]
    BY NotifyUpdates
<1>3. c # Nil BY <1>2 DEF Conn, Nil
<1>4. /\ subs'[s].once = subs[s].once /\ subs'[s].quit = subs[s].quit
      /\ subs'[s].forward = subs[s].forward
      /\ subs'[s].buffer = subs[s].buffer /\ subs'[s].received = subs[s].received
      /\ subs'[s].live = c /\ subs'[s].sent = next
    BY NotifiedUpdates
<1>. HIDE DEF id, asking, c, next
<1>5. Accepted(s)'
    <2>1. ops[asking].pc \notin Early /\ \A d \in Conn : id \notin net[d].server
        BY <1>3 DEF Accepted, id, asking, c
    <2>2. ASSUME id \in disp.respWait
          PROVE  id \in disp.batch /\ next = 1 /\ Note(s, 1) \in net'[c].message
        <3>1. /\ id \in disp.batch
              /\ subs[s].sent = 0 \/ (subs[s].sent = 1 /\ Note(s, 1) \in net[c].message)
            BY <1>2, <1>3, <2>2 DEF Accepted, id, c
        <3>. QED BY <1>2, <3>1 DEF next
    <2>. QED BY <1>1, <1>2, <1>3, <1>4, <2>1, <2>2 DEF Accepted, id, asking
<1>6. \A d \in Conn, n \in 1 .. MaxNote : Note(s, n) \in net'[d].message <=> d = c /\ n = next
    <2>1. \A d \in Conn, n \in 1 .. MaxNote : Note(s, n) \notin net[d].message
        BY <1>2 DEF Underway, c
    <2>2. \A n \in 1 .. MaxNote : Note(s, n) \in net'[c].message <=> n = next
        BY <1>2, NotesDiffer
    <2>. QED BY <1>2, <2>1, <2>2
<1>7. Underway(s)'
    <2>1. ASSUME NEW n \in 1 .. MaxNote, Note(s, n) \in disp.batch PROVE n = next - 1
        <3>1. n = subs[s].sent BY <1>2, <2>1 DEF Underway, c
        <3>. QED BY <1>2, <3>1 DEF next
    <2>2. next \in 1 .. MaxNote /\ Note(s, next) \in net'[c].message BY <1>2
    <2>. QED BY <1>1, <1>4, <1>6, <2>1, <2>2 DEF Underway
<1>8. ASSUME Runs(s)'
      PROVE  /\ s \in disp'.subs
             /\ Len(Got(s)') <= next
             /\ Got(s)' = [n \in 1 .. Len(Got(s)') |-> n]
             /\ Coming(s)' = Len(Got(s)') + 1 .. next
    <2>1. Runs(s) /\ Got(s)' = Got(s) BY <1>4, <1>8 DEF Runs, Got
    <2>2. /\ s \in disp.subs /\ Len(Got(s)) <= subs[s].sent
          /\ Got(s) = [n \in 1 .. Len(Got(s)) |-> n]
          /\ Coming(s) = Len(Got(s)) + 1 .. subs[s].sent
        BY <2>1 DEF InOrder
    <2>3. Len(Got(s)) \in Nat
        <3>1. Got(s) \in NoteSeq BY SubFields DEF Got, NoteSeq
        <3>. QED BY <3>1 DEF NoteSeq
    <2>4. \A n \in 1 .. MaxNote : n \in Coming(s)' <=> n \in Coming(s) \/ n = next
        <3>1. \A d \in Conn, n \in 1 .. MaxNote : Note(s, n) \notin net[d].message
            BY <1>2 DEF Underway, c
        <3>. QED BY <1>1, <1>2, <1>6, <3>1 DEF Coming, Carried
    <2>5. Coming(s)' \subseteq 1 .. MaxNote /\ Coming(s) \subseteq 1 .. MaxNote BY DEF Coming, Carried
    <2>6. Coming(s)' = Coming(s) \cup {next} BY <1>2, <2>4, <2>5
    <2>7. Coming(s)' = Len(Got(s)) + 1 .. next BY <1>2, <2>2, <2>3, <2>6 DEF next
    <2>8. Len(Got(s)) <= next BY <1>2, <2>2, <2>3 DEF next
    <2>. QED BY <1>1, <2>1, <2>2, <2>7, <2>8
<1>9. InOrder(s)' BY <1>4, <1>8 DEF InOrder
<1>. QED BY <1>5, <1>7, <1>9 DEF Noted

(* A step of a subscription that forward() serves, and goes on to serve.   *)
LEMMA ServedKeeps ==
    ASSUME SubsType, NEW s \in Sub, Accepted(s), Underway(s),
           subs[s].forward = "select", subs'[s].forward = "select",
           subs'[s].once = subs[s].once, subs'[s].live = subs[s].live,
           subs'[s].sent = subs[s].sent,
           KeepsAsking(s), KeepsMessages(s), KeepsBatch(s)
    PROVE  Accepted(s)' /\ Underway(s)'
<1>1. /\ subs[s].live # Nil /\ subs[s].once # "forward" /\ SubscribeId(s) \notin disp.respWait
      /\ ops[SubscribeOp(s)].pc \notin Early
      /\ \A c \in Conn : SubscribeId(s) \notin net[c].server
    BY DEF Accepted
<1>2. /\ SubscribeId(s) \notin disp'.respWait /\ ops'[SubscribeOp(s)].pc \notin Early
      /\ \A c \in Conn : SubscribeId(s) \notin net'[c].server
    BY <1>1 DEF KeepsBatch, KeepsAsking
<1>3. Accepted(s)' BY <1>1, <1>2 DEF Accepted
<1>4. Underway(s)' BY UnderwayFrame
<1>. QED BY <1>3, <1>4

(* Dispatch handles the answer to the request.                             *)
LEMMA SubscribedNoted ==
    ASSUME IInv, NEW s \in Sub, HandleSubscribed(s)
    PROVE  Noted(s)'
<1>. /\ DispType /\ NetType /\ SubsType /\ OpsType /\ Accepted(s) /\ Underway(s) /\ InOrder(s)
     /\ OneNote(disp.batch)
    BY DEF IInv, Types, Notifications
<1>. DEFINE id == SubscribeId(s)
            asking == SubscribeOp(s)
            ok == subs[s].live # Nil
<1>1. asking \in Op /\ id \in AllIds BY DistinctOps, SubscribeIds
<1>2. /\ UNCHANGED net /\ id \in disp.respWait /\ id \in disp.batch
      /\ disp'.batch = disp.batch \ {id} /\ disp'.respWait = disp.respWait \ {id}
      /\ disp'.subs = IF ok THEN disp.subs \cup {s} ELSE disp.subs
      /\ \E chan : ops' = [ops EXCEPT ![asking].chan = chan]
    BY DEF HandleSubscribed, Handled, RespWaitWithout, DispType, SubscribeId
<1>3. ops'[asking].via = ops[asking].via /\ ops'[asking].pc = ops[asking].pc
    BY <1>1, <1>2, OpMoves
<1>4. /\ subs'[s].forward = IF ok THEN "select" ELSE subs[s].forward
      /\ subs'[s].once = subs[s].once /\ subs'[s].quit = subs[s].quit
      /\ subs'[s].buffer = subs[s].buffer /\ subs'[s].received = subs[s].received
      /\ subs'[s].live = subs[s].live /\ subs'[s].sent = subs[s].sent
    BY SubscribedUpdates
<1>5. /\ subs[s].forward = "none" /\ subs[s].buffer = <<>> /\ subs[s].received = <<>>
      /\ subs[s].once # "forward"
    BY <1>2 DEF Accepted
<1>6. KeepsAsking(s) /\ KeepsMessages(s) /\ KeepsBatch(s)
    BY <1>2, <1>3 DEF KeepsAsking, KeepsMessages, KeepsBatch
<1>7. CASE ~ok
    <2>1. KeepsSub(s) /\ KeepsRunning(s) BY <1>4, <1>5, <1>7 DEF KeepsSub, KeepsRunning, Runs
    <2>. QED BY <1>6, <2>1, QuietKeeps DEF Quiet, Noted
<1>8. CASE ok
    <2>1. /\ ops[asking].pc \notin Early /\ \A c \in Conn : id \notin net[c].server
        BY <1>8 DEF Accepted
    <2>2. Accepted(s)'
        <3>1. id \notin disp'.respWait BY <1>2
        <3>. HIDE DEF id, asking
        <3>. QED BY <1>2, <1>3, <1>4, <1>5, <1>8, <2>1, <3>1 DEF Accepted, id, asking
    <2>3. Underway(s)' BY <1>4, <1>6, UnderwayFrame
    <2>4. Got(s)' = <<>> BY <1>4, <1>5 DEF Got
    <2>5. \A n \in 1 .. MaxNote : Note(s, n) \notin disp'.batch
        BY <1>1, <1>2, NotesDiffer DEF OneNote, Notes
    <2>6. subs[s].sent \in 0 .. MaxNote /\ subs[s].live \in Conn BY <1>8, SubFields
    <2>7. Coming(s)' = 1 .. subs[s].sent
        <3>1. \/ subs[s].sent = 0
              \/ subs[s].sent = 1 /\ Note(s, 1) \in net[subs[s].live].message
            BY <1>2, <1>8 DEF Accepted
        <3>2. Coming(s)' = {n \in 1 .. MaxNote : \E c \in Conn : Note(s, n) \in net[c].message}
            BY <1>2, <2>5 DEF Coming, Carried
        <3>3. \A n \in Coming(s)' : n = subs[s].sent BY <3>2 DEF Underway
        <3>4. CASE subs[s].sent = 0
            <4>1. Coming(s)' = {} BY <3>2, <3>3, <3>4
            <4>2. 1 .. 0 = {} OBVIOUS
            <4>. QED BY <3>4, <4>1, <4>2
        <3>5. CASE subs[s].sent = 1 /\ Note(s, 1) \in net[subs[s].live].message
            <4>1. 1 \in 1 .. MaxNote BY <2>6, <3>5, RpcAssumption DEF RpcAssumption
            <4>2. 1 \in Coming(s)' BY <2>6, <3>2, <3>5, <4>1
            <4>3. Coming(s)' = {1} BY <3>3, <3>5, <4>2
            <4>4. 1 .. 1 = {1} OBVIOUS
            <4>. QED BY <3>5, <4>3, <4>4
        <3>. QED BY <3>1, <3>4, <3>5
    <2>8. s \in disp'.subs BY <1>2, <1>8
    <2>9. InOrder(s)'
        <3>1. Len(<<>>) = 0 /\ <<>> = [n \in 1 .. 0 |-> n] OBVIOUS
        <3>2. 0 <= subs[s].sent /\ 0 + 1 = 1 BY <2>6
        <3>. QED BY <1>4, <2>4, <2>7, <2>8, <3>1, <3>2 DEF InOrder
    <2>. QED BY <2>2, <2>3, <2>9 DEF Noted
<1>. QED BY <1>7, <1>8

(* Dispatch delivers a notification: it is the next one.                   *)
LEMMA DeliverNoted ==
    ASSUME IInv, NEW s \in Sub, NEW n \in 1 .. MaxNote, Deliver(s, n)
    PROVE  Noted(s)'
<1>. /\ DispType /\ NetType /\ SubsType /\ Accepted(s) /\ Underway(s) /\ InOrder(s)
     /\ OneNote(disp.batch)
    BY DEF IInv, Types, Notifications
<1>1. /\ UNCHANGED <<ops, net>> /\ subs[s].forward = "select" /\ Note(s, n) \in disp.batch
      /\ disp'.batch = disp.batch \ {Note(s, n)} /\ disp'.respWait = disp.respWait
      /\ disp'.subs = disp.subs
    BY DEF Deliver, Handled, DispType
<1>2. SubscribeId(s) # Note(s, n) BY SubscribeIds, NotesDiffer
<1>3. KeepsAsking(s) /\ KeepsMessages(s) /\ KeepsBatch(s)
    BY <1>1, <1>2 DEF KeepsAsking, KeepsMessages, KeepsBatch
<1>4. /\ subs'[s].once = subs[s].once /\ subs'[s].quit = subs[s].quit
      /\ subs'[s].received = subs[s].received
      /\ subs'[s].live = subs[s].live /\ subs'[s].sent = subs[s].sent
    BY DeliverUpdates
<1>5. CASE subs'[s].forward = "failing" /\ subs'[s].buffer = subs[s].buffer
    <2>1. ~Runs(s)' BY <1>5 DEF Runs
    <2>. QED BY <1>1, <1>3, <1>4, <1>5, <2>1, StopKeeps DEF Noted
<1>6. CASE subs'[s].forward = subs[s].forward /\ subs'[s].buffer = Append(subs[s].buffer, n)
    <2>1. Accepted(s)' /\ Underway(s)' BY <1>1, <1>3, <1>4, <1>6, ServedKeeps
    <2>2. ASSUME Runs(s)'
          PROVE  /\ s \in disp'.subs
                 /\ Len(Got(s)') <= subs'[s].sent
                 /\ Got(s)' = [m \in 1 .. Len(Got(s)') |-> m]
                 /\ Coming(s)' = Len(Got(s)') + 1 .. subs'[s].sent
        <3>. DEFINE got == Got(s)
                    sent == subs[s].sent
                    moving == {m \in 1 .. MaxNote : \E c \in Conn : Note(s, m) \in net[c].message}
        <3>1. Runs(s) BY <1>4, <1>6, <2>2 DEF Runs
        <3>2. /\ s \in disp.subs /\ Len(got) <= sent /\ got = [m \in 1 .. Len(got) |-> m]
              /\ Coming(s) = Len(got) + 1 .. sent
            BY <3>1 DEF InOrder
        <3>3. got \in NoteSeq /\ Len(got) \in Nat /\ Got(s)' = Append(got, n)
            <4>1. subs[s].received \in Seq(1 .. MaxNote) /\ subs[s].buffer \in Seq(1 .. MaxNote)
                BY SubFields DEF NoteSeq
            <4>2. subs[s].received \o Append(subs[s].buffer, n) = Append(got, n)
                BY <4>1, TakenAndAdded DEF Got
            <4>3. Got(s)' = Append(got, n) BY <1>4, <1>6, <4>2 DEF Got
            <4>4. got \in Seq(1 .. MaxNote) BY <4>1 DEF Got
            <4>. QED BY <4>3, <4>4 DEF NoteSeq
        <3>4. disp.batch = {Note(s, n)} BY <1>1, NotesDiffer DEF OneNote, Notes
        <3>5. sent \in Nat BY SubFields
        <3>6. Coming(s) = moving \cup {n}
            <4>1. \A m \in 1 .. MaxNote : Note(s, m) \in disp.batch <=> m = n
                BY <3>4, NotesDiffer
            <4>. QED BY <4>1 DEF Coming, Carried
        <3>7. Coming(s)' = moving BY <1>1, <3>4 DEF Coming, Carried
        <3>8. \A m \in moving : m = sent BY DEF Underway
        <3>9. sent \in moving => n = sent - 1
            <4>1. ASSUME sent \in moving PROVE Note(s, sent) \in net[subs[s].live].message
                <5>1. PICK c \in Conn : Note(s, sent) \in net[c].message BY <4>1
                <5>2. c = subs[s].live BY <4>1, <5>1 DEF Underway
                <5>. QED BY <5>1, <5>2
            <4>. QED BY <1>1, <4>1 DEF Underway
        <3>. HIDE DEF got, sent, moving
        <3>10. n = Len(got) + 1
            <4>1. n \in Len(got) + 1 .. sent BY <3>2, <3>6
            <4>2. Len(got) + 1 \in moving \cup {n} BY <3>2, <3>3, <3>5, <3>6, <4>1
            <4>. QED BY <3>3, <3>5, <3>8, <3>9, <4>1, <4>2
        <3>11. n <= sent BY <3>2, <3>6
        <3>12. moving = n + 1 .. sent
            <4>1. n \notin moving BY <3>5, <3>8, <3>9
            <4>2. moving = (n .. sent) \ {n} BY <3>2, <3>6, <3>10, <4>1
            <4>. QED BY <3>5, <4>2
        <3>13. Len(Append(got, n)) = n /\ Append(got, n) = [m \in 1 .. n |-> m]
            BY <3>2, <3>3, <3>10 DEF NoteSeq
        <3>. QED BY <1>1, <1>4, <3>2, <3>3, <3>7, <3>11, <3>12, <3>13 DEF sent
    <2>3. InOrder(s)' BY <2>2 DEF InOrder
    <2>. QED BY <2>1, <2>3 DEF Noted
<1>. QED BY <1>5, <1>6, DeliverUpdates

(* What the subscriber, forward() and dispatch do to it.                   *)
LEMMA QuitNoted ==
    ASSUME IInv, NEW s \in Sub, QuitSub(s)
    PROVE  Noted(s)'
<1>. DispType /\ SubsType /\ Accepted(s) /\ Underway(s) BY DEF IInv, Types, Notifications
<1>1. UNCHANGED <<ops, net>> /\ disp'.batch = disp.batch /\ disp'.respWait = disp.respWait
    BY DEF QuitSub, DispType
<1>2. KeepsAsking(s) /\ KeepsMessages(s) /\ KeepsBatch(s)
    BY <1>1 DEF KeepsAsking, KeepsMessages, KeepsBatch
<1>. QED BY <1>2, QuitUpdates, StopKeeps DEF Noted, Runs

(* Entering quitOnce keeps the notifications in order.                     *)
LEMMA EnterNoted ==
    ASSUME IInv, NEW s \in Sub, NEW who \in {"user", "forward"}, EnterOnce(s, who)
    PROVE  Noted(s)'
<1>. OpsType /\ SubsType /\ Accepted(s) /\ Underway(s) BY DEF IInv, Types, Notifications
<1>1. /\ UNCHANGED <<disp, net>> /\ ops' = [ops EXCEPT ![UnsubscribeOp(s)].pc = "send"]
      /\ UnsubscribeOp(s) \in Op /\ SubscribeOp(s) \in Op /\ UnsubscribeOp(s) # SubscribeOp(s)
    BY DistinctOps DEF EnterOnce
<1>2. ops'[SubscribeOp(s)] = ops[SubscribeOp(s)] BY <1>1, OpMoves
<1>3. KeepsAsking(s) /\ KeepsMessages(s) /\ KeepsBatch(s)
    BY <1>1, <1>2 DEF KeepsAsking, KeepsMessages, KeepsBatch
<1>. QED BY <1>3, EnterUpdates, StopKeeps DEF Noted, Runs

(* A step of the subscription itself keeps its notifications in order.     *)
LEMMA StepNoted ==
    ASSUME IInv, NEW s \in Sub, SubStep(s)
    PROVE  Noted(s)'
<1>. SubsType /\ Accepted(s) /\ Underway(s) /\ InOrder(s) BY DEF IInv, Types, Notifications
<1>1. UNCHANGED <<ops, disp, net>> BY Frames
<1>2. KeepsAsking(s) /\ KeepsMessages(s) /\ KeepsBatch(s) /\ KeepsRunning(s)
    BY <1>1 DEF KeepsAsking, KeepsMessages, KeepsBatch, KeepsRunning, InOrder
<1>3. CASE Consume(s)
    <2>1. /\ subs[s].forward = "select" /\ subs'[s].forward = "select"
          /\ subs[s].buffer # <<>> /\ subs'[s].buffer = Tail(subs[s].buffer)
          /\ subs'[s].received = Append(subs[s].received, Head(subs[s].buffer))
          /\ subs'[s].once = subs[s].once /\ subs'[s].quit = subs[s].quit
          /\ subs'[s].live = subs[s].live /\ subs'[s].sent = subs[s].sent
        BY <1>3, ConsumeUpdates DEF Consume
    <2>2. Accepted(s)' /\ Underway(s)' BY <1>2, <2>1, ServedKeeps
    <2>3. Got(s)' = Got(s)
        <3>1. subs[s].received \in Seq(1 .. MaxNote) /\ subs[s].buffer \in Seq(1 .. MaxNote)
            BY SubFields DEF NoteSeq
        <3>2. Append(subs[s].received, Head(subs[s].buffer)) \o Tail(subs[s].buffer)
              = subs[s].received \o subs[s].buffer
            BY <2>1, <3>1, TakenAndAdded
        <3>. QED BY <2>1, <3>2 DEF Got
    <2>4. Coming(s)' = Coming(s) BY <1>1 DEF Coming
    <2>5. InOrder(s)' BY <1>1, <2>1, <2>3, <2>4 DEF InOrder, Runs
    <2>. QED BY <2>2, <2>5 DEF Noted
<1>4. CASE LeaveOnce(s)
    <2>1. subs'[s].forward = "none" <=> subs[s].forward = "none"
        BY <1>4, LeaveUpdates DEF Accepted
    <2>2. ~Runs(s)' BY <1>4, LeaveUpdates DEF Runs
    <2>. QED BY <1>2, <1>4, <2>1, <2>2, LeaveUpdates, StopKeeps DEF Noted
<1>5. CASE ForwardReturns(s) \/ Unsubscribe(s) \/ UnsubscribeReturn(s)
    <2>1. CASE subs'[s].forward = subs[s].forward
        <3>1. KeepsSub(s) BY <1>5, <2>1, UserUpdates DEF KeepsSub
        <3>. QED BY <1>2, <3>1, QuietKeeps DEF Quiet, Noted
    <2>2. CASE subs'[s].forward # subs[s].forward
        <3>1. /\ subs'[s].forward = "done" /\ subs[s].forward \in {"select", "failing"}
              /\ subs[s].forward = "failing" => subs[s].once = "done"
              /\ subs'[s].once = subs[s].once
            BY <1>5, <2>2, UserUpdates
        <3>2. subs'[s].once # "forward" BY <3>1 DEF Accepted
        <3>3. ~Runs(s)' BY <3>1 DEF Runs
        <3>. QED BY <1>2, <1>5, <3>1, <3>2, <3>3, UserUpdates, StopKeeps DEF Noted
    <2>. QED BY <2>1, <2>2
<1>. QED BY <1>3, <1>4, <1>5 DEF SubStep

-----------------------------------------------------------------------------
(* What is in a message or in the batch comes from the server or a message.*)
LEMMA Arrivals ==
    ASSUME IInv, [Next]_vars
    PROVE  \/ \E c \in Conn : \E ids \in SUBSET net[c].server : Answer(c, ids)
           \/ \E s \in Sub : Notify(s)
           \/ \E c \in Conn : TakeResp(c)
           \/ /\ disp'.batch \subseteq disp.batch
              /\ \A c \in Conn : net'[c].message \subseteq net[c].message
<1>. Types /\ DispType /\ NetType /\ OutType BY DEF IInv, Types
<1>. DEFINE Less == /\ disp'.batch \subseteq disp.batch
                    /\ \A c \in Conn : net'[c].message \subseteq net[c].message
<1>1. ASSUME NEW op \in Op,
             Begin(op) \/ GivesUp(op) \/ Receive(op) \/ SendError(op)
      PROVE  Less
    BY <1>1, Frames
<1>2. ASSUME NEW op \in Op, Write(op) PROVE Less
    <2>1. UNCHANGED disp BY <1>2 DEF Write
    <2>. QED BY <1>2, <2>1, WriteNet
<1>3. ASSUME NEW op \in Op, Accept(op) \/ Dial(op) \/ Reconnected(op) \/ ReconnectGivesUp(op)
      PROVE  Less
    <2>1. disp'.batch = disp.batch
        BY <1>3 DEF Accept, Dial, Reconnected, ReconnectGivesUp, SendFails, DispType
    <2>2. out'.dialled \in Conn /\ out.dialled \in Conn /\ disp.conn \in Conn
        BY NextTypes DEF Types, OutType, DispType
    <2>3. \A c \in Conn : net'[c].message = net[c].message
        <3>1. \/ UNCHANGED net
              \/ net' = [net EXCEPT ![out'.dialled].open = TRUE]
              \/ net' = [net EXCEPT ![out.dialled].open = FALSE]
              \/ net' = [net EXCEPT ![disp.conn].open = FALSE]
              \/ net' = [net EXCEPT ![out.dialled].reader = "decode"]
            BY <1>3 DEF Accept, Dial, Reconnected, ReconnectGivesUp
        <3>. QED BY <2>2, <3>1 DEF NetType
    <2>. QED BY <2>1, <2>3
<1>4. ASSUME NEW k \in Closer, CloserStep(k) \/ TakeClose(k) PROVE Less
    <2>1. UNCHANGED net /\ disp'.batch = disp.batch BY <1>4, Frames DEF TakeClose, DispType
    <2>. QED BY <2>1
<1>5. ASSUME NEW c \in Conn, TakeErr(c) \/ DrainErr(c) \/ AwaitErr(c) \/ NetStep(c) PROVE Less
    <2>1. disp'.batch = disp.batch BY <1>5, Frames DEF TakeErr, DrainErr, AwaitErr, DispType
    <2>2. \A d \in Conn : net'[d].message = net[d].message
        <3>1. CASE TakeErr(c) \/ DrainErr(c)
            <4>1. net' = [net EXCEPT ![c].reader = "exited"] BY <3>1 DEF TakeErr, DrainErr
            <4>. QED BY <4>1 DEF NetType
        <3>2. CASE AwaitErr(c) BY <3>2 DEF AwaitErr, NetType, OutType
        <3>3. CASE Break(c) BY <3>3, NetBreaks
        <3>4. CASE Decode(c) \/ ReadFails(c) \/ DecodeFails(c)
            <4>1. net'[c].message = net[c].message /\ \A d \in Conn : d # c => net'[d] = net[d]
                BY <3>4, ReadUpdates
            <4>. QED BY <4>1
        <3>. QED BY <1>5, <3>1, <3>2, <3>3, <3>4 DEF NetStep
    <2>. QED BY <2>1, <2>2
<1>6. ASSUME NEW c \in Conn, DrainResp(c) PROVE Less
    <2>1. UNCHANGED disp BY <1>6 DEF DrainResp
    <2>2. net'[c].message = {} /\ \A d \in Conn : d # c => net'[d] = net[d]
        BY <1>6, NetTaken DEF DrainResp
    <2>. QED BY <2>1, <2>2
<1>7. ASSUME NEW item, NEW respWait, NEW running, Handled(item, respWait, running) PROVE Less
    <2>1. UNCHANGED net /\ disp'.batch = disp.batch \ {item} BY <1>7 DEF Handled, DispType
    <2>. QED BY <2>1
<1>8. ASSUME \/ \E id \in AllIds : HandleResponse(id)
             \/ \E item \in disp.batch : Drop(item)
             \/ \E s \in Sub : HandleSubscribed(s) \/ \E n \in 1 .. MaxNote : Deliver(s, n)
      PROVE  Less
    BY <1>7, <1>8 DEF HandleResponse, Drop, HandleSubscribed, Deliver
<1>9. ASSUME NEW s \in Sub,
             QuitSub(s) \/ SubStep(s) \/ \E who \in {"user", "forward"} : EnterOnce(s, who)
      PROVE  Less
    <2>1. UNCHANGED net /\ disp'.batch = disp.batch
        BY <1>9, Frames DEF QuitSub, EnterOnce, DispType
    <2>. QED BY <2>1
<1>10. ASSUME TakeSendDone \/ ReadErrDone \/ CloseDone PROVE Less
    <2>1. disp'.batch = disp.batch BY <1>10 DEF TakeSendDone, ReadErrDone, CloseDone, DispType
    <2>2. UNCHANGED net \/ net' = [net EXCEPT ![disp.conn].open = FALSE]
        BY <1>10 DEF TakeSendDone, ReadErrDone, CloseDone, ConnClosed
    <2>3. \A d \in Conn : net'[d].message = net[d].message BY <2>2 DEF NetType, DispType
    <2>. QED BY <2>1, <2>3
<1>11. ASSUME UNCHANGED vars PROVE Less BY <1>11 DEF vars
<1>. QED BY <1>1, <1>2, <1>3, <1>4, <1>5, <1>6, <1>8, <1>9, <1>10, <1>11, Actions DEF Less

(* Every message stays one notification or answers.                        *)
LEMMA NextOneNote ==
    IInv /\ [Next]_vars => OneNote(disp'.batch) /\ \A c \in Conn : OneNote(net'[c].message)
<1>. SUFFICES ASSUME IInv, [Next]_vars
              PROVE  OneNote(disp'.batch) /\ \A c \in Conn : OneNote(net'[c].message)
    OBVIOUS
<1>. /\ DispType /\ NetType /\ SubsType
     /\ OneNote(disp.batch) /\ \A c \in Conn : OneNote(net[c].message)
    BY DEF IInv, Types, Notifications
<1>1. ASSUME NEW more, NEW less, less \subseteq more, OneNote(more) PROVE OneNote(less)
    <2>1. CASE more \subseteq AllIds BY <1>1, <2>1 DEF OneNote
    <2>2. ASSUME NEW note \in Notes, more = {note} PROVE OneNote(less)
        BY <1>1, <2>2 DEF OneNote
    <2>. QED BY <1>1, <2>1, <2>2 DEF OneNote
<1>2. ASSUME NEW c \in Conn, NEW ids \in SUBSET net[c].server, Answer(c, ids)
      PROVE  OneNote(disp'.batch) /\ \A d \in Conn : OneNote(net'[d].message)
    <2>1. UNCHANGED disp BY <1>2 DEF Answer
    <2>2. /\ ids \subseteq AllIds /\ net'[c].message = ids
          /\ \A d \in Conn : d # c => net'[d] = net[d]
        BY <1>2, AnswerNet DEF NetType
    <2>3. OneNote(net'[c].message) BY <2>2 DEF OneNote
    <2>. QED BY <2>1, <2>2, <2>3
<1>3. ASSUME NEW s \in Sub, Notify(s)
      PROVE  OneNote(disp'.batch) /\ \A d \in Conn : OneNote(net'[d].message)
    <2>1. UNCHANGED disp BY <1>3 DEF Notify
    <2>2. /\ subs[s].live \in Conn /\ subs[s].sent + 1 \in 1 .. MaxNote
          /\ net'[subs[s].live].message = {Note(s, subs[s].sent + 1)}
          /\ \A d \in Conn : d # subs[s].live => net'[d] = net[d]
        BY <1>3, NotifyUpdates
    <2>3. OneNote(net'[subs[s].live].message) BY <2>2 DEF OneNote, Notes
    <2>. QED BY <2>1, <2>2, <2>3
<1>4. ASSUME NEW c \in Conn, TakeResp(c)
      PROVE  OneNote(disp'.batch) /\ \A d \in Conn : OneNote(net'[d].message)
    <2>1. disp'.batch = net[c].message BY <1>4 DEF TakeResp, DispType
    <2>2. net'[c].message = {} /\ \A d \in Conn : d # c => net'[d] = net[d]
        BY <1>4, NetTaken DEF TakeResp
    <2>. QED BY <1>1, <2>1, <2>2
<1>. QED BY <1>1, <1>2, <1>3, <1>4, Arrivals

(* Every step preserves what holds of the notifications.                   *)
LEMMA NextNotifications == IInv /\ [Next]_vars => Notifications'
<1>. SUFFICES ASSUME IInv, [Next]_vars PROVE Notifications' OBVIOUS
<1>1. ASSUME NEW s \in Sub PROVE Accepted(s)' /\ Underway(s)' /\ InOrder(s)'
    <2>1. CASE Quiet(s)
        <3>1. SubsType /\ Accepted(s) /\ Underway(s) /\ InOrder(s)
            BY DEF IInv, Types, Notifications
        <3>. QED BY <2>1, <3>1, QuietKeeps
    <2>2. CASE Eventful(s)
        <3>1. Noted(s)'
            BY <2>2, WriteNoted, TakeNoted, DrainNoted, AnswerNoted, NotifyNoted, SubscribedNoted,
               DeliverNoted, QuitNoted, EnterNoted, StepNoted
            DEF Eventful
        <3>. QED BY <3>1 DEF Noted
    <2>. QED BY <2>1, <2>2, OtherSteps
<1>2. OneNote(disp.batch)' /\ \A c \in Conn : OneNote(net[c].message)' BY NextOneNote DEF OneNote, Notes, AllIds
<1>. QED BY <1>1, <1>2 DEF Notifications

-----------------------------------------------------------------------------
(* The invariant, and what follows from it. *)
LEMMA NextIInv == IInv /\ [Next]_vars => IInv'
<1>. SUFFICES ASSUME IInv, [Next]_vars PROVE IInv' OBVIOUS
<1>1. Types' BY NextTypes DEF IInv
<1>2. SendLock' BY NextSendLock
<1>3. \A op \in Op : Ledger(op)' BY NextLedger
<1>4. LoopStates' BY NextLoopStates
<1>5. Readers' BY NextReaders
<1>6. Connections' BY NextConnections
<1>7. Signals' BY NextSignals
<1>8. QuitOnce' BY NextQuitOnce
<1>9. Notifications' BY NextNotifications
<1>10. (\A op \in Op : Ledger(op))'
    <2>1. Op' = Op BY DEF Op, SubscribeOp, UnsubscribeOp
    <2>. QED BY <1>3, <2>1
<1>. QED BY <1>1, <1>2, <1>4, <1>5, <1>6, <1>7, <1>8, <1>9, <1>10 DEF IInv

(* The invariant always holds.                                             *)
LEMMA Invariance == Spec => []IInv
BY InitIInv, NextIInv, PTL DEF Spec

(* The types of the client.                                                *)
THEOREM TypeCorrect == Spec => []TypeOK
<1>1. IInv => TypeOK
    <2>. SUFFICES ASSUME IInv PROVE TypeOK OBVIOUS
    <2>. Types /\ SendLock /\ LoopStates /\ Readers /\ Connections /\ QuitOnce BY DEF IInv
    <2>1. ASSUME NEW op \in Op
          PROVE  /\ ops[op].pc \in {"idle", "send", "write", "reconnect", "wait"} \cup Finished
                 /\ ops[op].taken + ops[op].resp <= Length(op)
                 /\ ops[op].chan \in {"open", "closed", "error"}
                 /\ ops[op].via \in Conn \cup {Nil}
        <3>1. ops[op] \in [pc : {"idle", "send", "write", "reconnect", "wait", "ok", "failed"},
                           resp : Nat, taken : Nat, chan : {"open", "closed", "error"},
                           via : Conn \cup {Nil}]
            BY DEF Types, OpsType
        <3>2. Registered(op) \subseteq Ids(op) BY DEF Registered
        <3>3. Cardinality(Registered(op)) \in Nat
            BY <3>2, IdsCounted, FS_Subset, FS_CardinalityType
        <3>4. ops[op].taken + ops[op].resp + Cardinality(Registered(op)) <= Length(op)
            BY DEF IInv, Ledger
        <3>5. Length(op) \in Nat BY LengthType
        <3>6. ops[op].taken + ops[op].resp <= Length(op) BY <3>1, <3>3, <3>4, <3>5
        <3>. QED BY <3>1, <3>6 DEF Finished
    <2>2. /\ out.conn \in Conn \cup {Nil} /\ out.dialled \in Conn
          /\ out.done \in {"empty", "nil", "error"}
          /\ out.done # "empty" => disp.lastOp # NoOp
        BY DEF Types, OutType, SendLock
    <2>3. /\ disp.lastOp \in Op \cup {NoOp} /\ disp.respWait \subseteq AllIds
          /\ loop = "handle" <=> disp.batch # {}
          /\ disp.reading \in BOOLEAN /\ disp.conn \in 1 .. out.dialled /\ disp.subs \subseteq Sub
        <3>1. disp \in [lastOp : Op \cup {NoOp}, respWait : SUBSET AllIds,
                        batch : SUBSET (AllIds \cup Notes), reading : BOOLEAN, conn : Conn,
                        subs : SUBSET Sub]
            BY DEF Types, DispType
        <3>2. disp.conn \in 1 .. out.dialled
            BY <2>2, <3>1, RpcAssumption DEF Connections, Conn, RpcAssumption
        <3>. QED BY <3>1, <3>2 DEF LoopStates
    <2>4. \A c \in Conn :
             /\ net[c].reader \in {"none", "decode", "resp", "err", "exited"}
             /\ net[c].reader = "resp" => net[c].message # {}
             /\ net[c].open => c <= out.dialled
             /\ net[c].broken \in BOOLEAN /\ net[c].server \subseteq AllIds
        BY DEF Types, NetType, Readers, Connections
    <2>5. \A s \in Sub :
             /\ subs[s].once \in {"free", "user", "forward", "done"} /\ subs[s].quit \in BOOLEAN
             /\ subs[s].forward \in {"none", "select", "failing", "done"}
             /\ Len(subs[s].buffer) <= MaxBuffer /\ subs[s].sent \in 0 .. MaxNote
             /\ subs[s].user \in {"idle", "unsubscribing", "done"}
             /\ subs[s].live \in Conn \cup {Nil}
        BY SubFields DEF Types, QuitOnce
    <2>. QED BY <2>1, <2>2, <2>3, <2>4, <2>5 DEF TypeOK, Types
<1>. QED BY <1>1, Invariance, PTL

(* A connection has one writer and one reader: the writer is the operation *)
(* that holds the send lock of dispatch, also while it dials, and a read   *)
(* loop is started only when the one before it is known to be gone         *)
(* (client.go:97-99, 736-751).                                             *)
THEOREM OneWriterOneReader == Spec => []ConnectionNotShared
<1>1. IInv => ConnectionNotShared
    <2>. SUFFICES ASSUME IInv PROVE ConnectionNotShared OBVIOUS
    <2>1. OneWriter BY DEF IInv, SendLock, OneWriter
    <2>2. OneReader
        <3>. DEFINE alive == {c \in Conn : net[c].reader \in {"decode", "resp", "err"}}
        <3>1. alive \subseteq {disp.conn} BY DEF IInv, Readers, Alive
        <3>2. IsFiniteSet({disp.conn}) /\ Cardinality({disp.conn}) = 1 BY FS_Singleton
        <3>3. IsFiniteSet(alive) /\ Cardinality(alive) <= Cardinality({disp.conn})
            BY <3>1, <3>2, FS_Subset
        <3>. QED BY <3>2, <3>3 DEF OneReader
    <2>. QED BY <2>1, <2>2 DEF ConnectionNotShared
<1>. QED BY <1>1, Invariance, PTL

(* dispatch never sends to a full or a closed op.resp, whatever the server *)
(* answers, repeats, or sends after the caller has gone, and a forward()   *)
(* that has stopped taking notifications can always let it go on           *)
(* (client.go:819, 916-945).                                               *)
THEOREM NeverBlocked == Spec => []DispatchNotBlocked
<1>1. IInv => DispatchNotBlocked
    <2>. SUFFICES ASSUME IInv PROVE DispatchNotBlocked OBVIOUS
    <2>1. ASSUME NEW id \in disp.respWait
          PROVE  ops[Owner(id)].chan = "open" /\ ops[Owner(id)].resp < Length(Owner(id))
        <3>. DEFINE op == Owner(id)
        <3>1. id \in AllIds BY DEF IInv, Types, DispType
        <3>2. op \in Op /\ id \in Registered(op) BY <3>1, OwnerOfId DEF Registered
        <3>3. ops[op].taken \in Nat /\ ops[op].resp \in Nat /\ Length(op) \in Nat
            BY <3>2, LengthType DEF IInv, Types, OpsType
        <3>4. Cardinality(Registered(op)) \in Nat \ {0}
            <4>1. /\ IsFiniteSet(Registered(op)) /\ Cardinality(Registered(op)) \in Nat
                BY <3>2, SomeIds DEF Registered
            <4>. HIDE DEF op
            <4>. QED BY <3>2, <4>1, FS_EmptySet
        <3>5. /\ Registered(op) # {} => ops[op].chan = "open"
              /\ ops[op].taken + ops[op].resp + Cardinality(Registered(op)) <= Length(op)
            BY <3>2 DEF IInv, Ledger
        <3>. HIDE DEF op
        <3>6. ops[op].resp < Length(op) BY <3>3, <3>4, <3>5
        <3>. QED BY <3>2, <3>5, <3>6 DEF op
    <2>2. DeliverEnds
        <3>1. disp.subs \subseteq Sub BY DEF IInv, Types, DispType
        <3>. QED BY <3>1 DEF IInv, QuitOnce, DeliverEnds
    <2>. QED BY <2>1, <2>2 DEF DispatchNotBlocked, NeverBlocksOnCaller
<1>. QED BY <1>1, Invariance, PTL

(* A caller that waits has every response it still expects in its channel  *)
(* or registered, or its channel is closed (client.go:126, 756-787).       *)
THEOREM NobodyForgotten == Spec => []NoCallerForgotten
<1>1. IInv => NoCallerForgotten BY DEF IInv, Ledger, Registered, NoCallerForgotten
<1>. QED BY <1>1, Invariance, PTL

(* A connection that was replaced or failed is closed, and a client that   *)
(* has quit leaves none open (client.go:665-672, 690, 733, 740).           *)
THEOREM OldConnectionsClosed == Spec => []NoConnectionLeaks
<1>1. IInv => NoConnectionLeaks BY DEF IInv, Connections
<1>. QED BY <1>1, Invariance, PTL

(* A connection has one writer and one reader, and is closed when another  *)
(* takes its place or it fails, over any number of reconnections           *)
(* (client.go:97-99, 665-672, 690, 733-751).                               *)
THEOREM ConnectionsAlwaysKept == Spec => []ConnectionsKept
BY OneWriterOneReader, OldConnectionsClosed, PTL DEF ConnectionsKept

-----------------------------------------------------------------------------
(* A subscription is asked for, accepted and served on one connection, and *)
(* as long as a write does not fail before the reader has, that is the one *)
(* whose reader dispatch listens to.                                       *)
Served(s) ==
    /\ \A c \in Conn : SubscribeId(s) \in net[c].message => ops[SubscribeOp(s)].via = c
    /\ SubscribeId(s) \in disp.batch => ops[SubscribeOp(s)].via = disp.conn
    /\ subs[s].live \in {Nil, ops[SubscribeOp(s)].via}
    /\ ~WriteFaults /\ s \in disp.subs =>
          subs[s].live = disp.conn /\ (loop \in {"select", "handle"} => disp.reading)

(* That holds of every subscription; and while a batch is handled, its     *)
(* reader is the one dispatch knows.                                       *)
Service == (loop = "handle" => disp.reading) /\ \A s \in Sub : Served(s)

(* What a step may keep: where it was asked for, the answers that are on   *)
(* their way, and the connection it is served on.                          *)
KeepsRequest(s) ==
    ops'[SubscribeOp(s)].via = ops[SubscribeOp(s)].via /\ subs'[s].live = subs[s].live

KeepsAnswers(s) ==
    /\ \A c \in Conn : SubscribeId(s) \in net'[c].message => SubscribeId(s) \in net[c].message
    /\ \/ disp'.batch = {}
       \/ disp'.batch \subseteq disp.batch /\ disp'.conn = disp.conn

KeepsService(s) ==
    \/ WriteFaults
    \/ s \notin disp'.subs
    \/ /\ s \in disp.subs /\ disp'.conn = disp.conn /\ disp'.reading = disp.reading
       /\ loop' \in {"select", "handle"} => loop \in {"select", "handle"}

(* Only its request, or the answer to it, changes where it is asked for.   *)
LEMMA RequestKept ==
    ASSUME IInv, [Next]_vars, NEW s \in Sub, ~Write(SubscribeOp(s)),
           \A c \in Conn : \A ids \in SUBSET net[c].server : Answer(c, ids) => SubscribeId(s) \notin ids
    PROVE  KeepsRequest(s)
<1>. Types /\ OpsType /\ SubsType BY DEF IInv, Types
<1>. SubscribeOp(s) \in Op BY DistinctOps
<1>1. CASE Quiet(s) BY <1>1 DEF Quiet, KeepsSub, KeepsAsking, KeepsRequest
<1>2. CASE HandleSubscribed(s)
    <2>1. ops'[SubscribeOp(s)].via = ops[SubscribeOp(s)].via
        BY <1>2 DEF HandleSubscribed, OpsType
    <2>. QED BY <1>2, <2>1, SubscribedUpdates DEF KeepsRequest
<1>3. CASE QuitSub(s)
    <2>1. UNCHANGED ops BY <1>3 DEF QuitSub
    <2>. QED BY <1>3, <2>1, QuitUpdates DEF KeepsRequest
<1>4. CASE SubStep(s)
    <2>1. UNCHANGED ops BY <1>4, Frames
    <2>. QED BY <1>4, <2>1, ConsumeUpdates, UserUpdates, LeaveUpdates DEF SubStep, KeepsRequest
<1>5. CASE Notify(s)
    <2>1. UNCHANGED ops BY <1>5 DEF Notify
    <2>. QED BY <1>5, <2>1, NotifiedUpdates DEF KeepsRequest
<1>6. CASE \E n \in 1 .. MaxNote : Deliver(s, n)
    <2>1. UNCHANGED ops BY <1>6 DEF Deliver
    <2>. QED BY <1>6, <2>1, DeliverUpdates DEF KeepsRequest
<1>7. CASE \E who \in {"user", "forward"} : EnterOnce(s, who)
    <2>1. ops' = [ops EXCEPT ![UnsubscribeOp(s)].pc = "send"] BY <1>7 DEF EnterOnce
    <2>2. ops'[SubscribeOp(s)] = ops[SubscribeOp(s)] BY <2>1, DistinctOps, OpMoves
    <2>. QED BY <1>7, <2>2, EnterUpdates DEF KeepsRequest
<1>8. CASE \E c \in Conn : TakeResp(c) \/ DrainResp(c)
    BY <1>8 DEF TakeResp, DrainResp, KeepsRequest
<1>. QED BY <1>1, <1>2, <1>3, <1>4, <1>5, <1>6, <1>7, <1>8, OtherSteps DEF Eventful

(* What keeps them keeps where it is served.                               *)
LEMMA ServedFrame ==
    ASSUME NEW s \in Sub, Served(s), KeepsRequest(s), KeepsAnswers(s), KeepsService(s)
    PROVE  Served(s)'
BY DEF Served, KeepsRequest, KeepsAnswers, KeepsService

(* Only these steps change what dispatch listens to, and only the          *)
(* acceptance of a subscription adds it.                                   *)
LEMMA LoopKeeps ==
    ASSUME IInv, [Next]_vars,
           \A op \in Op : ~Reconnected(op), \A c \in Conn : ~AwaitErr(c), ~ReadErrDone
    PROVE  /\ disp'.conn = disp.conn /\ disp'.reading = disp.reading
           /\ loop' \in {"select", "handle"} => loop \in {"select", "handle"}
           /\ loop' = "handle" => loop = "handle" \/ \E c \in Conn : TakeResp(c)
           /\ \A s \in Sub : s \in disp'.subs => s \in disp.subs \/ HandleSubscribed(s)
<1>. Types /\ DispType BY DEF IInv, Types
<1>. DEFINE Same == /\ disp'.conn = disp.conn /\ disp'.reading = disp.reading
                    /\ loop' \in {"select", "handle"} => loop \in {"select", "handle"}
                    /\ loop' = "handle" => loop = "handle" \/ \E c \in Conn : TakeResp(c)
            Goal == Same /\ \A s \in Sub : s \in disp'.subs => s \in disp.subs \/ HandleSubscribed(s)
<1>1. ASSUME NEW op \in Op,
             \/ Begin(op) \/ GivesUp(op) \/ Receive(op) \/ SendError(op)
             \/ Accept(op) \/ Write(op) \/ Dial(op) \/ ReconnectGivesUp(op)
      PROVE  Goal
    BY <1>1, Frames DEF Accept, Write, Dial, ReconnectGivesUp, SendFails, DispType
<1>2. ASSUME NEW k \in Closer, CloserStep(k) \/ TakeClose(k) PROVE Goal
    BY <1>2, Frames DEF TakeClose, DispType
<1>3. ASSUME NEW c \in Conn,
             \/ TakeErr(c) \/ DrainResp(c) \/ DrainErr(c) \/ NetStep(c)
             \/ \E ids \in SUBSET net[c].server : Answer(c, ids)
      PROVE  Goal
    BY <1>3, Frames DEF TakeErr, DrainResp, DrainErr, Answer, DispType
<1>4. ASSUME NEW c \in Conn, TakeResp(c) PROVE Goal
    <2>1. loop = "select" /\ disp'.conn = disp.conn /\ disp'.reading = disp.reading
          /\ disp'.subs = disp.subs
        BY <1>4 DEF TakeResp, DispType
    <2>. QED BY <1>4, <2>1
<1>5. ASSUME NEW item, NEW respWait, NEW running, Handled(item, respWait, running)
      PROVE  Same /\ disp'.subs = running
    BY <1>5 DEF Handled, DispType
<1>6. ASSUME \/ \E id \in AllIds : HandleResponse(id)
             \/ \E item \in disp.batch : Drop(item)
             \/ \E t \in Sub : \E n \in 1 .. MaxNote : Deliver(t, n)
      PROVE  Goal
    <2>1. Same /\ disp'.subs = disp.subs BY <1>5, <1>6 DEF HandleResponse, Drop, Deliver
    <2>. QED BY <2>1
<1>7. ASSUME NEW t \in Sub, HandleSubscribed(t) PROVE Goal
    <2>1. Same /\ disp'.subs \subseteq disp.subs \cup {t} BY <1>5, <1>7 DEF HandleSubscribed
    <2>. QED BY <1>7, <2>1
<1>8. ASSUME NEW t \in Sub,
             \/ QuitSub(t) \/ SubStep(t) \/ Notify(t)
             \/ \E who \in {"user", "forward"} : EnterOnce(t, who)
      PROVE  Goal
    BY <1>8, Frames DEF QuitSub, Notify, EnterOnce, DispType
<1>9. ASSUME TakeSendDone \/ CloseDone PROVE Goal BY <1>9 DEF TakeSendDone, CloseDone, DispType
<1>10. ASSUME UNCHANGED vars PROVE Goal BY <1>10 DEF vars
<1>. QED BY <1>1, <1>2, <1>3, <1>4, <1>6, <1>7, <1>8, <1>9, <1>10, Actions

(* Every step keeps a subscription where it was asked for.                 *)
LEMMA NextServed ==
    ASSUME IInv, IInv', [Next]_vars, Service, NEW s \in Sub
    PROVE  Served(s)'
<1>. /\ Types /\ DispType /\ NetType /\ OutType /\ SubsType /\ OpsType
     /\ LoopStates /\ Readers /\ Signals /\ Accepted(s) /\ Served(s)
    BY DEF IInv, Types, Notifications, Service
<1>. DEFINE id == SubscribeId(s)
            asking == SubscribeOp(s)
<1>1. asking \in Op /\ id \in AllIds BY DistinctOps, SubscribeIds
<1>2. CASE Write(asking)
    <2>1. ops[asking].pc \in Early /\ UNCHANGED <<disp, loop, subs>>
        BY <1>2 DEF Write, Early
    <2>2. ops[asking].via = Nil /\ subs[s].live = Nil BY <2>1 DEF Accepted
    <2>3. id \notin disp.batch /\ \A c \in Conn : id \notin net[c].message
        BY <2>2 DEF Served, DispType, Conn, Nil
    <2>4. \A c \in Conn : net'[c].message = net[c].message BY <1>1, <1>2, WriteNet
    <2>5. s \notin disp.subs \/ WriteFaults BY <2>2 DEF Served, DispType, Conn, Nil
    <2>. QED BY <2>1, <2>2, <2>3, <2>4, <2>5 DEF Served
<1>3. ASSUME NEW c \in Conn, NEW ids \in SUBSET net[c].server, Answer(c, ids), id \in ids
      PROVE  Served(s)'
    <2>1. ops[asking].via = c /\ subs[s].live = Nil BY <1>3 DEF Accepted
    <2>2. net'[c].message = ids /\ \A d \in Conn : d # c => net'[d] = net[d] BY <1>3, AnswerNet
    <2>3. subs'[s].live = Nil \/ subs'[s].live = c BY <1>3, <2>1, AnswerUpdates
    <2>4. UNCHANGED <<ops, disp, loop>> BY <1>3 DEF Answer
    <2>5. s \notin disp.subs \/ WriteFaults BY <2>1 DEF Served, DispType, Conn, Nil
    <2>. QED BY <2>1, <2>2, <2>3, <2>4, <2>5 DEF Served
<1>4. CASE HandleSubscribed(s)
    <2>1. /\ id \in disp.batch /\ loop = "handle" /\ UNCHANGED net
          /\ disp'.batch \subseteq disp.batch /\ disp'.conn = disp.conn
          /\ disp'.reading = disp.reading
          /\ s \in disp'.subs => s \in disp.subs \/ subs[s].live # Nil
        BY <1>4 DEF HandleSubscribed, Handled, SubscribeId, DispType
    <2>2. ops'[asking].via = ops[asking].via /\ subs'[s].live = subs[s].live
        BY <1>4, SubscribedUpdates DEF HandleSubscribed, OpsType
    <2>3. ops[asking].via = disp.conn /\ disp.reading BY <2>1 DEF Served, Service
    <2>. QED BY <2>1, <2>2, <2>3 DEF Served
<1>5. CASE \E c \in Conn : TakeResp(c)
    <2>1. PICK c \in Conn : TakeResp(c) BY <1>5
    <2>2. /\ net[c].reader = "resp" /\ loop = "select" /\ UNCHANGED <<ops, subs>>
          /\ disp' = [disp EXCEPT !.batch = net[c].message]
          /\ net' = [net EXCEPT ![c].reader = "decode", ![c].message = {}]
        BY <2>1 DEF TakeResp
    <2>3. /\ disp'.batch = net[c].message /\ disp'.conn = disp.conn
          /\ disp'.reading = disp.reading /\ disp'.subs = disp.subs
        BY <2>2 DEF DispType
    <2>4. net'[c].message = {} /\ \A d \in Conn : d # c => net'[d] = net[d]
        BY <2>2, NetTaken
    <2>5. c = disp.conn BY <2>2 DEF Readers, Alive
    <2>. QED BY <2>2, <2>3, <2>4, <2>5 DEF Served
<1>. DEFINE Another ==
         /\ ~Write(asking) /\ ~HandleSubscribed(s) /\ \A c \in Conn : ~TakeResp(c)
         /\ \A c \in Conn : \A ids \in SUBSET net[c].server : Answer(c, ids) => id \notin ids
<1>6. ASSUME Another
      PROVE  /\ disp'.batch \subseteq disp.batch
             /\ \A c \in Conn : id \in net'[c].message => id \in net[c].message
    <2>1. ASSUME NEW c \in Conn, NEW ids \in SUBSET net[c].server, Answer(c, ids)
          PROVE  /\ disp'.batch \subseteq disp.batch
                 /\ \A d \in Conn : id \in net'[d].message => id \in net[d].message
        <3>1. UNCHANGED disp /\ id \notin ids BY <1>6, <2>1 DEF Answer
        <3>. QED BY <2>1, <3>1, AnswerNet
    <2>2. ASSUME NEW t \in Sub, Notify(t)
          PROVE  /\ disp'.batch \subseteq disp.batch
                 /\ \A d \in Conn : id \in net'[d].message => id \in net[d].message
        <3>1. UNCHANGED disp BY <2>2 DEF Notify
        <3>2. subs[t].sent + 1 \in 1 .. MaxNote BY <2>2, NotifyUpdates
        <3>3. id # Note(t, subs[t].sent + 1) BY <1>1, <3>2, NotesDiffer
        <3>. QED BY <2>2, <3>1, <3>3, NotifyUpdates
    <2>. QED BY <1>6, <2>1, <2>2, Arrivals
<1>7. ASSUME Another PROVE KeepsRequest(s) BY <1>7, RequestKept
<1>8. CASE Another /\ ((\E op \in Op : Reconnected(op)) \/ \E c \in Conn : AwaitErr(c))
    <2>1. loop \in {"select", "await"} BY <1>8 DEF Reconnected, AwaitErr
    <2>2. disp.batch = {} BY <2>1 DEF LoopStates
    <2>3. KeepsAnswers(s) BY <1>6, <1>8, <2>2 DEF KeepsAnswers
    <2>4. ASSUME ~WriteFaults PROVE s \notin disp'.subs
        <3>1. loop = "select" /\ loop' # "await" BY <2>1, <2>4 DEF Signals, IInv
        <3>2. PICK op \in Op : Reconnected(op) BY <1>8, <3>1 DEF AwaitErr
        <3>3. ~disp.reading BY <3>1, <3>2 DEF Reconnected, OldReader
        <3>4. s \notin disp.subs BY <2>4, <3>1, <3>3 DEF Served
        <3>. QED BY <3>2, <3>4 DEF Reconnected, DispType
    <2>5. KeepsService(s) BY <2>4 DEF KeepsService
    <2>. QED BY <1>7, <1>8, <2>3, <2>5, ServedFrame
<1>9. CASE Another /\ ReadErrDone
    <2>1. disp'.conn = disp.conn /\ s \notin disp'.subs BY <1>9 DEF ReadErrDone, DispType
    <2>. QED BY <1>6, <1>7, <1>9, <2>1, ServedFrame DEF KeepsAnswers, KeepsService
<1>10. CASE /\ Another /\ ~ReadErrDone
            /\ \A op \in Op : ~Reconnected(op)
            /\ \A c \in Conn : ~AwaitErr(c)
    <2>1. disp'.conn = disp.conn /\ KeepsService(s) BY <1>10, LoopKeeps DEF KeepsService
    <2>. QED BY <1>6, <1>7, <1>10, <2>1, ServedFrame DEF KeepsAnswers
<1>. QED BY <1>2, <1>3, <1>4, <1>5, <1>8, <1>9, <1>10

(* A batch is handled while the reader that it came from is known.         *)
LEMMA NextHandles ==
    ASSUME IInv, [Next]_vars, loop = "handle" => disp.reading
    PROVE  loop' = "handle" => disp'.reading
<1>1. CASE (\E op \in Op : Reconnected(op)) \/ (\E c \in Conn : AwaitErr(c)) \/ ReadErrDone
    <2>1. loop' # "handle" BY <1>1 DEF Reconnected, AwaitErr, ReadErrDone
    <2>. QED BY <2>1
<1>2. ASSUME NEW c \in Conn, TakeResp(c) PROVE disp.reading
    BY <1>2 DEF TakeResp, IInv, Readers, Alive
<1>3. CASE /\ \A op \in Op : ~Reconnected(op)
           /\ \A c \in Conn : ~AwaitErr(c)
           /\ ~ReadErrDone
    BY <1>2, <1>3, LoopKeeps
<1>. QED BY <1>1, <1>3

(* The invariant, and where subscriptions are served.                      *)
LEMMA ServiceInvariance == Spec => [](IInv /\ Service)
<1>1. Init => IInv /\ Service
    <2>1. Init => Service
        <3>. SUFFICES ASSUME Init PROVE Service OBVIOUS
        <3>1. /\ loop = "select" /\ disp.batch = {} /\ disp.subs = {}
              /\ \A c \in Conn : net[c].message = {}
              /\ \A s \in Sub : subs[s].live = Nil
            BY DEF Init
        <3>. QED BY <3>1 DEF Service, Served
    <2>. QED BY <2>1, InitIInv
<1>2. IInv /\ Service /\ [Next]_vars => (IInv /\ Service)'
    BY NextIInv, NextServed, NextHandles DEF Service
<1>. QED BY <1>1, <1>2, PTL DEF Spec

(* As long as a write does not fail before the reader of its connection,   *)
(* the end of a read loop is signalled to everyone who waits there for a   *)
(* response or a notification (client.go:756-787): a waiting operation has *)
(* an id registered, and a subscription is served on the connection whose  *)
(* reader dispatch knows.                                                  *)
THEOREM EndIsSignalled == Spec => []Signalled
<1>1. IInv /\ Service => Signalled
    <2>. SUFFICES ASSUME IInv, Service, loop = "select", ~WriteFaults
                  PROVE  /\ \A op \in Op : ops[op].pc = "wait" /\ ops[op].chan = "open" =>
                               ops[op].resp > 0 \/ net[ops[op].via].reader # "exited"
                         /\ \A s \in Sub : subs[s].forward = "select" /\ ~subs[s].quit =>
                               net[subs[s].live].reader # "exited"
        BY DEF Signalled
    <2>1. ASSUME NEW op \in Op,
                 ops[op].pc = "wait", ops[op].chan = "open", ~(ops[op].resp > 0)
          PROVE  net[ops[op].via].reader # "exited"
        <3>1. ops[op].taken \in Nat /\ ops[op].resp \in Nat /\ Length(op) \in Nat
            BY LengthType DEF IInv, Types, OpsType
        <3>2. /\ ops[op].taken + ops[op].resp + Cardinality(Registered(op)) = Length(op)
              /\ ops[op].taken < Length(op)
            BY <2>1 DEF IInv, Ledger
        <3>3. Registered(op) # {}
            <4>1. ASSUME Registered(op) = {} PROVE FALSE
                <5>1. Cardinality(Registered(op)) = 0 BY <4>1, FS_EmptySet
                <5>. QED BY <2>1, <3>1, <3>2, <5>1
            <4>. QED BY <4>1
        <3>. QED BY <2>1, <3>3 DEF IInv, Signals
    <2>2. ASSUME NEW s \in Sub, Runs(s) PROVE net[subs[s].live].reader # "exited"
        <3>1. s \in disp.subs BY <2>2 DEF IInv, Notifications, InOrder
        <3>2. subs[s].live = disp.conn /\ disp.reading BY <3>1 DEF Service, Served
        <3>. QED BY <3>2 DEF IInv, Readers
    <2>. QED BY <2>1, <2>2 DEF Runs
<1>. QED BY <1>1, ServiceInvariance, PTL

(* Until a subscription quits, its subscriber gets the notifications in    *)
(* the order they were sent and without a gap, over every interleaving of  *)
(* the server, the reader, dispatch and forward(), and as long as dispatch *)
(* listens to its connection none is missing (client.go:738-745, 934-983). *)
THEOREM NotificationsInOrder == Spec => []NotesInOrder
<1>1. IInv => NotesInOrder
    <2>. SUFFICES ASSUME IInv, NEW s \in Sub, Runs(s)
                  PROVE  LET underway == {n \in 1 .. MaxNote :
                                            \/ Note(s, n) \in disp.batch
                                            \/ \E c \in Conn : Listens(c) /\ Note(s, n) \in net[c].message}
                         IN  /\ Got(s) = [n \in 1 .. Len(Got(s)) |-> n]
                             /\ \E last \in Len(Got(s)) .. subs[s].sent :
                                   /\ underway = Len(Got(s)) + 1 .. last
                                   /\ Listens(subs[s].live) => last = subs[s].sent
        BY DEF NotesInOrder, Got, Runs
    <2>. /\ SubsType /\ Underway(s) /\ InOrder(s) /\ OneNote(disp.batch)
        BY DEF IInv, Types, Notifications
    <2>. DEFINE got == Len(Got(s))
                sent == subs[s].sent
                inBatch == {n \in 1 .. MaxNote : Note(s, n) \in disp.batch}
                listened == {n \in 1 .. MaxNote :
                               \E c \in Conn : Listens(c) /\ Note(s, n) \in net[c].message}
                arrived == {n \in 1 .. MaxNote : \E c \in Conn : Note(s, n) \in net[c].message}
                underway == {n \in 1 .. MaxNote :
                               \/ Note(s, n) \in disp.batch
                               \/ \E c \in Conn : Listens(c) /\ Note(s, n) \in net[c].message}
    <2>1. /\ Got(s) = [n \in 1 .. got |-> n] /\ got <= sent
          /\ inBatch \cup arrived = got + 1 .. sent
        BY DEF InOrder, Coming, Carried
    <2>2. got \in Nat /\ sent \in Nat /\ sent <= MaxNote /\ MaxNote \in Nat
        <3>1. Got(s) \in Seq(1 .. MaxNote) BY SubFields DEF Got, NoteSeq
        <3>. QED BY <3>1, SubFields, RpcAssumption DEF RpcAssumption
    <2>3. underway = inBatch \cup listened OBVIOUS
    <2>4. /\ \A n \in arrived : n = sent
          /\ \A c \in Conn, n \in 1 .. MaxNote : Note(s, n) \in net[c].message => c = subs[s].live
        BY DEF Underway
    <2>5. CASE Listens(subs[s].live)
        <3>1. listened = arrived BY <2>4, <2>5
        <3>2. underway = got + 1 .. sent BY <2>1, <2>3, <3>1
        <3>3. sent \in got .. sent BY <2>1, <2>2
        <3>. QED BY <2>1, <3>2, <3>3
    <2>6. CASE ~Listens(subs[s].live)
        <3>1. underway = inBatch BY <2>3, <2>4, <2>6
        <3>2. \A m, n \in inBatch : m = n BY NotesDiffer DEF OneNote, Notes
        <3>3. PICK last \in got .. sent : inBatch = got + 1 .. last
            <4>1. CASE inBatch = {}
                <5>1. got \in got .. sent /\ got + 1 .. got = {} BY <2>1, <2>2
                <5>. QED BY <4>1, <5>1
            <4>2. CASE inBatch # {}
                <5>1. PICK n \in inBatch : TRUE BY <4>2
                <5>2. inBatch = {n} BY <3>2, <5>1
                <5>3. n \in got + 1 .. sent BY <2>1, <5>1
                <5>4. n = got + 1
                    <6>1. got + 1 \in got + 1 .. sent BY <2>2, <5>3
                    <6>2. got + 1 = n \/ got + 1 = sent BY <2>1, <2>4, <5>2, <6>1
                    <6>3. n \in got + 1 .. sent /\ (got + 1 = sent => n = sent) BY <2>2, <5>3
                    <6>. QED BY <6>2, <6>3
                <5>5. got + 1 \in got .. sent /\ got + 1 .. got + 1 = {got + 1}
                    BY <2>2, <5>3, <5>4
                <5>. QED BY <5>2, <5>4, <5>5
            <4>. QED BY <4>1, <4>2
        <3>. QED BY <2>1, <2>6, <3>1, <3>3
    <2>. QED BY <2>5, <2>6
<1>. QED BY <1>1, Invariance, PTL
==============================================================================

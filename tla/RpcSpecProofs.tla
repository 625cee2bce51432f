----------------------------- MODULE RpcSpecProofs -----------------------------
(***************************************************************************)
(* RpcClient implements RpcSpec, for every set of requests, batches of     *)
(* every size, every number of subscriptions, connections and              *)
(* notifications, and with or without breaks and failed writes.            *)
(***************************************************************************)
EXTENDS RpcClientProofs

-----------------------------------------------------------------------------
(* What the invariant of RpcClientProofs leaves open. *)

Written(op) == ops[op].via # Nil

Subscribes(op) == \E s \in Sub : op = SubscribeOp(s)

(* A response, or the end of the channel of a subscription, was asked for; *)
(* and a success is all of the responses, or that end.                     *)
Source(op) ==
    /\ ops[op].pc \in Early => ~Written(op)
    /\ ops[op].taken > 0 \/ ops[op].resp > 0 \/ ops[op].chan = "closed" => Written(op)
    /\ ops[op].chan = "closed" => \E s \in Sub : op = SubscribeOp(s) /\ subs[s].live # Nil
    /\ ops[op].pc = "ok" =>
          IF Subscribes(op) THEN ops[op].chan = "closed" ELSE ops[op].taken = Length(op)

(* Where an id is, from the request to the answer.                         *)
Travels(id) ==
    id \in disp.batch \/ \E c \in Conn : id \in net[c].message \/ id \in net[c].server

(* The server has ids, and answers them, only of what was written.         *)
Replied == \A id \in AllIds : Travels(id) => Written(Owner(id))

(* No response to a subscription goes into its channel.                    *)
Plain(s) == ops[SubscribeOp(s)].taken = 0 /\ ops[SubscribeOp(s)].resp = 0

(* Also when it is about to end, a subscription has only got what the      *)
(* server sent, in that order, and all of it before what is still on its   *)
(* way.                                                                    *)
Rising(s) ==
    /\ \A i, j \in 1 .. Len(Got(s)) : i < j => Got(s)[i] < Got(s)[j]
    /\ \A i \in 1 .. Len(Got(s)) :
          Got(s)[i] <= subs[s].sent /\ \A n \in Coming(s) : Got(s)[i] < n

(* Who unsubscribes has a subscription that was accepted.                  *)
Asked(s) == subs[s].user # "idle" => subs[s].live # Nil

SInv ==
    /\ \A op \in Op : Source(op)
    /\ Replied
    /\ \A s \in Sub : Plain(s) /\ Rising(s) /\ Asked(s)

-----------------------------------------------------------------------------
(* It holds at the start. *)
LEMMA InitSInv == Init => SInv
<1>. SUFFICES ASSUME Init PROVE SInv OBVIOUS
<1>1. \A op \in Op : /\ ops[op].pc = "idle" /\ ops[op].resp = 0 /\ ops[op].taken = 0
                     /\ ops[op].chan = "open" /\ ops[op].via = Nil
    BY DEF Init
<1>2. disp.batch = {} /\ \A c \in Conn : net[c].message = {} /\ net[c].server = {}
    BY DEF Init
<1>3. \A op \in Op : Source(op) BY <1>1 DEF Source, Written
<1>4. Replied BY <1>2 DEF Replied, Travels
<1>5. ASSUME NEW s \in Sub PROVE Plain(s) /\ Rising(s) /\ Asked(s)
    <2>1. Plain(s) BY <1>1, DistinctOps DEF Plain
    <2>2. subs[s].received = <<>> /\ subs[s].buffer = <<>> BY DEF Init
    <2>3. Got(s) = <<>> BY <2>2 DEF Got
    <2>4. Len(Got(s)) = 0 BY <2>3
    <2>5. Rising(s) BY <2>4 DEF Rising
    <2>6. Asked(s) BY DEF Init, Asked
    <2>. QED BY <2>1, <2>5, <2>6
<1>. QED BY <1>3, <1>4, <1>5 DEF SInv

-----------------------------------------------------------------------------
(* What a step does to an operation. *)

(* Its place changes and nothing else: on the way to being written, giving *)
(* up, or at the end of its channel.                                       *)
Moves(op) ==
    /\ ops'[op].resp = ops[op].resp /\ ops'[op].taken = ops[op].taken
    /\ ops'[op].chan = ops[op].chan /\ ops'[op].via = ops[op].via
    /\ \/ ops[op].pc \in Early /\ ops'[op].pc \in Early \cup {"failed"}
       \/ ops[op].pc = "wait" /\ ops'[op].pc = "failed"
       \/ ops[op].pc = "wait" /\ ops'[op].pc = "ok" /\ ops[op].chan = "closed"

(* Its channel is closed with an error.                                    *)
Errs(op) ==
    /\ ops'[op].resp = ops[op].resp /\ ops'[op].taken = ops[op].taken
    /\ ops'[op].pc = ops[op].pc /\ ops'[op].via = ops[op].via
    /\ ops[op].chan = "open" /\ ops'[op].chan = "error"

(* A response of it is handled.                                            *)
Answered(op) == \E id \in AllIds : HandleResponse(id) /\ Owner(id) = op

Starts(op) == \E s \in Sub : HandleSubscribed(s) /\ op = SubscribeOp(s)

(* A step that moves operation p moves it or leaves it alone.              *)
LEMMA MovesOne ==
    ASSUME OpsType, NEW op \in Op, NEW p \in Op, NEW pc, ops' = [ops EXCEPT ![p].pc = pc],
           \/ ops[p].pc \in Early /\ pc \in Early \cup {"failed"}
           \/ ops[p].pc = "wait" /\ pc = "failed"
           \/ ops[p].pc = "wait" /\ pc = "ok" /\ ops[p].chan = "closed"
    PROVE  ops'[op] = ops[op] \/ Moves(op)
BY OpMoves DEF Moves

(* Steps that change no operation.                                         *)
LEMMA OpsUnchanged ==
    ASSUME UNCHANGED ops, NEW op \in Op
    PROVE  ops'[op] = ops[op]
OBVIOUS

(* Closing the channels of the waiting operations.                         *)
LEMMA CloseErrs ==
    ASSUME IInv, CloseOps, NEW op \in Op
    PROVE  ops'[op] = ops[op] \/ Errs(op)
<1>. DEFINE waiting == {Owner(id) : id \in disp.respWait}
<1>1. CASE op \in waiting
    <2>1. PICK id \in disp.respWait : Owner(id) = op BY <1>1
    <2>2. id \in Registered(op)
        <3>1. id \in AllIds BY DEF IInv, Types, DispType
        <3>. QED BY <2>1, <3>1, OwnerOfId DEF Registered
    <2>3. ops[op].chan = "open" BY <2>2 DEF IInv, Ledger
    <2>. QED BY <1>1, <2>3, CloseUpdates DEF Errs, IInv, Types
<1>2. CASE op \notin waiting BY <1>2 DEF CloseOps
<1>. QED BY <1>1, <1>2

(* What can happen to an operation in a step.                              *)
LEMMA OpSteps ==
    ASSUME IInv, [Next]_vars, NEW op \in Op
    PROVE  \/ ops'[op] = ops[op] \/ Moves(op) \/ Errs(op)
           \/ Write(op) \/ Receive(op) \/ Answered(op) \/ Starts(op)
<1>. DEFINE Goal == \/ ops'[op] = ops[op] \/ Moves(op) \/ Errs(op)
                    \/ Write(op) \/ Receive(op) \/ Answered(op) \/ Starts(op)
<1>. Types /\ OpsType /\ SendLock BY DEF IInv, Types
<1>1. ASSUME UNCHANGED ops PROVE Goal BY <1>1, OpsUnchanged
<1>2. ASSUME NEW p \in Op, Begin(p) PROVE Goal
    <2>1. ops[p].pc \in Early /\ ops' = [ops EXCEPT ![p].pc = "send"] BY <1>2 DEF Begin, Goes, Early
    <2>. QED BY <2>1, MovesOne DEF Early
<1>3. ASSUME NEW p \in Op, ContextEnds(p) \/ SendGivesUp(p) PROVE Goal
    <2>1. ops[p].pc \in Early \cup {"wait"} /\ ops' = [ops EXCEPT ![p].pc = "failed"]
        BY <1>3 DEF ContextEnds, SendGivesUp, Goes, Early
    <2>. QED BY <2>1, MovesOne
<1>4. ASSUME NEW p \in Op, ReceiveClosed(p) PROVE Goal
    <2>1. ops[p].pc = "wait" /\ ops[p].chan \in {"closed", "error"}
        BY <1>4 DEF ReceiveClosed, OpsType
    <2>2. ops' = [ops EXCEPT ![p].pc = IF ops[p].chan = "error" THEN "failed" ELSE "ok"]
        BY <1>4 DEF ReceiveClosed, Goes
    <2>. QED BY <2>1, <2>2, MovesOne
<1>5. ASSUME NEW p \in Op, Receive(p) PROVE Goal
    <2>1. p = op \/ ops'[op] = ops[op] BY <1>5, ReceiveUpdates
    <2>. QED BY <1>5, <2>1
<1>6. ASSUME NEW p \in Op, Write(p) PROVE Goal
    <2>1. p = op \/ ops'[op] = ops[op] BY <1>6, WriteUpdates
    <2>. QED BY <1>6, <2>1
<1>7. ASSUME NEW p \in Op, Accept(p) \/ Dial(p) \/ Reconnected(p) PROVE Goal
    <2>1. /\ ops[p].pc \in {"send", "write", "reconnect"}
          /\ \E pc \in {"write", "reconnect"} : ops' = [ops EXCEPT ![p].pc = pc]
        BY <1>7 DEF Accept, Dial, Reconnected
    <2>. QED BY <2>1, MovesOne DEF Early
<1>8. ASSUME NEW p \in Op, SendError(p) \/ ReconnectGivesUp(p) PROVE Goal
    <2>1. ops[p].pc \in {"write", "reconnect"} /\ ops' = [ops EXCEPT ![p].pc = "failed"]
        BY <1>8 DEF SendError, WriteFails, DialFails, ReconnectGivesUp, SendFails
    <2>. QED BY <2>1, MovesOne DEF Early
<1>9. ASSUME CloseOps PROVE Goal BY <1>9, CloseErrs
<1>10. ASSUME NEW id \in AllIds, HandleResponse(id) PROVE Goal
    <2>1. Owner(id) \in Op BY OwnerOfId
    <2>2. CASE Owner(id) = op BY <1>10, <2>2 DEF Answered
    <2>3. CASE Owner(id) # op BY <1>10, <2>1, <2>3, RespUpdates DEF HandleResponse
    <2>. QED BY <2>2, <2>3
<1>11. ASSUME NEW s \in Sub, HandleSubscribed(s) PROVE Goal
    <2>1. SubscribeOp(s) \in Op BY DistinctOps
    <2>2. CASE SubscribeOp(s) = op BY <1>11, <2>2 DEF Starts
    <2>3. CASE SubscribeOp(s) # op BY <1>11, <2>1, <2>3, ChanUpdates DEF HandleSubscribed
    <2>. QED BY <2>2, <2>3
<1>12. ASSUME NEW s \in Sub, NEW who \in {"user", "forward"}, EnterOnce(s, who) PROVE Goal
    <2>1. UnsubscribeOp(s) \in Op BY DistinctOps
    <2>2. ops[UnsubscribeOp(s)].pc = "idle" BY <1>12 DEF EnterOnce, IInv, QuitOnce
    <2>3. ops' = [ops EXCEPT ![UnsubscribeOp(s)].pc = "send"] BY <1>12 DEF EnterOnce
    <2>. QED BY <2>1, <2>2, <2>3, MovesOne DEF Early
<1>13. ASSUME NEW s \in Sub,
              QuitSub(s) \/ SubStep(s) \/ Notify(s) \/ \E n \in 1 .. MaxNote : Deliver(s, n)
       PROVE  UNCHANGED ops
    BY <1>13, Frames DEF QuitSub, Notify, Deliver
<1>14. ASSUME NEW c \in Conn,
              \/ TakeResp(c) \/ DrainResp(c) \/ DrainErr(c) \/ AwaitErr(c) \/ NetStep(c)
              \/ \E ids \in SUBSET net[c].server : Answer(c, ids)
       PROVE  UNCHANGED ops
    BY <1>14, Frames DEF TakeResp, DrainResp, DrainErr, AwaitErr, Answer
<1>15. ASSUME NEW c \in Conn, TakeErr(c) PROVE CloseOps BY <1>15 DEF TakeErr
<1>16. ASSUME NEW k \in Closer, CloserStep(k) PROVE UNCHANGED ops BY <1>16, Frames
<1>17. ASSUME NEW k \in Closer, TakeClose(k) PROVE CloseOps BY <1>17 DEF TakeClose
<1>18. ASSUME NEW item \in disp.batch, Drop(item) PROVE UNCHANGED ops BY <1>18 DEF Drop
<1>19. ASSUME TakeSendDone \/ ReadErrDone \/ CloseDone \/ UNCHANGED vars PROVE UNCHANGED ops
    BY <1>19 DEF TakeSendDone, ReadErrDone, CloseDone, vars
<1>. HIDE DEF Goal
<1>20. Goal
    BY <1>1, <1>2, <1>3, <1>4, <1>5, <1>6, <1>7, <1>8, <1>9, <1>10, <1>11, <1>12, <1>13, <1>14,
       <1>15, <1>16, <1>17, <1>18, <1>19, Actions
    DEF GivesUp
<1>. QED BY <1>20 DEF Goal

(* What was written stays written, and accepted subscriptions stay so.     *)
LEMMA WrittenStays ==
    ASSUME IInv, [Next]_vars, NEW op \in Op, Written(op)
    PROVE  Written(op)'
<1>. OpsType /\ OutType BY DEF IInv, Types
<1>1. ASSUME ops'[op].via = ops[op].via PROVE Written(op)' BY <1>1 DEF Written
<1>2. CASE Write(op)
    <2>1. ops'[op].via = out.conn BY <1>2, WriteUpdates
    <2>2. out.conn # Nil BY <1>2 DEF Write
    <2>. QED BY <2>1, <2>2 DEF Written
<1>3. CASE Receive(op) BY <1>1, <1>3, ReceiveUpdates
<1>4. CASE Answered(op) BY <1>1, <1>4, RespUpdates DEF Answered, HandleResponse
<1>5. CASE Starts(op) BY <1>1, <1>5, ChanUpdates DEF Starts, HandleSubscribed
<1>6. CASE ops'[op] = ops[op] \/ Moves(op) \/ Errs(op) BY <1>1, <1>6 DEF Moves, Errs
<1>. QED BY <1>2, <1>3, <1>4, <1>5, <1>6, OpSteps

(* What a step does to a subscription, as its subscriber and the server    *)
(* see it.                                                                 *)
LEMMA SubSteps ==
    ASSUME IInv, [Next]_vars, NEW s \in Sub
    PROVE  /\ subs[s].live # Nil => subs'[s].live # Nil
           /\ subs'[s].sent = subs[s].sent \/ Notify(s)
           /\ subs'[s].received = subs[s].received \/ Consume(s)
           /\ Got(s)' = Got(s) \/ \E n \in 1 .. MaxNote : Deliver(s, n)
<1>. SubsType /\ NetType BY DEF IInv, Types
<1>. DEFINE Goal == /\ subs[s].live # Nil => subs'[s].live # Nil
                    /\ subs'[s].sent = subs[s].sent \/ Notify(s)
                    /\ subs'[s].received = subs[s].received \/ Consume(s)
                    /\ Got(s)' = Got(s) \/ \E n \in 1 .. MaxNote : Deliver(s, n)
<1>. SUFFICES Goal OBVIOUS
<1>1. ASSUME subs[s].live # Nil => subs'[s].live # Nil, subs'[s].sent = subs[s].sent,
             subs'[s].received = subs[s].received, subs'[s].buffer = subs[s].buffer
      PROVE  Goal
    BY <1>1 DEF Got
<1>2. CASE Quiet(s) BY <1>1, <1>2 DEF Quiet, KeepsSub
<1>3. CASE Write(SubscribeOp(s)) BY <1>1, <1>3 DEF Write
<1>4. CASE HandleSubscribed(s) BY <1>1, <1>4, SubscribedUpdates
<1>5. CASE QuitSub(s) BY <1>1, <1>5, QuitUpdates
<1>6. CASE Consume(s)
    <2>1. subs[s].received \in Seq(1 .. MaxNote) /\ subs[s].buffer \in Seq(1 .. MaxNote)
        BY SubFields DEF NoteSeq
    <2>2. subs[s].buffer # <<>> /\ subs'[s].buffer = Tail(subs[s].buffer)
          /\ subs'[s].received = Append(subs[s].received, Head(subs[s].buffer))
        BY <1>6, ConsumeUpdates
    <2>3. Append(subs[s].received, Head(subs[s].buffer)) \o Tail(subs[s].buffer)
          = subs[s].received \o subs[s].buffer
        BY <2>1, <2>2, TakenAndAdded
    <2>4. Got(s)' = Got(s) BY <2>2, <2>3 DEF Got
    <2>. QED BY <1>6, <2>4, ConsumeUpdates
<1>7. CASE ForwardReturns(s) \/ Unsubscribe(s) \/ UnsubscribeReturn(s)
    BY <1>1, <1>7, UserUpdates
<1>8. CASE LeaveOnce(s) BY <1>1, <1>8, LeaveUpdates
<1>9. CASE Notify(s) BY <1>9, NotifiedUpdates DEF Got
<1>10. ASSUME NEW n \in 1 .. MaxNote, Deliver(s, n) PROVE Goal BY <1>10, DeliverUpdates
<1>11. ASSUME NEW who \in {"user", "forward"}, EnterOnce(s, who) PROVE Goal
    BY <1>1, <1>11, EnterUpdates
<1>12. ASSUME NEW c \in Conn, TakeResp(c) \/ DrainResp(c) PROVE Goal
    BY <1>1, <1>12 DEF TakeResp, DrainResp
<1>13. ASSUME NEW c \in Conn, NEW ids \in SUBSET net[c].server, Answer(c, ids) PROVE Goal
    <2>1. c # Nil BY DEF Conn, Nil
    <2>. QED BY <1>1, <1>13, <2>1, AnswerUpdates
<1>. HIDE DEF Goal
<1>14. CASE SubStep(s) BY <1>6, <1>7, <1>8, <1>14 DEF SubStep
<1>15. CASE Eventful(s)
    BY <1>3, <1>4, <1>5, <1>9, <1>10, <1>11, <1>12, <1>13, <1>14, <1>15 DEF Eventful
<1>. QED BY <1>2, <1>15, OtherSteps

-----------------------------------------------------------------------------
(* Every step preserves where responses and successes come from. *)
LEMMA NextSource ==
    ASSUME IInv, SInv, [Next]_vars, NEW op \in Op
    PROVE  Source(op)'
<1>. OpsType /\ Source(op) /\ Ledger(op) BY DEF IInv, SInv, Types
<1>1. Written(op) => Written(op)' BY WrittenStays
<1>2. \A s \in Sub : subs[s].live # Nil => subs'[s].live # Nil BY SubSteps
<1>3. ops[op].taken \in Nat /\ ops[op].resp \in Nat BY DEF OpsType
<1>4. CASE ops'[op] = ops[op] BY <1>1, <1>2, <1>4 DEF Source, Written, Subscribes
<1>5. CASE Moves(op)
    <2>1. Written(op)' <=> Written(op) BY <1>5 DEF Moves, Written
    <2>2. ops'[op].pc \in Early => ops[op].pc \in Early BY <1>5 DEF Moves, Early
    <2>3. ops'[op].pc = "ok" => ops[op].chan = "closed" BY <1>5 DEF Moves, Early
    <2>4. ops'[op].pc = "ok" => Subscribes(op) BY <2>3 DEF Source, Subscribes
    <2>. QED BY <1>2, <1>5, <2>1, <2>2, <2>3, <2>4 DEF Moves, Source, Subscribes
<1>6. CASE Errs(op)
    <2>1. Written(op)' <=> Written(op) BY <1>6 DEF Errs, Written
    <2>2. ops'[op].pc = "ok" => ~Subscribes(op) BY <1>6 DEF Errs, Source
    <2>. QED BY <1>6, <2>1, <2>2 DEF Errs, Source, Subscribes
<1>7. CASE Write(op)
    <2>1. /\ ops'[op].pc = "wait" /\ ops'[op].resp = ops[op].resp
          /\ ops'[op].taken = ops[op].taken /\ ops'[op].chan = ops[op].chan
          /\ ops'[op].via = out.conn /\ out.conn # Nil
        BY <1>7, WriteUpdates DEF Write
    <2>2. Written(op)' BY <2>1 DEF Written
    <2>. QED BY <1>2, <2>1, <2>2 DEF Source, Early
<1>8. CASE Receive(op)
    <2>1. /\ ops[op].resp > 0 /\ ops'[op].taken = ops[op].taken + 1
          /\ ops'[op].chan = ops[op].chan
          /\ ops'[op].pc \notin Early
          /\ ops'[op].pc = "ok" => ops[op].taken + 1 = Length(op)
        BY <1>8, ReceiveUpdates DEF Early
    <2>2. Written(op) BY <2>1 DEF Source
    <2>3. ~Subscribes(op)
        <3>1. ASSUME NEW s \in Sub, op = SubscribeOp(s) PROVE FALSE
            <4>1. ops[op].resp = 0 BY <3>1 DEF SInv, Plain
            <4>. QED BY <2>1, <4>1
        <3>. QED BY <3>1 DEF Subscribes
    <2>. QED BY <1>1, <1>2, <2>1, <2>2, <2>3 DEF Source, Subscribes
<1>9. CASE Answered(op)
    <2>1. PICK id \in AllIds : HandleResponse(id) /\ Owner(id) = op BY <1>9 DEF Answered
    <2>2. Written(op)
        <3>1. id \in disp.batch BY <2>1 DEF HandleResponse, Handled
        <3>. QED BY <2>1, <3>1 DEF SInv, Replied, Travels
    <2>3. /\ ops'[op].pc = ops[op].pc /\ ops'[op].taken = ops[op].taken
          /\ ops'[op].chan = ops[op].chan
        BY <2>1, RespUpdates DEF HandleResponse
    <2>. QED BY <1>1, <1>2, <2>2, <2>3 DEF Source, Subscribes
<1>10. CASE Starts(op)
    <2>1. PICK s \in Sub : HandleSubscribed(s) /\ op = SubscribeOp(s) BY <1>10 DEF Starts
    <2>2. SubscribeId(s) \in disp.batch /\ SubscribeId(s) \in disp.respWait
        BY <2>1 DEF HandleSubscribed, Handled, SubscribeId
    <2>3. Written(op) BY <2>1, <2>2, SubscribeIds DEF SInv, Replied, Travels
    <2>4. ops[op].chan = "open"
        <3>1. SubscribeId(s) \in Registered(op) BY <2>1, <2>2, SubscribeIds DEF Registered
        <3>. QED BY <3>1 DEF Ledger
    <2>5. /\ ops'[op].pc = ops[op].pc /\ ops'[op].taken = ops[op].taken
          /\ ops'[op].chan = IF subs[s].live # Nil THEN "closed" ELSE "error"
        <3>. DEFINE chan == IF subs[s].live # Nil THEN "closed" ELSE "error"
        <3>1. ops' = [ops EXCEPT ![op].chan = chan] BY <2>1 DEF HandleSubscribed
        <3>. HIDE DEF chan
        <3>2. /\ ops'[op].pc = ops[op].pc /\ ops'[op].taken = ops[op].taken
              /\ ops'[op].chan = chan
            BY <3>1, ChanUpdates
        <3>. QED BY <3>2 DEF chan
    <2>6. ops[op].pc # "ok" BY <2>1, <2>4 DEF Source, Subscribes
    <2>. QED BY <1>1, <1>2, <2>1, <2>3, <2>5, <2>6 DEF Source
<1>. QED BY <1>4, <1>5, <1>6, <1>7, <1>8, <1>9, <1>10, OpSteps

(* Every step keeps the channel of a request to subscribe without          *)
(* responses.                                                              *)
LEMMA NextPlain ==
    ASSUME IInv, SInv, [Next]_vars, NEW s \in Sub
    PROVE  Plain(s)'
<1>. DEFINE op == SubscribeOp(s)
<1>1. op \in Op BY DistinctOps
<1>2. ops[op].taken = 0 /\ ops[op].resp = 0 BY DEF SInv, Plain
<1>3. OpsType BY DEF IInv, Types
<1>4. ~Receive(op) BY <1>2 DEF Receive
<1>5. ~Answered(op) BY DEF Answered, HandleResponse
<1>. HIDE DEF op
<1>6. ops'[op].taken = 0 /\ ops'[op].resp = 0
    <2>1. CASE Write(op) BY <1>1, <1>2, <1>3, <2>1, WriteUpdates
    <2>2. CASE Starts(op) BY <1>1, <1>2, <1>3, <2>2, ChanUpdates DEF Starts, HandleSubscribed
    <2>3. CASE ops'[op] = ops[op] \/ Moves(op) \/ Errs(op) BY <1>2, <2>3 DEF Moves, Errs
    <2>. QED BY <1>1, <1>4, <1>5, <2>1, <2>2, <2>3, OpSteps
<1>. QED BY <1>6 DEF Plain, op

(* An id gets to the server with its request, and from there to dispatch.  *)
LEMMA TravelSteps ==
    ASSUME IInv, [Next]_vars, NEW id \in AllIds, Travels(id)'
    PROVE  Travels(id) \/ \E op \in Op : Write(op) /\ id \in Ids(op)
<1>. DEFINE Goal == Travels(id) \/ \E op \in Op : Write(op) /\ id \in Ids(op)
<1>. SUFFICES Goal OBVIOUS
<1>. DispType /\ NetType /\ OutType /\ OutType' /\ SubsType BY NextTypes DEF IInv, Types
(* Steps that bring no message.                                            *)
<1>1. ASSUME disp'.batch \subseteq disp.batch,
             \A c \in Conn : /\ net'[c].message \subseteq net[c].message
                             /\ net'[c].server \subseteq net[c].server
      PROVE  Goal
    BY <1>1 DEF Travels
<1>2. ASSUME disp'.batch \subseteq disp.batch, UNCHANGED net PROVE Goal BY <1>1, <1>2
<1>3. ASSUME NEW c \in Conn, NEW open, net' = [net EXCEPT ![c].open = open],
             disp'.batch = disp.batch
      PROVE  Goal
    <2>1. \A d \in Conn : net'[d].message = net[d].message /\ net'[d].server = net[d].server
        BY <1>3, NetOpens
    <2>. QED BY <1>1, <1>3, <2>1
<1>4. ASSUME NEW c \in Conn, NEW reader, net' = [net EXCEPT ![c].reader = reader],
             disp'.batch = disp.batch
      PROVE  Goal
    <2>1. \A d \in Conn : net'[d].message = net[d].message /\ net'[d].server = net[d].server
        BY <1>4, NetReader
    <2>. QED BY <1>1, <1>4, <2>1
<1>5. ASSUME NEW c \in Conn, NEW reader,
             net' = [net EXCEPT ![c].reader = reader, ![c].message = {}],
             disp'.batch = disp.batch \/ disp'.batch = net[c].message
      PROVE  Goal
    <2>1. /\ net'[c].message = {} /\ net'[c].server = net[c].server
          /\ \A d \in Conn : d # c => net'[d] = net[d]
        BY <1>5, NetTaken
    <2>. QED BY <1>5, <2>1 DEF Travels
<1>6. ASSUME NEW op \in Op, Write(op) PROVE Goal
    <2>1. /\ disp' = disp /\ \A c \in Conn : net'[c].message = net[c].message
          /\ \A c \in Conn : net'[c].server \subseteq net[c].server \cup Ids(op)
        <3>1. \A c \in Conn : c # out.conn => net'[c].server = net[c].server BY <1>6, WriteNet
        <3>2. net'[out.conn].server \subseteq net[out.conn].server \cup Ids(op) BY <1>6, WriteNet
        <3>. QED BY <1>6, <3>1, <3>2, WriteNet DEF Write
    <2>. QED BY <1>6, <2>1 DEF Travels
<1>7. ASSUME NEW op \in Op, Dial(op) \/ Reconnected(op) \/ ReconnectGivesUp(op) PROVE Goal
    <2>1. out'.dialled \in Conn /\ out.dialled \in Conn /\ disp.conn \in Conn
        BY DEF OutType, DispType
    <2>2. disp'.batch = disp.batch
        BY <1>7 DEF Dial, Reconnected, ReconnectGivesUp, SendFails, DispType
    <2>3. \/ net' = [net EXCEPT ![out'.dialled].open = TRUE]
          \/ net' = [net EXCEPT ![out.dialled].open = FALSE]
          \/ net' = [net EXCEPT ![disp.conn].open = FALSE]
          \/ net' = [net EXCEPT ![out.dialled].reader = "decode"]
        BY <1>7 DEF Dial, Reconnected, ReconnectGivesUp
    <2>. QED BY <1>3, <1>4, <2>1, <2>2, <2>3
<1>8. ASSUME NEW op \in Op,
             Begin(op) \/ GivesUp(op) \/ Receive(op) \/ SendError(op) \/ Accept(op)
      PROVE  Goal
    <2>1. UNCHANGED net /\ disp'.batch = disp.batch
        BY <1>8, Frames DEF Accept, DispType
    <2>. QED BY <1>2, <2>1
<1>9. ASSUME NEW k \in Closer, CloserStep(k) \/ TakeClose(k) PROVE Goal
    <2>1. UNCHANGED net /\ disp'.batch = disp.batch
        BY <1>9, Frames DEF TakeClose, DispType
    <2>. QED BY <1>2, <2>1
<1>10. ASSUME NEW c \in Conn, TakeResp(c) \/ DrainResp(c) PROVE Goal
    <2>1. /\ net' = [net EXCEPT ![c].reader = "decode", ![c].message = {}]
          /\ disp'.batch = disp.batch \/ disp'.batch = net[c].message
        BY <1>10 DEF TakeResp, DrainResp, DispType
    <2>. QED BY <1>5, <2>1
<1>11. ASSUME NEW c \in Conn, TakeErr(c) \/ DrainErr(c) PROVE Goal
    <2>1. net' = [net EXCEPT ![c].reader = "exited"] /\ disp'.batch = disp.batch
        BY <1>11 DEF TakeErr, DrainErr, DispType
    <2>. QED BY <1>4, <2>1
<1>12. ASSUME NEW c \in Conn, AwaitErr(c) PROVE Goal
    <2>1. /\ net' = [net EXCEPT ![c].reader = "exited", ![out.dialled].reader = "decode"]
          /\ disp'.batch = disp.batch
        BY <1>12 DEF AwaitErr, DispType
    <2>2. \A d \in Conn : net'[d].message = net[d].message /\ net'[d].server = net[d].server
        BY <2>1 DEF NetType, OutType
    <2>. QED BY <1>1, <2>1, <2>2
<1>13. ASSUME NEW c \in Conn, NetStep(c) PROVE Goal
    <2>1. disp' = disp BY <1>13, Frames
    <2>2. CASE Break(c)
        <3>1. \A d \in Conn : net'[d].message = net[d].message /\ net'[d].server = net[d].server
            BY <2>2, NetBreaks
        <3>. QED BY <1>1, <2>1, <3>1
    <2>3. CASE Decode(c) \/ ReadFails(c) \/ DecodeFails(c)
        <3>1. \E to : net' = [net EXCEPT ![c].reader = to] BY <2>3 DEF Decode, ReadFails, DecodeFails, Reads
        <3>. QED BY <1>4, <2>1, <3>1
    <2>. QED BY <1>13, <2>2, <2>3 DEF NetStep
<1>14. ASSUME NEW c \in Conn, NEW ids \in SUBSET net[c].server, Answer(c, ids) PROVE Goal
    <2>1. /\ net'[c].message = ids
          /\ net'[c].server = (net[c].server \ ids) \cup (ids \cap Repeated)
          /\ \A d \in Conn : d # c => net'[d] = net[d]
        BY <1>14, AnswerNet
    <2>2. disp' = disp BY <1>14 DEF Answer
    <2>. QED BY <2>1, <2>2 DEF Travels
<1>15. ASSUME NEW item, NEW respWait, NEW running, Handled(item, respWait, running) PROVE Goal
    <2>1. UNCHANGED net /\ disp'.batch = disp.batch \ {item} BY <1>15 DEF Handled, DispType
    <2>. QED BY <1>2, <2>1
<1>16. ASSUME NEW r \in AllIds, HandleResponse(r) PROVE Goal
    BY <1>15, <1>16 DEF HandleResponse
<1>17. ASSUME NEW item \in disp.batch, Drop(item) PROVE Goal BY <1>15, <1>17 DEF Drop
<1>18. ASSUME NEW s \in Sub, HandleSubscribed(s) PROVE Goal
    <2>1. \E item, respWait, running : Handled(item, respWait, running)
        BY <1>18 DEF HandleSubscribed
    <2>. QED BY <1>15, <2>1
<1>19. ASSUME NEW s \in Sub, NEW n \in 1 .. MaxNote, Deliver(s, n) PROVE Goal
    BY <1>15, <1>19 DEF Deliver
<1>20. ASSUME NEW s \in Sub, QuitSub(s) \/ SubStep(s) PROVE Goal
    <2>1. UNCHANGED net /\ disp'.batch = disp.batch BY <1>20, Frames DEF QuitSub, DispType
    <2>. QED BY <1>2, <2>1
<1>21. ASSUME NEW s \in Sub, NEW who \in {"user", "forward"}, EnterOnce(s, who) PROVE Goal
    BY <1>2, <1>21 DEF EnterOnce
<1>22. ASSUME NEW s \in Sub, Notify(s) PROVE Goal
    <2>1. disp' = disp BY <1>22 DEF Notify
    <2>2. \A c \in Conn : net'[c].server = net[c].server BY <1>22, NotifyUpdates
    <2>3. \A c \in Conn : id \in net'[c].message => id \in net[c].message
        BY <1>22, NotifyUpdates, NotesDiffer
    <2>. QED BY <2>1, <2>2, <2>3 DEF Travels
<1>23. ASSUME TakeSendDone PROVE Goal
    <2>1. UNCHANGED net /\ disp'.batch = disp.batch BY <1>23 DEF TakeSendDone, DispType
    <2>. QED BY <1>2, <2>1
<1>24. ASSUME ReadErrDone \/ CloseDone PROVE Goal
    <2>1. /\ net' = [net EXCEPT ![disp.conn].open = FALSE] /\ disp'.batch = disp.batch
          /\ disp.conn \in Conn
        BY <1>24 DEF ReadErrDone, CloseDone, ConnClosed, DispType
    <2>. QED BY <1>3, <2>1
<1>25. ASSUME UNCHANGED vars PROVE Goal BY <1>2, <1>25 DEF vars
<1>. HIDE DEF Goal
<1>. QED
    BY <1>6, <1>7, <1>8, <1>9, <1>10, <1>11, <1>12, <1>13, <1>14, <1>16, <1>17, <1>18, <1>19,
       <1>20, <1>21, <1>22, <1>23, <1>24, <1>25, Actions

(* Every step preserves that the server answers what was written.          *)
LEMMA NextReplied ==
    ASSUME IInv, SInv, [Next]_vars
    PROVE  Replied'
<1>1. ASSUME NEW id \in AllIds, Travels(id)' PROVE Written(Owner(id))'
    <2>1. Owner(id) \in Op BY OwnerOfId
    <2>2. CASE Travels(id)
        <3>1. Written(Owner(id)) BY <2>2 DEF SInv, Replied
        <3>. QED BY <2>1, <3>1, WrittenStays
    <2>3. ASSUME NEW op \in Op, Write(op), id \in Ids(op) PROVE Written(Owner(id))'
        <3>1. Owner(id) = op BY <2>3, OwnerOfId
        <3>2. OpsType BY DEF IInv, Types
        <3>3. ops'[op].via # Nil BY <2>3, <3>2, WriteUpdates DEF Write
        <3>. QED BY <3>1, <3>3 DEF Written
    <2>. QED BY <1>1, <2>2, <2>3, TravelSteps
<1>. QED BY <1>1 DEF Replied, AllIds, Ids, Op, SubscribeOp, UnsubscribeOp, Length

-----------------------------------------------------------------------------
(* Every step preserves that a subscription gets what was sent, in order. *)

(* What is on its way is in the batch or in a message.                     *)
LEMMA ComingNotes ==
    ASSUME NEW s \in Sub, NEW n \in 1 .. MaxNote
    PROVE  n \in Coming(s) <=> Note(s, n) \in disp.batch \/ \E c \in Conn : Note(s, n) \in net[c].message
BY CarriedNotes DEF Coming

(* ... also after a step.                                                  *)
LEMMA ComingNext ==
    ASSUME NEW s \in Sub, NEW n \in 1 .. MaxNote
    PROVE  n \in Coming(s)' <=> Note(s, n) \in disp'.batch \/ \E c \in Conn : Note(s, n) \in net'[c].message
BY CarriedNotes DEF Coming

(* Nothing but notifications is on its way.                                *)
LEMMA ComingRange ==
    ASSUME NEW s \in Sub
    PROVE  Coming(s) \subseteq 1 .. MaxNote /\ Coming(s)' \subseteq 1 .. MaxNote
BY DEF Coming, Carried

(* The subscription keeps what it has got, and nothing new is on its way   *)
(* but what the server sends.                                              *)
LEMMA RisingFrame ==
    ASSUME SubsType, NEW s \in Sub, Rising(s), Got(s)' = Got(s),
           subs'[s].sent = subs[s].sent \/ subs'[s].sent = subs[s].sent + 1,
           \A n \in Coming(s)' : n \in Coming(s) \/ n = subs[s].sent + 1
    PROVE  Rising(s)'
<1>. DEFINE got == Got(s)
            sent == subs[s].sent
<1>1. got \in Seq(1 .. MaxNote) BY SubFields DEF NoteSeq, Got
<1>2. sent \in Nat BY SubFields
<1>3. /\ \A i, j \in 1 .. Len(got) : i < j => got[i] < got[j]
      /\ \A i \in 1 .. Len(got) : got[i] <= sent /\ \A n \in Coming(s) : got[i] < n
    BY DEF Rising
<1>5. got' = got /\ (sent' = sent \/ sent' = sent + 1) OBVIOUS
<1>6. \A n \in Coming(s)' : n \in Coming(s) \/ n = sent + 1 OBVIOUS
<1>. HIDE DEF got, sent
<1>4. \A i \in 1 .. Len(got) : got[i] \in Nat
    <2>1. \A i \in 1 .. Len(got) : got[i] \in 1 .. MaxNote BY <1>1, ElementOfSeq
    <2>. QED BY <2>1
<1>7. \A i \in 1 .. Len(got) : got[i] <= sent' BY <1>2, <1>3, <1>4, <1>5
<1>8. \A i \in 1 .. Len(got), n \in Coming(s)' : got[i] < n BY <1>2, <1>3, <1>4, <1>6
<1>9. /\ \A i, j \in 1 .. Len(got') : i < j => got'[i] < got'[j]
      /\ \A i \in 1 .. Len(got') : got'[i] <= sent' /\ \A n \in Coming(s)' : got'[i] < n
    BY <1>3, <1>5, <1>7, <1>8
<1>. QED BY <1>9 DEF Rising, got, sent

(* A notification joins what it has got: it was on its way, and first.     *)
LEMMA RisingAppends ==
    ASSUME SubsType, NEW s \in Sub, Rising(s), NEW n \in Coming(s), n <= subs[s].sent,
           Got(s)' = Append(Got(s), n), subs'[s].sent = subs[s].sent,
           \A m \in Coming(s)' : m \in Coming(s) /\ n < m
    PROVE  Rising(s)'
<1>. DEFINE got == Got(s)
            more == Append(got, n)
            sent == subs[s].sent
<1>1. got \in Seq(1 .. MaxNote) BY SubFields DEF NoteSeq, Got
<1>2. n \in 1 .. MaxNote BY ComingRange
<1>3. /\ \A i, j \in 1 .. Len(got) : i < j => got[i] < got[j]
      /\ \A i \in 1 .. Len(got) : got[i] <= sent /\ \A m \in Coming(s) : got[i] < m
    BY DEF Rising
<1>4. Got(s)' = more /\ sent' = sent /\ n <= sent /\ \A m \in Coming(s)' : m \in Coming(s) /\ n < m
    OBVIOUS
<1>5. /\ Len(more) = Len(got) + 1 /\ Len(got) \in Nat
      /\ \A i \in 1 .. Len(got) : more[i] = got[i]
      /\ more[Len(got) + 1] = n
    BY <1>1, <1>2
<1>. HIDE DEF got, more, sent
<1>6. ASSUME NEW i \in 1 .. Len(more), NEW j \in 1 .. Len(more), i < j PROVE more[i] < more[j]
    <2>1. i \in 1 .. Len(got) BY <1>5, <1>6
    <2>2. CASE j \in 1 .. Len(got) BY <1>3, <1>5, <1>6, <2>1, <2>2
    <2>3. CASE j = Len(got) + 1 BY <1>3, <1>5, <2>1, <2>3
    <2>. QED BY <1>5, <2>2, <2>3
<1>7. ASSUME NEW i \in 1 .. Len(more) PROVE more[i] <= sent /\ \A m \in Coming(s)' : more[i] < m
    <2>1. CASE i \in 1 .. Len(got) BY <1>3, <1>4, <1>5, <2>1
    <2>2. CASE i = Len(got) + 1 BY <1>4, <1>5, <2>2
    <2>. QED BY <1>5, <2>1, <2>2
<1>8. /\ \A i, j \in 1 .. Len(Got(s)') : i < j => Got(s)'[i] < Got(s)'[j]
      /\ \A i \in 1 .. Len(Got(s)') : Got(s)'[i] <= sent' /\ \A m \in Coming(s)' : Got(s)'[i] < m
    BY <1>4, <1>6, <1>7
<1>. QED BY <1>8 DEF Rising, sent

(* Dispatch delivers a notification: what is still on its way is later.    *)
LEMMA DeliverRising ==
    ASSUME IInv, SInv, NEW s \in Sub, NEW n \in 1 .. MaxNote, Deliver(s, n)
    PROVE  Rising(s)'
<1>. /\ DispType /\ NetType /\ SubsType /\ Accepted(s) /\ Underway(s) /\ OneNote(disp.batch)
     /\ Rising(s)
    BY DEF IInv, SInv, Types, Notifications
<1>1. /\ UNCHANGED net /\ subs[s].forward = "select" /\ Note(s, n) \in disp.batch
      /\ disp'.batch = disp.batch \ {Note(s, n)}
    BY DEF Deliver, Handled, DispType
<1>2. disp.batch = {Note(s, n)} BY <1>1, NotesDiffer DEF OneNote, Notes
<1>3. subs[s].live \in Conn BY <1>1, SubFields DEF Accepted
<1>4. subs[s].sent \in Nat BY SubFields
<1>5. n \in Coming(s) BY <1>1, ComingNotes
<1>6. subs'[s].received = subs[s].received /\ subs'[s].sent = subs[s].sent BY DeliverUpdates
<1>7. ASSUME NEW m \in Coming(s)' PROVE m \in Coming(s) /\ m = subs[s].sent /\ n = m - 1
    <2>1. m \in 1 .. MaxNote BY ComingRange
    <2>2. PICK c \in Conn : Note(s, m) \in net[c].message BY <1>1, <1>2, <2>1, ComingNext
    <2>3. c = subs[s].live /\ m = subs[s].sent BY <2>1, <2>2 DEF Underway
    <2>4. n = subs[s].sent - 1 BY <1>1, <2>1, <2>2, <2>3 DEF Underway
    <2>5. m \in Coming(s) BY <2>1, <2>2, ComingNotes
    <2>. QED BY <2>3, <2>4, <2>5
<1>8. n <= subs[s].sent
    <2>1. n = subs[s].sent \/ n = subs[s].sent - 1 BY <1>1 DEF Underway
    <2>. QED BY <1>4, <2>1
<1>9. CASE subs'[s].buffer = subs[s].buffer
    <2>1. Got(s)' = Got(s) BY <1>6, <1>9 DEF Got
    <2>. QED BY <1>6, <1>7, <2>1, RisingFrame
<1>10. CASE subs'[s].buffer = Append(subs[s].buffer, n)
    <2>1. subs[s].received \in Seq(1 .. MaxNote) /\ subs[s].buffer \in Seq(1 .. MaxNote)
        BY SubFields DEF NoteSeq
    <2>2. subs[s].received \o Append(subs[s].buffer, n)
          = Append(subs[s].received \o subs[s].buffer, n)
        BY <2>1, TakenAndAdded
    <2>3. Got(s)' = Append(Got(s), n) BY <1>6, <1>10, <2>2 DEF Got
    <2>4. \A m \in Coming(s)' : m \in Coming(s) /\ n < m BY <1>4, <1>7
    <2>. QED BY <1>5, <1>6, <1>8, <2>3, <2>4, RisingAppends
<1>. QED BY <1>9, <1>10, DeliverUpdates

(* Steps other than a delivery bring no notification but the one that is   *)
(* sent.                                                                   *)
LEMMA ComingSteps ==
    ASSUME IInv, [Next]_vars, NEW s \in Sub, \A n \in 1 .. MaxNote : ~Deliver(s, n),
           NEW n \in Coming(s)'
    PROVE  n \in Coming(s) \/ n = subs[s].sent + 1
<1>. DEFINE Goal == n \in Coming(s) \/ n = subs[s].sent + 1
<1>. SUFFICES Goal OBVIOUS
<1>. DispType /\ NetType /\ OutType /\ SubsType BY DEF IInv, Types
<1>1. n \in 1 .. MaxNote BY ComingRange
<1>2. Note(s, n) \in disp'.batch \/ \E c \in Conn : Note(s, n) \in net'[c].message
    BY <1>1, ComingNext
<1>3. Note(s, n) \notin AllIds BY <1>1, NotesDiffer
<1>4. ASSUME Note(s, n) \in disp'.batch => Note(s, n) \in disp.batch,
             \A c \in Conn : Note(s, n) \in net'[c].message => Note(s, n) \in net[c].message
      PROVE  Goal
    BY <1>1, <1>2, <1>4, ComingNotes
<1>5. CASE Quiet(s) BY <1>1, <1>4, <1>5 DEF Quiet, KeepsMessages, KeepsBatch
<1>6. CASE Write(SubscribeOp(s))
    <2>1. disp' = disp /\ \A c \in Conn : net'[c].message = net[c].message
        BY <1>6, DistinctOps, WriteNet DEF Write
    <2>. QED BY <1>4, <2>1
<1>7. CASE HandleSubscribed(s)
    <2>1. UNCHANGED net /\ disp'.batch = disp.batch \ {SubscribeId(s)}
        BY <1>7 DEF HandleSubscribed, Handled, DispType, SubscribeId
    <2>. QED BY <1>4, <2>1
<1>8. CASE QuitSub(s) \/ SubStep(s)
    <2>1. UNCHANGED net /\ disp'.batch = disp.batch BY <1>8, Frames DEF QuitSub, DispType
    <2>. QED BY <1>4, <2>1
<1>9. CASE Notify(s)
    <2>1. disp' = disp BY <1>9 DEF Notify
    <2>2. ASSUME NEW c \in Conn, Note(s, n) \in net'[c].message
          PROVE  n = subs[s].sent + 1 \/ Note(s, n) \in net[c].message
        <3>1. CASE c = subs[s].live
            <4>1. Note(s, n) = Note(s, subs[s].sent + 1) /\ subs[s].sent + 1 \in 1 .. MaxNote
                BY <1>9, <2>2, <3>1, NotifyUpdates
            <4>. QED BY <1>1, <4>1, NotesDiffer
        <3>2. CASE c # subs[s].live BY <1>9, <2>2, <3>2, NotifyUpdates
        <3>. QED BY <3>1, <3>2
    <2>. QED BY <1>4, <2>1, <2>2
<1>10. ASSUME NEW who \in {"user", "forward"}, EnterOnce(s, who) PROVE Goal
    BY <1>4, <1>10 DEF EnterOnce
<1>11. ASSUME NEW c \in Conn, TakeResp(c) \/ DrainResp(c) PROVE Goal
    <2>1. /\ net' = [net EXCEPT ![c].reader = "decode", ![c].message = {}]
          /\ disp'.batch = disp.batch \/ disp'.batch = net[c].message
        BY <1>11 DEF TakeResp, DrainResp, DispType
    <2>2. /\ net'[c].message = {}
          /\ \A d \in Conn : d # c => net'[d] = net[d]
        BY <2>1, NetTaken
    <2>. QED BY <1>1, <1>2, <2>1, <2>2, ComingNotes
<1>12. ASSUME NEW c \in Conn, NEW ids \in SUBSET net[c].server, Answer(c, ids) PROVE Goal
    <2>1. net'[c].message = ids /\ \A d \in Conn : d # c => net'[d] = net[d]
        BY <1>12, AnswerNet
    <2>2. disp' = disp /\ Note(s, n) \notin ids BY <1>3, <1>12 DEF Answer, NetType
    <2>. QED BY <1>4, <2>1, <2>2
<1>. HIDE DEF Goal
<1>13. CASE Eventful(s)
    BY <1>6, <1>7, <1>8, <1>9, <1>10, <1>11, <1>12, <1>13 DEF Eventful
<1>. QED BY <1>5, <1>13, OtherSteps

(* Every step preserves that what a subscription gets rises.               *)
LEMMA NextRising ==
    ASSUME IInv, SInv, [Next]_vars, NEW s \in Sub
    PROVE  Rising(s)'
<1>1. CASE \E n \in 1 .. MaxNote : Deliver(s, n) BY <1>1, DeliverRising
<1>2. CASE \A n \in 1 .. MaxNote : ~Deliver(s, n)
    <2>1. SubsType /\ Rising(s) BY DEF IInv, SInv, Types
    <2>2. Got(s)' = Got(s) BY <1>2, SubSteps
    <2>3. subs'[s].sent = subs[s].sent \/ subs'[s].sent = subs[s].sent + 1
        BY <2>1, SubSteps, NotifiedUpdates
    <2>4. \A n \in Coming(s)' : n \in Coming(s) \/ n = subs[s].sent + 1 BY <1>2, ComingSteps
    <2>. QED BY <2>1, <2>2, <2>3, <2>4, RisingFrame
<1>. QED BY <1>1, <1>2

-----------------------------------------------------------------------------
(* Every step preserves that who unsubscribes was accepted. *)

(* The steps of the user of a subscription.                                *)
LEMMA UserSteps ==
    ASSUME IInv, [Next]_vars, NEW s \in Sub
    PROVE  subs'[s].user = subs[s].user \/ Unsubscribe(s) \/ UnsubscribeReturn(s)
<1>. DEFINE Goal == subs'[s].user = subs[s].user \/ Unsubscribe(s) \/ UnsubscribeReturn(s)
<1>. SUFFICES Goal OBVIOUS
<1>. SubsType BY DEF IInv, Types
<1>1. ASSUME UNCHANGED subs PROVE Goal BY <1>1
<1>2. ASSUME NEW op \in Op,
             \/ Begin(op) \/ GivesUp(op) \/ Receive(op) \/ Accept(op) \/ Write(op) \/ SendError(op)
             \/ Dial(op) \/ Reconnected(op) \/ ReconnectGivesUp(op)
      PROVE  UNCHANGED subs
    BY <1>2, Frames DEF Accept, Write, Dial, Reconnected, ReconnectGivesUp, SendFails
<1>3. ASSUME NEW k \in Closer, CloserStep(k) \/ TakeClose(k) PROVE UNCHANGED subs
    BY <1>3, Frames DEF TakeClose
<1>4. ASSUME NEW c \in Conn,
             \/ TakeResp(c) \/ TakeErr(c) \/ DrainResp(c) \/ DrainErr(c) \/ AwaitErr(c)
             \/ NetStep(c)
      PROVE  UNCHANGED subs
    BY <1>4, Frames DEF TakeResp, TakeErr, DrainResp, DrainErr, AwaitErr
<1>5. ASSUME NEW c \in Conn, NEW ids \in SUBSET net[c].server, Answer(c, ids) PROVE Goal
    <2>1. PICK some \in SUBSET Sub :
             subs' = [t \in Sub |-> IF t \in some THEN [subs[t] EXCEPT !.live = c] ELSE subs[t]]
        BY <1>5 DEF Answer
    <2>2. subs[s] \in SubRecord BY DEF SubsType
    <2>. QED BY <2>1, <2>2 DEF SubRecord
<1>6. ASSUME NEW id \in AllIds, HandleResponse(id) PROVE UNCHANGED subs
    BY <1>6 DEF HandleResponse
<1>7. ASSUME NEW item \in disp.batch, Drop(item) PROVE UNCHANGED subs BY <1>7 DEF Drop
<1>8. ASSUME NEW t \in Sub, HandleSubscribed(t) PROVE Goal
    BY <1>8 DEF HandleSubscribed, SubsType, SubRecord
<1>9. ASSUME NEW t \in Sub, QuitSub(t) PROVE Goal BY <1>9 DEF QuitSub, SubsType, SubRecord
<1>10. ASSUME NEW t \in Sub, SubStep(t) PROVE Goal
    <2>1. CASE Consume(t) BY <2>1 DEF Consume, Becomes, SubsType, SubRecord
    <2>2. CASE ForwardReturns(t) BY <2>2 DEF ForwardReturns, Becomes, SubsType, SubRecord
    <2>3. CASE LeaveOnce(t) BY <2>3 DEF LeaveOnce, Becomes, SubsType, SubRecord
    <2>4. CASE Unsubscribe(t) \/ UnsubscribeReturn(t)
        <3>1. t = s \/ subs'[s] = subs[s] BY <2>4, UserUpdates
        <3>. QED BY <2>4, <3>1
    <2>. QED BY <1>10, <2>1, <2>2, <2>3, <2>4 DEF SubStep
<1>11. ASSUME NEW t \in Sub, Notify(t) PROVE Goal BY <1>11 DEF Notify, SubsType, SubRecord
<1>12. ASSUME NEW t \in Sub, NEW n \in 1 .. MaxNote, Deliver(t, n) PROVE Goal
    BY <1>12 DEF Deliver, SubsType, SubRecord
<1>13. ASSUME NEW t \in Sub, NEW who \in {"user", "forward"}, EnterOnce(t, who) PROVE Goal
    BY <1>13 DEF EnterOnce, SubsType, SubRecord
<1>14. ASSUME TakeSendDone \/ ReadErrDone \/ CloseDone \/ UNCHANGED vars PROVE UNCHANGED subs
    BY <1>14 DEF TakeSendDone, ReadErrDone, CloseDone, vars
<1>. HIDE DEF Goal
<1>. QED
    BY <1>1, <1>2, <1>3, <1>4, <1>5, <1>6, <1>7, <1>8, <1>9, <1>10, <1>11, <1>12, <1>13, <1>14,
       Actions

(* Who begins to unsubscribe was told that the subscription had succeeded. *)
LEMMA NextAsked ==
    ASSUME IInv, SInv, [Next]_vars, NEW s \in Sub
    PROVE  Asked(s)'
<1>1. Asked(s) /\ (subs[s].live # Nil => subs'[s].live # Nil) BY SubSteps DEF SInv
<1>2. CASE subs'[s].user = subs[s].user BY <1>1, <1>2 DEF Asked
<1>3. CASE UnsubscribeReturn(s) BY <1>1, <1>3 DEF UnsubscribeReturn, Asked
<1>4. CASE Unsubscribe(s)
    <2>1. ops[SubscribeOp(s)].pc = "ok" BY <1>4 DEF Unsubscribe
    <2>2. PICK t \in Sub : SubscribeOp(s) = SubscribeOp(t) /\ subs[t].live # Nil
        BY <2>1, DistinctOps DEF SInv, Source, Subscribes
    <2>3. subs[s].live # Nil BY <2>2, DistinctOps
    <2>. QED BY <1>1, <2>3 DEF Asked
<1>. QED BY <1>2, <1>3, <1>4, UserSteps

-----------------------------------------------------------------------------
(* The strengthened invariant. *)
LEMMA NextSInv == IInv /\ SInv /\ [Next]_vars => SInv'
<1>. SUFFICES ASSUME IInv, SInv, [Next]_vars PROVE SInv' OBVIOUS
<1>1. \A op \in Op : Source(op)' BY NextSource
<1>2. (\A op \in Op : Source(op))'
    <2>1. Op' = Op BY DEF Op, SubscribeOp, UnsubscribeOp
    <2>. QED BY <1>1, <2>1
<1>3. \A s \in Sub : Plain(s)' /\ Rising(s)' /\ Asked(s)' BY NextPlain, NextRising, NextAsked
<1>4. Replied' BY NextReplied
<1>. QED BY <1>2, <1>3, <1>4 DEF SInv

(* It always holds.                                                        *)
LEMMA StrongInvariance == Spec => [](IInv /\ SInv)
<1>1. Init => IInv /\ SInv BY InitIInv, InitSInv
<1>2. IInv /\ SInv /\ [Next]_vars => (IInv /\ SInv)' BY NextIInv, NextSInv
<1>. QED BY <1>1, <1>2, PTL DEF Spec

-----------------------------------------------------------------------------
(* The variables of RpcSpec, as Promise defines them. *)

State == [op \in Op |-> StateOf(op)]
Sent == {op \in Op : ops[op].via # Nil}
Replies == [op \in Op |-> Received(op)]
Streams ==
    <<{s \in Sub : subs[s].live # Nil}, {s \in Sub : subs[s].quit},
      [s \in Sub |-> subs[s].sent], [s \in Sub |-> subs[s].received]>>
Closed == loop = "quit"

(* The fields of an operation are all a request is mapped to ...           *)
LEMMA SameCalls ==
    ASSUME \A op \in Op : StateOf(op)' = StateOf(op) /\ Received(op)' = Received(op)
                          /\ (Written(op)' <=> Written(op))
    PROVE  State' = State /\ Sent' = Sent /\ Replies' = Replies
<1>1. State' = State BY DEF State
<1>2. Replies' = Replies BY DEF Replies
<1>3. Sent' = Sent BY DEF Sent, Written
<1>. QED BY <1>1, <1>2, <1>3

(* ... so that what happens to one changes nothing in another.             *)
LEMMA OneCall ==
    ASSUME NEW op \in Op, \A q \in Op : q # op => ops'[q] = ops[q]
    PROVE  /\ State' = [State EXCEPT ![op] = StateOf(op)']
           /\ Replies' = [Replies EXCEPT ![op] = Received(op)']
           /\ Sent' = IF Written(op)' THEN Sent \cup {op} ELSE Sent \ {op}
<1>1. \A q \in Op : q # op => /\ StateOf(q)' = StateOf(q) /\ Received(q)' = Received(q)
                              /\ (Written(q)' <=> Written(q))
    BY DEF StateOf, Received, Written
<1>2. State' = [State EXCEPT ![op] = StateOf(op)'] BY <1>1 DEF State
<1>3. Replies' = [Replies EXCEPT ![op] = Received(op)'] BY <1>1 DEF Replies
<1>4. Sent' = IF Written(op)' THEN Sent \cup {op} ELSE Sent \ {op} BY <1>1 DEF Sent, Written
<1>. QED BY <1>2, <1>3, <1>4

(* What a subscription is mapped to.                                       *)
LEMMA SameStreams ==
    ASSUME \A s \in Sub : /\ (subs'[s].live # Nil <=> subs[s].live # Nil)
                          /\ (subs'[s].quit <=> subs[s].quit)
                          /\ subs'[s].sent = subs[s].sent /\ subs'[s].received = subs[s].received
    PROVE  Streams' = Streams
BY DEF Streams

(* A step that changes none of it is invisible.                            *)
LEMMA Invisible ==
    ASSUME State' = State, Sent' = Sent, Replies' = Replies, Streams' = Streams, Closed' = Closed
    PROVE  UNCHANGED Promise!vars
BY DEF Promise!vars, State, Sent, Replies, Streams, Closed

(* An operation gives up, or is told of an error.                          *)
LEMMA GivenUp ==
    ASSUME OpsType, NEW op \in Op, ops' = [ops EXCEPT ![op].pc = "failed"],
           ops[op].pc \in {"send", "write", "reconnect", "wait"},
           Streams' = Streams, Closed' = Closed
    PROVE  Promise!Fail(op)
<1>1. /\ ops'[op].pc = "failed" /\ ops'[op].taken = ops[op].taken /\ ops'[op].via = ops[op].via
      /\ \A q \in Op : q # op => ops'[q] = ops[q]
    BY OpMoves
<1>2. StateOf(op) = "pending" /\ StateOf(op)' = "failed" /\ Received(op)' = Received(op)
      /\ (Written(op)' <=> Written(op))
    BY <1>1 DEF StateOf, Finished, Received, Written
<1>3. State' = [State EXCEPT ![op] = "failed"] /\ State[op] = "pending"
    BY <1>1, <1>2, OneCall DEF State
<1>4. Replies' = Replies BY <1>1, <1>2, OneCall DEF Replies
<1>5. Sent' = Sent BY <1>1, <1>2, OneCall DEF Sent, Written
<1>. QED BY <1>3, <1>4, <1>5 DEF Promise!Fail, Promise!streams, State, Sent, Replies, Streams, Closed

(* An operation moves on its way to the wire.                              *)
LEMMA GoesOn ==
    ASSUME OpsType, NEW op \in Op, NEW pc \in {"send", "write", "reconnect", "wait"},
           ops' = [ops EXCEPT ![op].pc = pc],
           ops[op].pc \in {"send", "write", "reconnect", "wait"},
           Streams' = Streams, Closed' = Closed
    PROVE  UNCHANGED Promise!vars
<1>1. /\ ops'[op].pc = pc /\ ops'[op].taken = ops[op].taken /\ ops'[op].via = ops[op].via
      /\ \A q \in Op : q # op => ops'[q] = ops[q]
    BY OpMoves
<1>2. StateOf(op)' = StateOf(op) /\ Received(op)' = Received(op) /\ (Written(op)' <=> Written(op))
    BY <1>1 DEF StateOf, Finished, Received, Written
<1>3. \A q \in Op : q # op => /\ StateOf(q)' = StateOf(q) /\ Received(q)' = Received(q)
                              /\ (Written(q)' <=> Written(q))
    BY <1>1 DEF StateOf, Received, Written
<1>. QED BY <1>2, <1>3, SameCalls, Invisible

(* The channels of operations change, and no more.                         *)
LEMMA ChannelsOnly ==
    ASSUME \A op \in Op : /\ ops'[op].pc = ops[op].pc /\ ops'[op].via = ops[op].via
                          /\ ops'[op].taken = ops[op].taken,
           Streams' = Streams, Closed' = Closed
    PROVE  UNCHANGED Promise!vars
<1>1. \A op \in Op : /\ StateOf(op)' = StateOf(op) /\ Received(op)' = Received(op)
                     /\ (Written(op)' <=> Written(op))
    BY DEF StateOf, Received, Written
<1>. QED BY <1>1, SameCalls, Invisible

(* Nothing happens to the operations.                                      *)
LEMMA SameOps ==
    ASSUME UNCHANGED ops
    PROVE  State' = State /\ Sent' = Sent /\ Replies' = Replies
BY DEF State, Sent, Replies, StateOf, Received

-----------------------------------------------------------------------------
(* The steps of an operation. *)

(* It begins.                                                              *)
LEMMA BeginPromised ==
    ASSUME IInv, NEW op \in Op, Begin(op), \A s \in Sub : op # UnsubscribeOp(s)
    PROVE  Promise!Begin(op)
<1>1. OpsType BY DEF IInv, Types
<1>2. Streams' = Streams /\ Closed' = Closed BY DEF Begin, Goes, Streams, Closed
<1>3. ops[op].pc = "idle" /\ ops' = [ops EXCEPT ![op].pc = "send"] BY DEF Begin, Goes
<1>4. /\ ops'[op].pc = "send" /\ ops'[op].taken = ops[op].taken /\ ops'[op].via = ops[op].via
      /\ \A q \in Op : q # op => ops'[q] = ops[q]
    BY <1>1, <1>3, OpMoves
<1>5. StateOf(op) = "new" /\ StateOf(op)' = "pending" /\ Received(op)' = Received(op)
      /\ (Written(op)' <=> Written(op))
    BY <1>3, <1>4 DEF StateOf, Finished, Received, Written
<1>6. State' = [State EXCEPT ![op] = "pending"] /\ State[op] = "new"
    BY <1>4, <1>5, OneCall DEF State
<1>7. Replies' = Replies BY <1>4, <1>5, OneCall DEF Replies
<1>8. Sent' = Sent BY <1>4, <1>5, OneCall DEF Sent, Written
<1>. QED
    BY <1>2, <1>6, <1>7, <1>8
    DEF Promise!Begin, Promise!streams, State, Sent, Replies, Streams, Closed

(* It is written, for the first time and before the client has quit.       *)
LEMMA WritePromised ==
    ASSUME IInv, SInv, NEW op \in Op, Write(op)
    PROVE  Promise!Send(op)
<1>1. OpsType /\ OutType /\ SendLock BY DEF IInv, Types
<1>2. Streams' = Streams /\ Closed' = Closed BY DEF Write, Streams, Closed
<1>3. /\ ops[op].pc = "write" /\ out.conn # Nil /\ net[out.conn].open /\ out.conn \in Conn
    BY <1>1 DEF Write, OutType
<1>4. ~Written(op) BY <1>3 DEF SInv, Source, Early
<1>5. /\ ops'[op].pc = "wait" /\ ops'[op].taken = ops[op].taken /\ ops'[op].via # Nil
      /\ \A q \in Op : q # op => ops'[q] = ops[q]
    BY <1>1, <1>3, WriteUpdates
<1>6. StateOf(op) = "pending" /\ StateOf(op)' = "pending" /\ Received(op)' = Received(op)
    BY <1>3, <1>5 DEF StateOf, Finished, Received
<1>7. State' = State /\ State[op] = "pending"
    <2>1. State' = [State EXCEPT ![op] = StateOf(op)'] BY <1>5, OneCall
    <2>2. State[op] = "pending" BY <1>6 DEF State
    <2>3. State' = [State EXCEPT ![op] = State[op]] BY <1>6, <2>1, <2>2
    <2>. QED BY <2>2, <2>3 DEF State
<1>8. Replies' = Replies BY <1>5, <1>6, OneCall DEF Replies
<1>9. op \notin Sent /\ Sent' = Sent \cup {op} BY <1>4, <1>5, OneCall DEF Sent, Written
<1>10. ~Closed
    <2>1. \/ out.conn = disp.conn /\ loop \notin {"draining", "quit"}
          \/ loop = "await" \/ \E q \in Op : ops[q].pc = "reconnect"
        BY <1>3 DEF IInv, Connections, NoConnectionLeaks
    <2>2. \A q \in Op : ops[q].pc # "reconnect" BY <1>1, <1>3 DEF SendLock
    <2>. QED BY <2>1, <2>2 DEF Closed
<1>. QED
    BY <1>2, <1>7, <1>8, <1>9, <1>10
    DEF Promise!Send, Promise!streams, State, Sent, Replies, Streams, Closed

(* It receives a response: the last one, an earlier one, or one with which *)
(* the connection has been lost.                                           *)
LEMMA ReceivePromised ==
    ASSUME IInv, SInv, NEW op \in Op, Receive(op)
    PROVE  Promise!Take(op)
<1>1. OpsType /\ Ledger(op) /\ Source(op) BY DEF IInv, SInv, Types
<1>2. Streams' = Streams /\ Closed' = Closed BY DEF Receive, Streams, Closed
<1>3. /\ ops[op].pc = "wait" /\ ops[op].resp > 0
      /\ ops'[op].taken = ops[op].taken + 1 /\ ops'[op].via = ops[op].via
      /\ ops'[op].pc = IF ops[op].chan = "error" THEN "failed"
                       ELSE IF ops[op].taken + 1 = Length(op) THEN "ok" ELSE "wait"
      /\ \A q \in Op : q # op => ops'[q] = ops[q]
    BY <1>1, ReceiveUpdates
<1>4. \A s \in Sub : op # SubscribeOp(s)
    <2>1. ASSUME NEW s \in Sub, op = SubscribeOp(s) PROVE FALSE
        <3>1. ops[op].resp = 0 BY <2>1 DEF SInv, Plain
        <3>. QED BY <1>3, <3>1
    <2>. QED BY <2>1
<1>5. op \in Sent BY <1>1, <1>3 DEF Source, Written, Sent
<1>6. ops[op].taken < Length(op)
    <2>1. ops[op].taken \in Nat /\ ops[op].resp \in Nat /\ Length(op) \in Nat
        BY <1>1, LengthType DEF OpsType
    <2>2. Cardinality(Registered(op)) \in Nat
        BY IdsCounted, FS_Subset, FS_CardinalityType DEF Registered
    <2>3. ops[op].taken + ops[op].resp + Cardinality(Registered(op)) <= Length(op)
        BY <1>1 DEF Ledger
    <2>. QED BY <1>3, <2>1, <2>2, <2>3
<1>7. Received(op) = ops[op].taken /\ Received(op)' = ops[op].taken + 1
      /\ (Written(op)' <=> Written(op))
    BY <1>3, <1>4 DEF Received, Written
<1>8. /\ StateOf(op) = "pending"
      /\ StateOf(op)' \in {"failed", IF ops[op].taken + 1 = Length(op) THEN "ok" ELSE "pending"}
    BY <1>3 DEF StateOf, Finished
<1>9. /\ State[op] = "pending"
      /\ \E to \in {"failed", IF Replies[op] + 1 = Length(op) THEN "ok" ELSE "pending"} :
            State' = [State EXCEPT ![op] = to]
    <2>1. State[op] = "pending" /\ Replies[op] = ops[op].taken BY <1>7, <1>8 DEF State, Replies
    <2>2. State' = [State EXCEPT ![op] = StateOf(op)'] BY <1>3, OneCall
    <2>. QED BY <1>8, <2>1, <2>2
<1>10. Replies[op] < Length(op) /\ Replies' = [Replies EXCEPT ![op] = @ + 1]
    <2>1. Replies[op] = ops[op].taken BY <1>7 DEF Replies
    <2>2. Replies' = [Replies EXCEPT ![op] = Received(op)'] BY <1>3, OneCall
    <2>. QED BY <1>6, <1>7, <2>1, <2>2
<1>11. Sent' = Sent BY <1>3, <1>7, OneCall DEF Sent, Written
<1>. QED
    BY <1>2, <1>4, <1>5, <1>9, <1>10, <1>11
    DEF Promise!Take, Promise!streams, State, Sent, Replies, Streams, Closed

(* Its channel is closed: it fails, or it is a subscription that was       *)
(* accepted.                                                               *)
LEMMA ClosedPromised ==
    ASSUME IInv, SInv, NEW op \in Op, ReceiveClosed(op)
    PROVE  Promise!Fail(op) \/ Promise!Take(op)
<1>1. OpsType /\ Source(op) BY DEF IInv, SInv, Types
<1>2. Streams' = Streams /\ Closed' = Closed BY DEF ReceiveClosed, Goes, Streams, Closed
<1>3. /\ ops[op].pc = "wait" /\ ops[op].chan \in {"closed", "error"}
      /\ ops' = [ops EXCEPT ![op].pc = IF ops[op].chan = "error" THEN "failed" ELSE "ok"]
    BY <1>1 DEF ReceiveClosed, Goes, OpsType
<1>4. CASE ops[op].chan = "error" BY <1>1, <1>2, <1>3, <1>4, GivenUp
<1>5. CASE ops[op].chan = "closed"
    <2>1. /\ ops'[op].pc = "ok" /\ ops'[op].via = ops[op].via
          /\ \A q \in Op : q # op => ops'[q] = ops[q]
        BY <1>1, <1>3, <1>5, OpMoves
    <2>2. PICK s \in Sub : op = SubscribeOp(s) /\ subs[s].live # Nil BY <1>1, <1>5 DEF Source
    <2>3. \A t \in Sub : op = SubscribeOp(t) => subs[t].live # Nil BY <2>2, DistinctOps
    <2>4. op \in Sent BY <1>1, <1>5 DEF Source, Written, Sent
    <2>5. Length(op) = 1 BY <2>2, DistinctOps DEF Length
    <2>6. StateOf(op) = "pending" /\ StateOf(op)' = "ok" BY <1>3, <2>1 DEF StateOf, Finished
    <2>7. Received(op) = 0 /\ Received(op)' = 1 /\ (Written(op)' <=> Written(op))
        BY <1>3, <2>1, <2>2 DEF Received, Written
    <2>8. State[op] = "pending" /\ State' = [State EXCEPT ![op] = "ok"]
        BY <2>1, <2>6, OneCall DEF State
    <2>9. Replies[op] = 0 /\ Replies' = [Replies EXCEPT ![op] = @ + 1]
        <3>1. Replies[op] = 0 BY <2>7 DEF Replies
        <3>2. Replies' = [Replies EXCEPT ![op] = Received(op)'] BY <2>1, OneCall
        <3>. QED BY <2>7, <3>1, <3>2
    <2>10. Sent' = Sent BY <2>1, <2>7, OneCall DEF Sent, Written
    <2>11. \E to \in {"failed", IF Replies[op] + 1 = Length(op) THEN "ok" ELSE "pending"} :
              State' = [State EXCEPT ![op] = to]
        BY <2>5, <2>8, <2>9
    <2>12. Replies[op] < Length(op) BY <2>5, <2>9
    <2>. QED
        BY <1>2, <2>3, <2>4, <2>8, <2>9, <2>10, <2>11, <2>12
        DEF Promise!Take, Promise!streams, State, Sent, Replies, Streams, Closed
<1>. QED BY <1>3, <1>4, <1>5

(* All other steps of an operation are invisible, or fail it.              *)
LEMMA CallerPromised ==
    ASSUME IInv, SInv, NEW op \in Op,
           \/ GivesUp(op) \/ Accept(op) \/ SendError(op) \/ Dial(op) \/ Reconnected(op)
           \/ ReconnectGivesUp(op)
    PROVE  Promise!Fail(op) \/ Promise!Take(op) \/ UNCHANGED Promise!vars
<1>1. OpsType BY DEF IInv, Types
<1>2. CASE ContextEnds(op) \/ SendGivesUp(op)
    <2>1. ops[op].pc \in {"send", "wait"} /\ ops' = [ops EXCEPT ![op].pc = "failed"]
        BY <1>2 DEF ContextEnds, SendGivesUp, Goes
    <2>2. Streams' = Streams /\ Closed' = Closed
        BY <1>2 DEF ContextEnds, SendGivesUp, Goes, Streams, Closed
    <2>. QED BY <1>1, <2>1, <2>2, GivenUp
<1>3. CASE ReceiveClosed(op) BY <1>3, ClosedPromised
<1>4. CASE SendError(op) \/ ReconnectGivesUp(op)
    <2>1. ops[op].pc \in {"write", "reconnect"} /\ ops' = [ops EXCEPT ![op].pc = "failed"]
        BY <1>4 DEF SendError, WriteFails, DialFails, ReconnectGivesUp, SendFails
    <2>2. Streams' = Streams /\ Closed' = Closed
        BY <1>4 DEF SendError, WriteFails, DialFails, ReconnectGivesUp, SendFails, Streams, Closed
    <2>. QED BY <1>1, <2>1, <2>2, GivenUp
<1>5. CASE Accept(op) \/ Dial(op) \/ Reconnected(op)
    <2>1. /\ ops[op].pc \in {"send", "write", "reconnect"}
          /\ \E pc \in {"write", "reconnect"} : ops' = [ops EXCEPT ![op].pc = pc]
        BY <1>5 DEF Accept, Dial, Reconnected
    <2>2. Streams' = Streams BY <1>5 DEF Accept, Dial, Reconnected, Streams
    <2>3. Closed' = Closed BY <1>5 DEF Accept, Dial, Reconnected, Closed
    <2>. QED BY <1>1, <2>1, <2>2, <2>3, GoesOn
<1>. QED BY <1>2, <1>3, <1>4, <1>5 DEF GivesUp

-----------------------------------------------------------------------------
(* The steps of dispatch, the readers and Close. *)

(* The loop handles a message: the callers see it when they receive, the   *)
(* subscribers when they are handed a notification.                        *)
LEMMA HandlePromised ==
    ASSUME IInv,
           \/ \E id \in AllIds : HandleResponse(id)
           \/ \E item \in disp.batch : Drop(item)
           \/ \E s \in Sub : HandleSubscribed(s) \/ \E n \in 1 .. MaxNote : Deliver(s, n)
    PROVE  UNCHANGED Promise!vars
<1>. OpsType /\ SubsType BY DEF IInv, Types
<1>1. ASSUME NEW item, NEW respWait, NEW running, Handled(item, respWait, running)
      PROVE  Closed' = Closed
    BY <1>1 DEF Handled, Closed
<1>2. ASSUME NEW id \in AllIds, HandleResponse(id) PROVE UNCHANGED Promise!vars
    <2>1. Streams' = Streams /\ Closed' = Closed
        BY <1>1, <1>2 DEF HandleResponse, Streams
    <2>2. Owner(id) \in Op BY OwnerOfId
    <2>3. \A op \in Op : /\ ops'[op].pc = ops[op].pc /\ ops'[op].via = ops[op].via
                         /\ ops'[op].taken = ops[op].taken
        BY <1>2, <2>2, RespUpdates DEF HandleResponse
    <2>. QED BY <2>1, <2>3, ChannelsOnly
<1>3. ASSUME NEW item \in disp.batch, Drop(item) PROVE UNCHANGED Promise!vars
    <2>1. Streams' = Streams /\ Closed' = Closed BY <1>1, <1>3 DEF Drop, Streams
    <2>. QED BY <1>3, <2>1, SameOps, Invisible DEF Drop
<1>4. ASSUME NEW s \in Sub, HandleSubscribed(s) PROVE UNCHANGED Promise!vars
    <2>1. Streams' = Streams
        <3>1. \A t \in Sub : /\ subs'[t].live = subs[t].live /\ subs'[t].quit = subs[t].quit
                             /\ subs'[t].sent = subs[t].sent
                             /\ subs'[t].received = subs[t].received
            BY <1>4, SubscribedUpdates
        <3>. QED BY <3>1, SameStreams
    <2>2. \E item, respWait, running : Handled(item, respWait, running)
        BY <1>4 DEF HandleSubscribed
    <2>3. Closed' = Closed BY <1>1, <2>2
    <2>4. SubscribeOp(s) \in Op /\ \E chan : ops' = [ops EXCEPT ![SubscribeOp(s)].chan = chan]
        BY <1>4, DistinctOps DEF HandleSubscribed
    <2>5. \A op \in Op : /\ ops'[op].pc = ops[op].pc /\ ops'[op].via = ops[op].via
                         /\ ops'[op].taken = ops[op].taken
        BY <2>4, ChanUpdates
    <2>. QED BY <2>1, <2>3, <2>5, ChannelsOnly
<1>5. ASSUME NEW s \in Sub, NEW n \in 1 .. MaxNote, Deliver(s, n) PROVE UNCHANGED Promise!vars
    <2>1. Streams' = Streams
        <3>1. \A t \in Sub : /\ subs'[t].live = subs[t].live /\ subs'[t].quit = subs[t].quit
                             /\ subs'[t].sent = subs[t].sent
                             /\ subs'[t].received = subs[t].received
            BY <1>5, DeliverUpdates
        <3>. QED BY <3>1, SameStreams
    <2>2. Closed' = Closed /\ UNCHANGED ops BY <1>1, <1>5 DEF Deliver
    <2>. QED BY <2>1, <2>2, SameOps, Invisible
<1>. QED BY <1>2, <1>3, <1>4, <1>5

(* The other steps of dispatch, Close and the readers: the loop quits, or  *)
(* they are invisible.                                                     *)
LEMMA LoopPromised ==
    ASSUME IInv,
           \/ \E k \in Closer : CloserStep(k) \/ TakeClose(k)
           \/ \E c \in Conn :
                 \/ TakeResp(c) \/ TakeErr(c) \/ DrainResp(c) \/ DrainErr(c) \/ AwaitErr(c)
                 \/ NetStep(c)
           \/ TakeSendDone \/ ReadErrDone \/ CloseDone
           \/ UNCHANGED vars
    PROVE  Promise!Close \/ UNCHANGED Promise!vars
<1>. OpsType BY DEF IInv, Types
<1>1. ASSUME UNCHANGED <<ops, subs>>, Closed' = Closed PROVE UNCHANGED Promise!vars
    <2>1. Streams' = Streams BY <1>1 DEF Streams
    <2>. QED BY <1>1, <2>1, SameOps, Invisible
<1>2. ASSUME UNCHANGED <<ops, subs>>, loop' = "quit" PROVE Promise!Close
    <2>1. Streams' = Streams BY <1>2 DEF Streams
    <2>2. State' = State /\ Sent' = Sent /\ Replies' = Replies BY <1>2, SameOps
    <2>. QED
        BY <1>2, <2>1, <2>2
        DEF Promise!Close, Promise!calls, Promise!streams, State, Sent, Replies, Streams
<1>3. ASSUME CloseOps, UNCHANGED subs, Closed' = Closed PROVE UNCHANGED Promise!vars
    <2>1. Streams' = Streams BY <1>3 DEF Streams
    <2>2. \A op \in Op : /\ ops'[op].pc = ops[op].pc /\ ops'[op].via = ops[op].via
                         /\ ops'[op].taken = ops[op].taken
        BY <1>3, CloseUpdates
    <2>. QED BY <1>3, <2>1, <2>2, ChannelsOnly
<1>4. ASSUME NEW k \in Closer, CloserStep(k) PROVE UNCHANGED Promise!vars
    BY <1>1, <1>4, Frames DEF Closed
<1>5. ASSUME NEW k \in Closer, TakeClose(k) PROVE UNCHANGED Promise!vars
    BY <1>3, <1>5 DEF TakeClose, Closed
<1>6. ASSUME NEW c \in Conn, TakeErr(c) PROVE UNCHANGED Promise!vars
    BY <1>3, <1>6 DEF TakeErr, Closed
<1>7. ASSUME NEW c \in Conn, NetStep(c) PROVE UNCHANGED Promise!vars
    BY <1>1, <1>7, Frames DEF Closed
<1>8. ASSUME NEW c \in Conn, TakeResp(c) \/ DrainResp(c) \/ AwaitErr(c) PROVE UNCHANGED Promise!vars
    BY <1>1, <1>8 DEF TakeResp, DrainResp, AwaitErr, Closed
<1>9. ASSUME NEW c \in Conn, DrainErr(c) PROVE Promise!Close BY <1>2, <1>9 DEF DrainErr
<1>10. ASSUME TakeSendDone \/ ReadErrDone PROVE UNCHANGED Promise!vars
    BY <1>1, <1>10 DEF TakeSendDone, ReadErrDone, Closed
<1>11. ASSUME CloseDone PROVE Promise!Close \/ UNCHANGED Promise!vars
    BY <1>1, <1>2, <1>11 DEF CloseDone, Closed
<1>12. ASSUME UNCHANGED vars PROVE UNCHANGED Promise!vars BY <1>1, <1>12 DEF vars, Closed
<1>. QED BY <1>4, <1>5, <1>6, <1>7, <1>8, <1>9, <1>10, <1>11, <1>12

-----------------------------------------------------------------------------
(* The steps of a subscription and of the server. *)

(* The server accepts subscriptions, each for the first time and after it  *)
(* was asked.                                                              *)
LEMMA AnswerPromised ==
    ASSUME IInv, SInv, NEW c \in Conn, NEW ids \in SUBSET net[c].server, Answer(c, ids)
    PROVE  \E some \in SUBSET Sub : Promise!Accept(some)
<1>. SubsType BY DEF IInv, Types
<1>1. PICK some \in SUBSET {s \in Sub : SubscribeId(s) \in ids} :
         subs' = [s \in Sub |-> IF s \in some THEN [subs[s] EXCEPT !.live = c] ELSE subs[s]]
    BY DEF Answer, SubscribeId
<1>2. UNCHANGED <<ops, loop>> BY DEF Answer
<1>3. ASSUME NEW s \in some PROVE subs[s].live = Nil /\ SubscribeOp(s) \in Sent
    <2>1. s \in Sub /\ SubscribeId(s) \in net[c].server BY <1>1, <1>3
    <2>2. subs[s].live = Nil BY <2>1 DEF IInv, Notifications, Accepted
    <2>3. Written(SubscribeOp(s))
        <3>1. Travels(SubscribeId(s)) /\ SubscribeId(s) \in AllIds
              /\ Owner(SubscribeId(s)) = SubscribeOp(s)
            BY <2>1, SubscribeIds DEF Travels
        <3>. QED BY <3>1 DEF SInv, Replied
    <2>. QED BY <2>1, <2>2, <2>3, DistinctOps DEF Sent, Written
<1>4. c # Nil BY DEF Conn, Nil
<1>5. \A s \in Sub :
         /\ subs'[s].live # Nil <=> subs[s].live # Nil \/ s \in some
         /\ subs'[s].quit = subs[s].quit
         /\ subs'[s].sent = subs[s].sent /\ subs'[s].received = subs[s].received
    <2>1. ASSUME NEW s \in Sub, s \in some
          PROVE  /\ subs'[s].live = c /\ subs'[s].quit = subs[s].quit
                 /\ subs'[s].sent = subs[s].sent /\ subs'[s].received = subs[s].received
        <3>1. subs'[s] = [subs[s] EXCEPT !.live = c] /\ subs[s] \in SubRecord
            BY <1>1, <2>1 DEF SubsType
        <3>. QED BY <3>1 DEF SubRecord
    <2>2. \A s \in Sub : s \notin some => subs'[s] = subs[s] BY <1>1
    <2>. QED BY <1>4, <2>1, <2>2
<1>. DEFINE accepted == {s \in Sub : subs[s].live # Nil}
            left == {s \in Sub : subs[s].quit}
            emitted == [s \in Sub |-> subs[s].sent]
            handed == [s \in Sub |-> subs[s].received]
<1>6. accepted' = accepted \cup some BY <1>1, <1>5
<1>7. left' = left BY <1>5
<1>8. emitted' = emitted BY <1>5
<1>9. handed' = handed BY <1>5
<1>10. \A s \in some : s \notin accepted /\ SubscribeOp(s) \in Sent BY <1>3
<1>11. some \in SUBSET Sub BY <1>1
<1>12. State' = State /\ Sent' = Sent /\ Replies' = Replies BY <1>2, SameOps
<1>13. Promise!Accept(some)
    BY <1>2, <1>6, <1>7, <1>8, <1>9, <1>10, <1>11, <1>12
    DEF Promise!Accept, Promise!calls, State, Sent, Replies
<1>. QED BY <1>11, <1>13

(* It sends a notification of a subscription it has accepted.              *)
LEMMA NotifyPromised ==
    ASSUME IInv, NEW s \in Sub, Notify(s)
    PROVE  Promise!Emit(s)
<1>. SubsType BY DEF IInv, Types
<1>1. UNCHANGED <<ops, loop>> /\ subs[s].live # Nil BY DEF Notify
<1>2. /\ subs'[s].sent = subs[s].sent + 1
      /\ \A t \in Sub : /\ subs'[t].live = subs[t].live /\ subs'[t].quit = subs[t].quit
                        /\ subs'[t].received = subs[t].received
                        /\ t # s => subs'[t].sent = subs[t].sent
    BY NotifiedUpdates
<1>. DEFINE accepted == {t \in Sub : subs[t].live # Nil}
            left == {t \in Sub : subs[t].quit}
            emitted == [t \in Sub |-> subs[t].sent]
            handed == [t \in Sub |-> subs[t].received]
<1>3. s \in accepted /\ accepted' = accepted BY <1>1, <1>2
<1>4. left' = left BY <1>2
<1>5. emitted' = [emitted EXCEPT ![s] = @ + 1] BY <1>2
<1>6. handed' = handed BY <1>2
<1>7. State' = State /\ Sent' = Sent /\ Replies' = Replies BY <1>1, SameOps
<1>. QED
    BY <1>1, <1>3, <1>4, <1>5, <1>6, <1>7
    DEF Promise!Emit, Promise!calls, State, Sent, Replies

(* The first notification in the buffer is later than those its subscriber *)
(* has, was sent, and until the subscription quits it is the next one.     *)
LEMMA FirstHeld ==
    ASSUME IInv, SInv, NEW s \in Sub, subs[s].forward = "select", subs[s].buffer # <<>>
    PROVE  LET received == subs[s].received
               first == Head(subs[s].buffer)
               latest == IF received = <<>> THEN 0 ELSE received[Len(received)] IN
           /\ first \in latest + 1 .. subs[s].sent
           /\ ~subs[s].quit => first = Len(received) + 1
<1>. DEFINE received == subs[s].received
            buffer == subs[s].buffer
            got == received \o buffer
            first == Head(buffer)
            latest == IF received = <<>> THEN 0 ELSE received[Len(received)]
            sent == subs[s].sent
<1>. SubsType BY DEF IInv, Types
<1>1. /\ received \in Seq(1 .. MaxNote) /\ buffer \in Seq(1 .. MaxNote) /\ sent \in Nat
      /\ buffer # <<>>
    BY SubFields DEF NoteSeq
<1>2. /\ \A i, j \in 1 .. Len(got) : i < j => got[i] < got[j]
      /\ \A i \in 1 .. Len(got) : got[i] <= sent
    BY DEF SInv, Rising, Got
<1>3. ~subs[s].quit => got = [n \in 1 .. Len(got) |-> n]
    BY DEF IInv, Notifications, InOrder, Runs, Got
<1>. HIDE DEF received, buffer, first, latest, sent
<1>4. /\ Len(received) \in Nat /\ Len(buffer) \in Nat \ {0}
      /\ Len(got) = Len(received) + Len(buffer)
    BY <1>1
<1>5. \A i \in 1 .. Len(received) : got[i] = received[i] BY <1>1
<1>6. first = buffer[1] /\ first \in 1 .. MaxNote
    <2>1. 1 \in 1 .. Len(buffer) BY <1>4
    <2>2. buffer[1] \in 1 .. MaxNote BY <1>1, <2>1, ElementOfSeq
    <2>3. first = buffer[1] BY <1>1 DEF first
    <2>. QED BY <2>2, <2>3
<1>7. got[Len(received) + 1] = first BY <1>1, <1>4, <1>6
<1>. HIDE DEF got
<1>8. Len(received) + 1 \in 1 .. Len(got) BY <1>4
<1>9. first <= sent BY <1>2, <1>7, <1>8
<1>10. latest \in Nat /\ latest < first
    <2>1. CASE received = <<>> BY <1>6, <2>1 DEF latest
    <2>2. CASE received # <<>>
        <3>1. Len(received) \in 1 .. Len(received) BY <1>1, <1>4, <2>2
        <3>2. received[Len(received)] \in 1 .. MaxNote BY <1>1, <3>1, ElementOfSeq
        <3>3. got[Len(received)] = received[Len(received)] BY <1>5, <3>1
        <3>4. Len(received) \in 1 .. Len(got) /\ Len(received) < Len(received) + 1
            BY <1>4, <3>1
        <3>5. got[Len(received)] < got[Len(received) + 1] BY <1>2, <1>8, <3>4
        <3>. QED BY <1>7, <2>2, <3>2, <3>3, <3>5 DEF latest
    <2>. QED BY <2>1, <2>2
<1>11. first \in latest + 1 .. sent BY <1>1, <1>6, <1>9, <1>10
<1>12. ~subs[s].quit => first = Len(received) + 1 BY <1>3, <1>7, <1>8
<1>. QED BY <1>11, <1>12 DEF received, buffer, first, latest, sent

(* forward() hands a notification to the subscriber.                       *)
LEMMA ConsumePromised ==
    ASSUME IInv, SInv, NEW s \in Sub, Consume(s)
    PROVE  Promise!Hand(s)
<1>. SubsType BY DEF IInv, Types
<1>1. /\ UNCHANGED <<ops, loop>> /\ subs[s].forward = "select" /\ subs[s].buffer # <<>>
    BY DEF Consume, Becomes
<1>2. subs[s].live # Nil BY <1>1 DEF IInv, Notifications, Accepted
<1>3. /\ subs'[s].received = Append(subs[s].received, Head(subs[s].buffer))
      /\ \A t \in Sub : /\ subs'[t].live = subs[t].live /\ subs'[t].quit = subs[t].quit
                        /\ subs'[t].sent = subs[t].sent
                        /\ t # s => subs'[t].received = subs[t].received
    BY ConsumeUpdates
<1>. DEFINE accepted == {t \in Sub : subs[t].live # Nil}
            left == {t \in Sub : subs[t].quit}
            emitted == [t \in Sub |-> subs[t].sent]
            handed == [t \in Sub |-> subs[t].received]
            first == Head(subs[s].buffer)
<1>4. s \in accepted /\ accepted' = accepted BY <1>2, <1>3
<1>5. left' = left /\ (s \in left <=> subs[s].quit) BY <1>3
<1>6. emitted' = emitted /\ emitted[s] = subs[s].sent BY <1>3
<1>7. handed' = [handed EXCEPT ![s] = Append(@, first)] /\ handed[s] = subs[s].received
    BY <1>3
<1>8. State' = State /\ Sent' = Sent /\ Replies' = Replies BY <1>1, SameOps
<1>9. Promise!Latest(s) = IF handed[s] = <<>> THEN 0 ELSE handed[s][Len(handed[s])]
    BY DEF Promise!Latest
<1>10. first \in Promise!Latest(s) + 1 .. emitted[s] /\ (s \notin left => first = Len(handed[s]) + 1)
    <2>1. LET latest == IF subs[s].received = <<>> THEN 0
                        ELSE subs[s].received[Len(subs[s].received)] IN
          /\ first \in latest + 1 .. subs[s].sent
          /\ ~subs[s].quit => first = Len(subs[s].received) + 1
        BY <1>1, FirstHeld
    <2>. HIDE DEF left, emitted, handed, first
    <2>. QED BY <1>5, <1>6, <1>7, <1>9, <2>1
<1>. HIDE DEF first
<1>11. \E n \in Promise!Latest(s) + 1 .. emitted[s] :
          /\ s \notin left => n = Len(handed[s]) + 1
          /\ handed' = [handed EXCEPT ![s] = Append(@, n)]
    BY <1>7, <1>10
<1>. QED
    BY <1>1, <1>4, <1>5, <1>6, <1>8, <1>11
    DEF Promise!Hand, Promise!calls, State, Sent, Replies

(* A subscription ends with its connection.                                *)
LEMMA QuitPromised ==
    ASSUME IInv, NEW s \in Sub, QuitSub(s)
    PROVE  Promise!Leave(s)
<1>. SubsType BY DEF IInv, Types
<1>1. UNCHANGED <<ops, loop>> BY DEF QuitSub
<1>2. \A t \in Sub : /\ subs'[t].live = subs[t].live
                     /\ subs'[t].quit <=> subs[t].quit \/ t = s
                     /\ subs'[t].sent = subs[t].sent /\ subs'[t].received = subs[t].received
    BY QuitUpdates
<1>. DEFINE accepted == {t \in Sub : subs[t].live # Nil}
            left == {t \in Sub : subs[t].quit}
            emitted == [t \in Sub |-> subs[t].sent]
            handed == [t \in Sub |-> subs[t].received]
<1>3. accepted' = accepted BY <1>2
<1>4. left' = left \cup {s} BY <1>2
<1>5. emitted' = emitted /\ handed' = handed BY <1>2
<1>6. State' = State /\ Sent' = Sent /\ Replies' = Replies BY <1>1, SameOps
<1>. QED
    BY <1>1, <1>3, <1>4, <1>5, <1>6
    DEF Promise!Leave, Promise!calls, State, Sent, Replies

(* It ends with a request to the server, which is made once.               *)
LEMMA EnterPromised ==
    ASSUME IInv, SInv, NEW s \in Sub, NEW who \in {"user", "forward"}, EnterOnce(s, who)
    PROVE  Promise!Unsubscribe(s)
<1>. DEFINE op == UnsubscribeOp(s)
<1>. OpsType /\ SubsType BY DEF IInv, Types
<1>1. op \in Op BY DistinctOps
<1>2. /\ UNCHANGED loop /\ subs[s].once = "free" /\ ops' = [ops EXCEPT ![op].pc = "send"]
      /\ who = "user" => subs[s].user = "unsubscribing"
      /\ who = "forward" => subs[s].forward = "failing"
    BY DEF EnterOnce
<1>3. ops[op].pc = "idle" BY <1>2 DEF IInv, QuitOnce
<1>4. subs[s].live # Nil
    <2>1. CASE who = "user" BY <1>2, <2>1 DEF SInv, Asked
    <2>2. CASE who = "forward" BY <1>2, <2>2 DEF IInv, Notifications, Accepted
    <2>. QED BY <2>1, <2>2
<1>5. \A t \in Sub : /\ subs'[t].live = subs[t].live
                     /\ subs'[t].quit <=> subs[t].quit \/ t = s
                     /\ subs'[t].sent = subs[t].sent /\ subs'[t].received = subs[t].received
    BY EnterUpdates
<1>. HIDE DEF op
<1>6. /\ ops'[op].pc = "send" /\ ops'[op].taken = ops[op].taken /\ ops'[op].via = ops[op].via
      /\ \A q \in Op : q # op => ops'[q] = ops[q]
    BY <1>1, <1>2, OpMoves
<1>7. StateOf(op) = "new" /\ StateOf(op)' = "pending" /\ Received(op)' = Received(op)
      /\ (Written(op)' <=> Written(op))
    BY <1>3, <1>6 DEF StateOf, Finished, Received, Written
<1>8. State' = [State EXCEPT ![op] = "pending"] /\ State[op] = "new"
    BY <1>1, <1>6, <1>7, OneCall DEF State
<1>9. Replies' = Replies BY <1>1, <1>6, <1>7, OneCall DEF Replies
<1>10. Sent' = Sent BY <1>1, <1>6, <1>7, OneCall DEF Sent, Written
<1>. DEFINE accepted == {t \in Sub : subs[t].live # Nil}
            left == {t \in Sub : subs[t].quit}
            emitted == [t \in Sub |-> subs[t].sent]
            handed == [t \in Sub |-> subs[t].received]
<1>11. s \in accepted /\ accepted' = accepted BY <1>4, <1>5
<1>12. left' = left \cup {s} BY <1>5
<1>13. emitted' = emitted /\ handed' = handed BY <1>5
<1>. QED
    BY <1>2, <1>8, <1>9, <1>10, <1>11, <1>12, <1>13
    DEF Promise!Unsubscribe, State, Sent, Replies, op

(* Its other steps are invisible: quit was closed when quitOnce was        *)
(* entered.                                                                *)
LEMMA UserPromised ==
    ASSUME IInv, NEW s \in Sub,
           ForwardReturns(s) \/ Unsubscribe(s) \/ LeaveOnce(s) \/ UnsubscribeReturn(s)
    PROVE  UNCHANGED Promise!vars
<1>. SubsType BY DEF IInv, Types
<1>1. UNCHANGED <<ops, loop>>
    BY DEF ForwardReturns, Unsubscribe, LeaveOnce, UnsubscribeReturn, Becomes
<1>2. \A t \in Sub : /\ subs'[t].live = subs[t].live /\ (subs'[t].quit <=> subs[t].quit)
                     /\ subs'[t].sent = subs[t].sent /\ subs'[t].received = subs[t].received
    <2>1. CASE LeaveOnce(s)
        <3>1. subs[s].quit BY <2>1 DEF LeaveOnce, IInv, QuitOnce
        <3>. QED BY <2>1, <3>1, LeaveUpdates
    <2>2. CASE ForwardReturns(s) \/ Unsubscribe(s) \/ UnsubscribeReturn(s)
        BY <2>2, UserUpdates
    <2>. QED BY <2>1, <2>2
<1>3. Streams' = Streams BY <1>2, SameStreams
<1>. QED BY <1>1, <1>3, SameOps, Invisible DEF Closed

-----------------------------------------------------------------------------
(* The client implements RpcSpec. *)

(* A step of the client is a step of RpcSpec, or invisible.                *)
LEMMA StepPromised == IInv /\ SInv /\ [Next]_vars => [Promise!Next]_(Promise!vars)
<1>. SUFFICES ASSUME IInv, SInv, [Next]_vars
              PROVE  Promise!Next \/ UNCHANGED Promise!vars
    OBVIOUS
<1>. DEFINE Goal == Promise!Next \/ UNCHANGED Promise!vars
<1>1. ASSUME NEW op \in Op,
             Promise!Begin(op) \/ Promise!Send(op) \/ Promise!Take(op) \/ Promise!Fail(op)
      PROVE  Goal
    BY <1>1 DEF Promise!Next
<1>2. ASSUME NEW s \in Sub,
             Promise!Emit(s) \/ Promise!Hand(s) \/ Promise!Leave(s) \/ Promise!Unsubscribe(s)
      PROVE  Goal
    BY <1>2 DEF Promise!Next
<1>3. ASSUME \E some \in SUBSET Sub : Promise!Accept(some) PROVE Goal BY <1>3 DEF Promise!Next
<1>4. ASSUME Promise!Close \/ UNCHANGED Promise!vars PROVE Goal BY <1>4 DEF Promise!Next
<1>. HIDE DEF Goal
<1>5. ASSUME NEW op \in Op, Begin(op), \A s \in Sub : op # UnsubscribeOp(s) PROVE Goal
    BY <1>1, <1>5, BeginPromised
<1>6. ASSUME NEW op \in Op, Write(op) PROVE Goal BY <1>1, <1>6, WritePromised
<1>7. ASSUME NEW op \in Op, Receive(op) PROVE Goal BY <1>1, <1>7, ReceivePromised
<1>8. ASSUME NEW op \in Op,
             \/ GivesUp(op) \/ Accept(op) \/ SendError(op) \/ Dial(op) \/ Reconnected(op)
             \/ ReconnectGivesUp(op)
      PROVE  Goal
    BY <1>1, <1>4, <1>8, CallerPromised
<1>9. ASSUME \/ \E id \in AllIds : HandleResponse(id)
             \/ \E item \in disp.batch : Drop(item)
             \/ \E s \in Sub : HandleSubscribed(s) \/ \E n \in 1 .. MaxNote : Deliver(s, n)
      PROVE  Goal
    BY <1>4, <1>9, HandlePromised
<1>10. ASSUME \/ \E k \in Closer : CloserStep(k) \/ TakeClose(k)
              \/ \E c \in Conn :
                    \/ TakeResp(c) \/ TakeErr(c) \/ DrainResp(c) \/ DrainErr(c) \/ AwaitErr(c)
                    \/ NetStep(c)
              \/ TakeSendDone \/ ReadErrDone \/ CloseDone
              \/ UNCHANGED vars
       PROVE  Goal
    BY <1>4, <1>10, LoopPromised
<1>11. ASSUME NEW c \in Conn, NEW ids \in SUBSET net[c].server, Answer(c, ids) PROVE Goal
    BY <1>3, <1>11, AnswerPromised
<1>12. ASSUME NEW s \in Sub, QuitSub(s) PROVE Goal BY <1>2, <1>12, QuitPromised
<1>13. ASSUME NEW s \in Sub, Notify(s) PROVE Goal BY <1>2, <1>13, NotifyPromised
<1>14. ASSUME NEW s \in Sub, SubStep(s) PROVE Goal
    BY <1>2, <1>4, <1>14, ConsumePromised, UserPromised DEF SubStep
<1>15. ASSUME NEW s \in Sub, NEW who \in {"user", "forward"}, EnterOnce(s, who) PROVE Goal
    BY <1>2, <1>15, EnterPromised
<1>16. Goal
    <2>1. CASE \E op \in Op :
                  \/ Begin(op) /\ \A s \in Sub : op # UnsubscribeOp(s)
                  \/ GivesUp(op) \/ Receive(op)
                  \/ Accept(op) \/ Write(op) \/ SendError(op) \/ Dial(op) \/ Reconnected(op)
                  \/ ReconnectGivesUp(op)
        BY <1>5, <1>6, <1>7, <1>8, <2>1
    <2>2. CASE \E c \in Conn : \E ids \in SUBSET net[c].server : Answer(c, ids)
        BY <1>11, <2>2
    <2>3. CASE \E s \in Sub :
                  \/ HandleSubscribed(s) \/ QuitSub(s) \/ SubStep(s) \/ Notify(s)
                  \/ \E n \in 1 .. MaxNote : Deliver(s, n)
                  \/ \E who \in {"user", "forward"} : EnterOnce(s, who)
        BY <1>9, <1>12, <1>13, <1>14, <1>15, <2>3
    <2>. QED BY <1>9, <1>10, <2>1, <2>2, <2>3, Actions
<1>. QED BY <1>16 DEF Goal

(* RpcClient implements RpcSpec: behind a write lock, a loop that matches  *)
(* responses with callers, lost connections and those that replace them, a *)
(* request is written once, before the client has quit, and succeeds with  *)
(* all of its responses or not at all; a subscription succeeds only if the *)
(* server has accepted it, and gets what the server sends in order, none   *)
(* of it twice and none left out until it ends (client.go:444-610,         *)
(* 678-834, 909-983).                                                      *)
THEOREM PromiseKept == Spec => KeepsPromise
<1>1. Init => Promise!Init
    <2>. SUFFICES ASSUME Init PROVE Promise!Init OBVIOUS
    <2>1. \A op \in Op : ops[op].pc = "idle" /\ ops[op].taken = 0 /\ ops[op].via = Nil BY DEF Init
    <2>2. ASSUME NEW op \in Op PROVE StateOf(op) = "new" /\ Received(op) = 0
        <3>1. ops[op].pc = "idle" /\ ops[op].taken = 0 BY <2>1
        <3>. QED BY <3>1 DEF StateOf, Finished, Received
    <2>3. State = [op \in Op |-> "new"] /\ Replies = [op \in Op |-> 0] /\ Sent = {}
        BY <2>1, <2>2 DEF State, Replies, Sent
    <2>4. \A s \in Sub : /\ subs[s].live = Nil /\ subs[s].quit = FALSE /\ subs[s].sent = 0
                         /\ subs[s].received = <<>>
        BY DEF Init
    <2>5. loop = "select" BY DEF Init
    <2>. QED BY <2>3, <2>4, <2>5 DEF Promise!Init, State, Replies, Sent
<1>2. IInv /\ SInv /\ [Next]_vars => [Promise!Next]_(Promise!vars) BY StepPromised
<1>. QED BY <1>1, <1>2, StrongInvariance, PTL DEF Spec, KeepsPromise, Promise!Spec

==============================================================================

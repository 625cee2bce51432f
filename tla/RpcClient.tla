------------------------------ MODULE RpcClient ------------------------------
(***************************************************************************)
(* client/client.go: the JSON-RPC client over a connection that can be     *)
(* lost.  Callers hand their request to the dispatch loop, write it        *)
(* themselves and wait; one goroutine reads the connection; the loop       *)
(* matches responses with callers, feeds notifications to the goroutine of *)
(* their subscription, and replaces the connection when a caller had to    *)
(* dial a new one.  Two transports are left out: HTTP, which shares        *)
(* nothing of this, and stdio, whose Close closes nothing                  *)
(* (client.go:357-359), so that neither what follows on the end of a read  *)
(* nor Close itself works there.  A connection is one of the others, a     *)
(* WebSocket, a Unix socket or a pipe: closing it ends its reads.          *)
(*                                                                         *)
(* The server is external: it may answer what it received in any order and *)
(* in parts.  A message is a set: the elements of a batch are handled one  *)
(* after the other, in an order that is left open.                         *)
(***************************************************************************)
EXTENDS Naturals, Sequences, FiniteSets

CONSTANTS
    Call,        \* the requests of Call and BatchCall
    Size,        \* request -> number of messages in it
    Sub,         \* subscriptions
    Closer,      \* goroutines that call Close
    NoOp,        \* the nil of lastOp
    Cancellable, \* operations whose context may end
    Repeated,    \* ids that the server may answer more than once
    MaxConn,     \* bound: connections that are dialled
    MaxNote,     \* bound: notifications the server sends to a subscription
    MaxBuffer,   \* maxClientSubscriptionBuffer
    Breaks,      \* TRUE if a connection may break, or carry what does not decode
    WriteFaults  \* TRUE if a write may fail on a connection that can be read

SubscribeOp(s) == <<"subscribe", s>>
UnsubscribeOp(s) == <<"unsubscribe", s>>

Op == Call \cup {SubscribeOp(s) : s \in Sub} \cup {UnsubscribeOp(s) : s \in Sub}

(* op.ids, and the capacity of op.resp where it has one. *)
Length(op) == IF op \in Call THEN Size[op] ELSE 1
Ids(op) == {op} \X (1 .. Length(op))
Owner(id) == id[1]
AllIds == UNION {Ids(op) : op \in Op}

Note(s, n) == <<"note", s, n>>
Conn == 1 .. MaxConn
Nil == 0

ASSUME RpcAssumption ==
    /\ NoOp \notin Op
    /\ \A s \in Sub : SubscribeOp(s) \notin Call /\ UnsubscribeOp(s) \notin Call
    /\ Size \in [Call -> Nat \ {0}]
    /\ Cancellable \subseteq Op
    /\ Repeated \subseteq UNION {Ids(op) : op \in Call}
    /\ MaxConn \in Nat \ {0} /\ MaxNote \in Nat /\ MaxBuffer \in Nat \ {0}

VARIABLES
    ops,    \* operation -> pc: "idle", "send" (at the select of send), "write",
            \*   "reconnect" (at the select of reconnect), "wait", "ok", "failed";
            \*   resp: responses in op.resp; taken: responses received from it;
            \*   chan: op.resp is "open", "closed", or closed with op.err set ("error");
            \*   via (history): the connection the operation was written to
    out,    \* conn: writeConn, or Nil; done: what is in sendDone, or "empty";
            \*   dialled: the last connection that was dialled
    loop,   \* dispatch: "select", "handle" (a batch), "await" (the old reader),
            \*   "failing" and "quitting" (in closeRequestOps), "draining", "quit"
    disp,   \* dispatch: lastOp, or NoOp; respWait: its ids; batch: messages not yet
            \*   handled; reading; conn; subs
    net,    \* connection -> reader: "none", "decode", "resp" and "err" (sending on
            \*   readResp or readErr), "exited"; message: what has arrived;
            \*   open: not closed by the client; broken; server: ids it has received
    subs,   \* subscription -> once: quitOnce is "free", held by "user" or "forward",
            \*   or "done"; quit is closed; forward(): "none", "select", "failing"
            \*   (returned an error), "done"; buffer; user: Unsubscribe is "idle",
            \*   "unsubscribing", "done"; live: the connection the server has accepted
            \*   it on, or Nil; sent; received (history)
    closer  \* Close: "idle", "closing", "waiting", "done"

vars == <<ops, out, loop, disp, net, subs, closer>>

Init ==
    /\ ops = [op \in Op |-> [pc |-> "idle", resp |-> 0, taken |-> 0, chan |-> "open", via |-> Nil]]
    /\ out = [conn |-> 1, done |-> "empty", dialled |-> 1]
    /\ loop = "select"
    /\ disp = [lastOp |-> NoOp, respWait |-> {}, batch |-> {}, reading |-> TRUE, conn |-> 1,
               subs |-> {}]
    /\ net = [c \in Conn |-> [reader |-> IF c = 1 THEN "decode" ELSE "none", message |-> {},
                              open |-> c = 1, broken |-> FALSE, server |-> {}]]
    /\ subs = [s \in Sub |-> [once |-> "free", quit |-> FALSE, forward |-> "none",
                              buffer |-> <<>>, user |-> "idle", live |-> Nil, sent |-> 0,
                              received |-> <<>>]]
    /\ closer = [k \in Closer |-> "idle"]

-----------------------------------------------------------------------------
(* Callers: CallContext, BatchCallContext and Subscribe up to send. *)
Goes(op, pc) ==
    /\ ops' = [ops EXCEPT ![op].pc = pc]
    /\ UNCHANGED <<out, loop, disp, net, subs, closer>>

Begin(op) == ops[op].pc = "idle" /\ Goes(op, "send")

(* The context ends at a select of send or wait.  The operation stays      *)
(* registered with dispatch.                                               *)
ContextEnds(op) == ops[op].pc \in {"send", "wait"} /\ Goes(op, "failed")

(* send: dispatch takes the operation and with it the send lock is held. *)
SendUnlocked == TRUE

SendFree == disp.lastOp = NoOp

Accept(op) ==
    /\ loop = "select"
    /\ SendFree
    /\ ops[op].pc = "send"
    /\ ops' = [ops EXCEPT ![op].pc = "write"]
    /\ disp' = [disp EXCEPT !.lastOp = op, !.respWait = @ \cup Ids(op)]
    /\ UNCHANGED <<out, loop, net, subs, closer>>

SendGivesUp(op) == ops[op].pc = "send" /\ loop = "quit" /\ Goes(op, "failed")

(* write, and sendDone <- nil.  What is written to a lost connection is    *)
(* lost with it.                                                           *)
Write(op) ==
    LET c == out.conn IN
    /\ ops[op].pc = "write"
    /\ c # Nil /\ net[c].open
    /\ out.done = "empty"
    /\ ops' = [ops EXCEPT ![op].pc = "wait", ![op].via = c]
    /\ out' = [out EXCEPT !.done = "nil"]
    /\ net' = [net EXCEPT ![c].server = IF net[c].broken THEN @ ELSE @ \cup Ids(op)]
    /\ UNCHANGED <<loop, disp, subs, closer>>

(* sendDone <- err. *)
SendFails(op, conn) ==
    /\ out.done = "empty"
    /\ ops' = [ops EXCEPT ![op].pc = "failed"]
    /\ out' = [out EXCEPT !.done = "error", !.conn = conn]
    /\ UNCHANGED <<loop, disp, subs, closer>>

(* The write fails: the connection was closed by dispatch, or the error    *)
(* reaches the writer before the reader (a reset, or the deadline of the   *)
(* caller's context).                                                      *)
WriteFails(op) ==
    /\ ops[op].pc = "write"
    /\ out.conn # Nil
    /\ ~net[out.conn].open \/ WriteFaults
    /\ SendFails(op, Nil)
    /\ UNCHANGED net

(* reconnect: the previous write failed. *)
Dial(op) ==
    /\ ops[op].pc = "write"
    /\ out.conn = Nil
    /\ out.dialled < MaxConn
    /\ ops' = [ops EXCEPT ![op].pc = "reconnect"]
    /\ out' = [out EXCEPT !.dialled = @ + 1]
    /\ net' = [net EXCEPT ![out'.dialled].open = TRUE]
    /\ UNCHANGED <<loop, disp, subs, closer>>

DialFails(op) ==
    /\ ops[op].pc = "write"
    /\ out.conn = Nil
    /\ SendFails(op, Nil)
    /\ UNCHANGED net

(* reconnected <- newconn: dispatch starts the new reader, unless the old  *)
(* one is still there: it closes its connection and waits for its error.   *)
NoReaderLeft == FALSE

OldReader == disp.reading

Reconnected(op) ==
    /\ ops[op].pc = "reconnect"
    /\ loop = "select"
    /\ ops' = [ops EXCEPT ![op].pc = "write"]
    /\ out' = [out EXCEPT !.conn = out.dialled]
    /\ IF OldReader
       THEN /\ loop' = "await"
            /\ net' = [net EXCEPT ![disp.conn].open = FALSE]
            /\ UNCHANGED disp
       ELSE /\ net' = [net EXCEPT ![out.dialled].reader = "decode"]
            /\ disp' = [disp EXCEPT !.reading = TRUE, !.conn = out.dialled]
            /\ UNCHANGED loop
    /\ UNCHANGED <<subs, closer>>

ReconnectGivesUp(op) ==
    /\ ops[op].pc = "reconnect"
    /\ loop = "quit"
    /\ SendFails(op, Nil)
    /\ net' = [net EXCEPT ![out.dialled].open = FALSE]

(* wait: a response, or the closed channel. *)
Receive(op) ==
    /\ ops[op].pc = "wait"
    /\ ops[op].resp > 0
    /\ ops' = [ops EXCEPT ![op].resp = @ - 1, ![op].taken = @ + 1,
                          ![op].pc = CASE ops[op].chan = "error" -> "failed"
                                       [] ops[op].taken + 1 = Length(op) -> "ok"
                                       [] OTHER -> "wait"]
    /\ UNCHANGED <<out, loop, disp, net, subs, closer>>

ClosedIsSuccess(op) ==
    /\ ops[op].pc = "wait"
    /\ ops[op].resp = 0
    /\ ops[op].chan # "open"
    /\ Goes(op, "ok")

ReceiveClosed(op) ==
    /\ ops[op].pc = "wait"
    /\ ops[op].resp = 0
    /\ ops[op].chan # "open"
    /\ Goes(op, IF ops[op].chan = "error" THEN "failed" ELSE "ok")

(* Close. *)
CloserGoes(k, to) ==
    /\ closer' = [closer EXCEPT ![k] = to]
    /\ UNCHANGED <<ops, out, loop, disp, net, subs>>

CloseCall(k) == closer[k] = "idle" /\ CloserGoes(k, "closing")

CloseReturn(k) == closer[k] \in {"closing", "waiting"} /\ loop = "quit" /\ CloserGoes(k, "done")

-----------------------------------------------------------------------------
(* dispatch. *)

(* sendDone: a failed operation is deregistered, the lock is released. *)
TakeSendDone ==
    /\ loop = "select"
    /\ out.done # "empty"
    /\ disp' = [disp EXCEPT !.lastOp = NoOp,
                            !.respWait = IF out.done = "error" THEN @ \ Ids(disp.lastOp) ELSE @]
    /\ out' = [out EXCEPT !.done = "empty"]
    /\ UNCHANGED <<ops, loop, net, subs, closer>>

TakeResp(c) ==
    /\ loop = "select"
    /\ net[c].reader = "resp"
    /\ loop' = "handle"
    /\ disp' = [disp EXCEPT !.batch = net[c].message]
    /\ net' = [net EXCEPT ![c].reader = "decode", ![c].message = {}]
    /\ UNCHANGED <<ops, out, subs, closer>>

(* The loop goes back to its select after the last message of the batch. *)
Handled(item, respWait, running) ==
    /\ loop = "handle"
    /\ item \in disp.batch
    /\ disp' = [disp EXCEPT !.batch = @ \ {item}, !.respWait = respWait, !.subs = running]
    /\ loop' = IF disp'.batch = {} THEN "select" ELSE "handle"
    /\ UNCHANGED <<out, net, closer>>

(* handleResponse.  op.resp has room for the responses of the operation;   *)
(* the send would block if it were full.                                   *)
RespWaitKeeping(id) == disp.respWait

RespWaitWithout(id) == disp.respWait \ {id}

HandleResponse(id) ==
    /\ id \in disp.respWait
    /\ Owner(id) \notin {SubscribeOp(s) : s \in Sub}
    /\ ops[Owner(id)].resp < Length(Owner(id))
    /\ ops' = [ops EXCEPT ![Owner(id)].resp = @ + 1]
    /\ Handled(id, RespWaitWithout(id), disp.subs)
    /\ UNCHANGED subs

(* ... of a subscription: the goroutine of start() begins, or the server's *)
(* error goes to op.err; op.resp is closed either way.                     *)
HandleSubscribed(s) ==
    LET id == <<SubscribeOp(s), 1>>
        ok == subs[s].live # Nil IN
    /\ id \in disp.respWait
    /\ ops' = [ops EXCEPT ![SubscribeOp(s)].chan = IF ok THEN "closed" ELSE "error"]
    /\ subs' = [subs EXCEPT ![s].forward = IF ok THEN "select" ELSE @]
    /\ Handled(id, RespWaitWithout(id), IF ok THEN disp.subs \cup {s} ELSE disp.subs)

NotBuffered(s, n) == subs[s].buffer

Buffered(s, n) == Append(subs[s].buffer, n)

DeliverNewest(s, n) ==
    /\ s \in disp.subs
    /\ subs[s].forward = "select"
    /\ subs' = [subs EXCEPT ![s].buffer =
           IF Len(@) < MaxBuffer THEN Buffered(s, n) ELSE Append(Tail(@), n)]
    /\ Handled(Note(s, n), disp.respWait, disp.subs)
    /\ UNCHANGED ops

(* deliver: forward() takes the notification, and fails if it does not     *)
(* decode or the buffer is full.                                           *)
Deliver(s, n) ==
    /\ s \in disp.subs
    /\ subs[s].forward = "select"
    /\ \/ subs' = [subs EXCEPT ![s].forward = "failing"]
       \/ /\ Len(subs[s].buffer) < MaxBuffer
          /\ subs' = [subs EXCEPT ![s].buffer = Buffered(s, n)]
    /\ Handled(Note(s, n), disp.respWait, disp.subs)
    /\ UNCHANGED ops

(* An unsolicited response, a notification nobody subscribed to, or one of *)
(* a subscription that has quit.                                           *)
Drop(item) ==
    /\ item \notin disp.respWait
    /\ \A s \in disp.subs, n \in 1 .. MaxNote : item = Note(s, n) => subs[s].quit
    /\ Handled(item, disp.respWait, disp.subs)
    /\ UNCHANGED <<ops, subs>>

(* closeRequestOps, first loop: every waiting operation gets the error. *)
ForgetOps == UNCHANGED ops

CloseOps ==
    LET waiting == {Owner(id) : id \in disp.respWait} IN
    ops' = [op \in Op |-> IF op \in waiting THEN [ops[op] EXCEPT !.chan = "error"] ELSE ops[op]]

(* readErr. *)
TakeErr(c) ==
    /\ loop = "select"
    /\ net[c].reader = "err"
    /\ CloseOps
    /\ loop' = "failing"
    /\ disp' = [disp EXCEPT !.respWait = {}]
    /\ net' = [net EXCEPT ![c].reader = "exited"]
    /\ UNCHANGED <<out, subs, closer>>

(* close. *)
TakeClose(k) ==
    /\ loop = "select"
    /\ closer[k] = "closing"
    /\ CloseOps
    /\ loop' = "quitting"
    /\ disp' = [disp EXCEPT !.respWait = {}]
    /\ closer' = [closer EXCEPT ![k] = "waiting"]
    /\ UNCHANGED <<out, net, subs>>

(* closeRequestOps, second loop: quitWithError(err, false) of every        *)
(* subscription waits for whoever is inside its quitOnce.                  *)
QuitSub(s) ==
    /\ loop \in {"failing", "quitting"}
    /\ s \in disp.subs
    /\ subs[s].once \in {"free", "done"}
    /\ disp' = [disp EXCEPT !.subs = @ \ {s}]
    /\ subs' = [subs EXCEPT ![s].once = "done", ![s].quit = TRUE]
    /\ UNCHANGED <<ops, out, loop, net, closer>>

(* conn.Close(), when closeRequestOps has returned. *)
ConnLeftOpen == net

ConnClosed == [net EXCEPT ![disp.conn].open = FALSE]

ReadErrDone ==
    /\ loop = "failing"
    /\ disp.subs = {}
    /\ net' = ConnClosed
    /\ loop' = "select"
    /\ disp' = [disp EXCEPT !.reading = FALSE]
    /\ UNCHANGED <<ops, out, subs, closer>>

CloseDone ==
    /\ loop = "quitting"
    /\ disp.subs = {}
    /\ net' = ConnClosed
    /\ loop' = IF disp.reading THEN "draining" ELSE "quit"
    /\ UNCHANGED <<ops, out, disp, subs, closer>>

(* The deferred loop empties the read channels until the reader is dead. *)
DrainResp(c) ==
    /\ loop = "draining"
    /\ net[c].reader = "resp"
    /\ net' = [net EXCEPT ![c].reader = "decode", ![c].message = {}]
    /\ UNCHANGED <<ops, out, loop, disp, subs, closer>>

DrainErr(c) ==
    /\ loop = "draining"
    /\ net[c].reader = "err"
    /\ net' = [net EXCEPT ![c].reader = "exited"]
    /\ loop' = "quit"
    /\ UNCHANGED <<ops, out, disp, subs, closer>>

(* The end of the old reader, in the reconnected case. *)
AwaitErr(c) ==
    /\ loop = "await"
    /\ net[c].reader = "err"
    /\ net' = [net EXCEPT ![c].reader = "exited", ![out.dialled].reader = "decode"]
    /\ loop' = "select"
    /\ disp' = [disp EXCEPT !.reading = TRUE, !.conn = out.dialled]
    /\ UNCHANGED <<ops, out, subs, closer>>

-----------------------------------------------------------------------------
(* read, and the network. *)
Reads(c, to) ==
    /\ net[c].reader = "decode"
    /\ net' = [net EXCEPT ![c].reader = to]
    /\ UNCHANGED <<ops, out, loop, disp, subs, closer>>

Decode(c) == net[c].message # {} /\ Reads(c, "resp")

Usable(c) == net[c].open /\ ~net[c].broken

ReadFails(c) == ~Usable(c) /\ Reads(c, "err")

(* What the server has sent is no message: the connection is sound, and    *)
(* its reader gives up all the same.                                       *)
DecodeFails(c) == Breaks /\ Usable(c) /\ Reads(c, "err")

Break(c) ==
    /\ Breaks
    /\ Usable(c)
    /\ net' = [net EXCEPT ![c].broken = TRUE]
    /\ UNCHANGED <<ops, out, loop, disp, subs, closer>>

(* A response of the server to requests it has received: in parts and in   *)
(* any order, some of them again.  It accepts or rejects a subscription    *)
(* once.                                                                   *)
Answer(c, ids) ==
    /\ Usable(c)
    /\ net[c].message = {}
    /\ ids # {}
    /\ net' = [net EXCEPT ![c].message = ids, ![c].server = (@ \ ids) \cup (ids \cap Repeated)]
    /\ \E accepted \in SUBSET {s \in Sub : <<SubscribeOp(s), 1>> \in ids} :
           subs' = [s \in Sub |-> IF s \in accepted THEN [subs[s] EXCEPT !.live = c] ELSE subs[s]]
    /\ UNCHANGED <<ops, out, loop, disp, closer>>

Notify(s) ==
    LET c == subs[s].live IN
    /\ c # Nil /\ Usable(c)
    /\ net[c].message = {}
    /\ subs[s].sent < MaxNote
    /\ subs' = [subs EXCEPT ![s].sent = @ + 1]
    /\ net' = [net EXCEPT ![c].message = {Note(s, subs'[s].sent)}]
    /\ UNCHANGED <<ops, out, loop, disp, closer>>

-----------------------------------------------------------------------------
(* Subscriptions. *)

Becomes(s, sub) ==
    /\ subs' = [subs EXCEPT ![s] = sub]
    /\ UNCHANGED <<ops, out, loop, disp, net, closer>>

(* forward gives the subscriber the first notification it holds. *)
Consume(s) ==
    /\ subs[s].forward = "select"
    /\ subs[s].buffer # <<>>
    /\ Becomes(s, [subs[s] EXCEPT !.received = Append(@, Head(subs[s].buffer)), !.buffer = Tail(@)])

(* forward returns: its quit was closed, or it failed and somebody else    *)
(* has been through quitOnce.                                              *)
ForwardReturns(s) ==
    /\ \/ subs[s].forward = "select" /\ subs[s].quit
       \/ subs[s].forward = "failing" /\ subs[s].once = "done"
    /\ Becomes(s, [subs[s] EXCEPT !.forward = "done"])

Unsubscribe(s) ==
    /\ subs[s].user = "idle"
    /\ ops[SubscribeOp(s)].pc = "ok"
    /\ Becomes(s, [subs[s] EXCEPT !.user = "unsubscribing"])

(* quitWithError, unsubscribeServer set: quit is closed before the call,   *)
(* since dispatch may be blocked in deliver.                               *)
QuitLater(s) == subs[s].quit

QuitFirst(s) == TRUE

EnterOnce(s, who) ==
    /\ subs[s].once = "free"
    /\ \/ who = "user" /\ subs[s].user = "unsubscribing"
       \/ who = "forward" /\ subs[s].forward = "failing"
    /\ subs' = [subs EXCEPT ![s].once = who, ![s].quit = QuitFirst(s)]
    /\ ops' = [ops EXCEPT ![UnsubscribeOp(s)].pc = "send"]
    /\ UNCHANGED <<out, loop, disp, net, closer>>

(* requestUnsubscribe has returned, with or without an error. *)
LeaveOnce(s) ==
    /\ subs[s].once \in {"user", "forward"}
    /\ ops[UnsubscribeOp(s)].pc \in {"ok", "failed"}
    /\ Becomes(s, [subs[s] EXCEPT !.once = "done", !.quit = TRUE,
                       !.forward = IF subs[s].once = "forward" THEN "done" ELSE @])

UnsubscribeReturn(s) ==
    /\ subs[s].user = "unsubscribing"
    /\ subs[s].once = "done"
    /\ Becomes(s, [subs[s] EXCEPT !.user = "done"])

-----------------------------------------------------------------------------
Caller ==
    \/ \E op \in Op :
           \/ SendGivesUp(op) \/ Write(op) \/ WriteFails(op) \/ DialFails(op)
           \/ ReconnectGivesUp(op) \/ Receive(op) \/ ReceiveClosed(op)
    \/ \E k \in Closer : CloseReturn(k)

HandleItem ==
    \/ \E id \in AllIds : HandleResponse(id)
    \/ \E s \in Sub : HandleSubscribed(s) \/ \E n \in 1 .. MaxNote : Deliver(s, n)
    \/ \E item \in disp.batch : Drop(item)

Dispatch ==
    \/ \E op \in Op : Accept(op) \/ Reconnected(op)
    \/ TakeSendDone
    \/ \E c \in Conn : TakeResp(c) \/ TakeErr(c) \/ DrainResp(c) \/ DrainErr(c) \/ AwaitErr(c)
    \/ HandleItem
    \/ \E k \in Closer : TakeClose(k)
    \/ \E s \in Sub : QuitSub(s)
    \/ ReadErrDone \/ CloseDone

Reader == \E c \in Conn : Decode(c) \/ ReadFails(c)

Server == \E c \in Conn : \E ids \in SUBSET net[c].server : Answer(c, ids)

Subscription ==
    \E s \in Sub :
        \/ ForwardReturns(s) \/ LeaveOnce(s) \/ UnsubscribeReturn(s)
        \/ EnterOnce(s, "user") \/ EnterOnce(s, "forward")

(* What nobody has to do: call, subscribe, unsubscribe, consume, close,    *)
(* cancel, dial with success, notify, lose a connection or garble it.      *)
Free ==
    \/ \E op \in Call \cup {SubscribeOp(s) : s \in Sub} : Begin(op)
    \/ \E op \in Cancellable : ContextEnds(op)
    \/ \E op \in Op : Dial(op)
    \/ \E k \in Closer : CloseCall(k)
    \/ \E c \in Conn : Break(c) \/ DecodeFails(c)
    \/ \E s \in Sub : Notify(s) \/ Consume(s) \/ Unsubscribe(s)

Obliged == Caller \/ Dispatch \/ Reader \/ Server \/ Subscription

Next == Obliged \/ Free

Spec == Init /\ [][Next]_vars

(* A goroutine that can run does, and the server answers on a connection   *)
(* that stays.  Without repeated answers every behaviour is finite, so     *)
(* that it is enough that somebody moves as long as anyone can: each gets  *)
(* its turn.                                                               *)
FairSpec == Spec /\ WF_vars(Obliged)

-----------------------------------------------------------------------------
Finished == {"ok", "failed"}

TypeOK ==
    /\ \A op \in Op : LET o == ops[op] IN
          /\ o.pc \in {"idle", "send", "write", "reconnect", "wait"} \cup Finished
          /\ o.taken + o.resp <= Length(op)
          /\ o.chan \in {"open", "closed", "error"} /\ o.via \in Conn \cup {Nil}
    /\ out.conn \in Conn \cup {Nil} /\ out.dialled \in Conn
    /\ out.done \in {"empty", "nil", "error"}
    /\ out.done # "empty" => disp.lastOp # NoOp
    /\ loop \in {"select", "handle", "await", "failing", "quitting", "draining", "quit"}
    /\ disp.lastOp \in Op \cup {NoOp} /\ disp.respWait \subseteq AllIds
    /\ loop = "handle" <=> disp.batch # {}
    /\ disp.reading \in BOOLEAN /\ disp.conn \in 1 .. out.dialled /\ disp.subs \subseteq Sub
    /\ \A c \in Conn :
          /\ net[c].reader \in {"none", "decode", "resp", "err", "exited"}
          /\ net[c].reader = "resp" => net[c].message # {}
          /\ net[c].open => c <= out.dialled
          /\ net[c].broken \in BOOLEAN /\ net[c].server \subseteq AllIds
    /\ \A s \in Sub :
          /\ subs[s].once \in {"free", "user", "forward", "done"} /\ subs[s].quit \in BOOLEAN
          /\ subs[s].forward \in {"none", "select", "failing", "done"}
          /\ Len(subs[s].buffer) <= MaxBuffer /\ subs[s].sent \in 0 .. MaxNote
          /\ subs[s].user \in {"idle", "unsubscribing", "done"}
          /\ subs[s].live \in Conn \cup {Nil}
    /\ closer \in [Closer -> {"idle", "closing", "waiting", "done"}]

(* "writeConn is only safe to access outside dispatch, with the write lock *)
(* held" (client.go:97-99): whoever writes or replaces the connection is   *)
(* the one operation dispatch has accepted.                                *)
OneWriter == \A op \in Op : ops[op].pc \in {"write", "reconnect"} => op = disp.lastOp

(* At most one read loop is alive: the error of an older one would be      *)
(* taken for the end of the new connection (client.go:738-745).            *)
OneReader == Cardinality({c \in Conn : net[c].reader \in {"decode", "resp", "err"}}) <= 1

(* A connection has one writer and one reader at a time, across lost       *)
(* connections and replacements (client.go:97-99, 736-751).                *)
ConnectionNotShared == OneWriter /\ OneReader

(* dispatch never sends to a full or a closed op.resp, whatever the server *)
(* answers, repeats or sends after the caller has gone: it would block or  *)
(* panic, and all callers with it (client.go:116-117, 819, 776-784).       *)
NeverBlocksOnCaller ==
    \A id \in disp.respWait :
        ops[Owner(id)].chan = "open" /\ ops[Owner(id)].resp < Length(Owner(id))

(* A caller that waits is not forgotten: every response it still expects   *)
(* is in its channel or registered, or its channel is closed, through lost *)
(* connections and failed writes of others (client.go:126, 756-787).       *)
NoCallerForgotten ==
    \A op \in Op : ops[op].pc = "wait" /\ ops[op].chan = "open" =>
        ops[op].taken + ops[op].resp + Cardinality(Ids(op) \cap disp.respWait) = Length(op)

(* A connection that was replaced or failed is closed: what is open is the *)
(* connection of dispatch, or one that is being handed over, and a client  *)
(* that has quit leaves none behind (client.go:665-672, 690, 733, 740).    *)
NoConnectionLeaks ==
    \A c \in Conn : net[c].open =>
        \/ c = disp.conn /\ loop \notin {"draining", "quit"}
        \/ c = out.dialled /\ (loop = "await" \/ \E op \in Op : ops[op].pc = "reconnect")

(* "When the read loop goes down, it will signal all other current         *)
(* operations" (client.go:759-760): as long as a write does not fail       *)
(* before the reader has, nobody waits for a response, and no subscriber   *)
(* for a notification, on a connection whose reader has gone.  (Otherwise  *)
(* line 741 takes that reader's error and tells nobody.)                   *)
Signalled ==
    loop = "select" /\ ~WriteFaults =>
        /\ \A op \in Op : ops[op].pc = "wait" /\ ops[op].chan = "open" =>
              ops[op].resp > 0 \/ net[ops[op].via].reader # "exited"
        /\ \A s \in Sub : subs[s].forward = "select" /\ ~subs[s].quit =>
              net[subs[s].live].reader # "exited"

(* A connection has one writer and one reader, and is closed when another  *)
(* takes its place or it fails (client.go:97-99, 665-672, 690, 733-751).   *)
ConnectionsKept == ConnectionNotShared /\ NoConnectionLeaks

(* A message that arrives on the connection will be taken by dispatch.     *)
Listens(c) == loop \in {"select", "handle"} /\ net[c].reader \in {"decode", "resp"}

(* Until a subscription quits, its subscriber gets the notifications in    *)
(* the order they were sent and without a gap: what is with the subscriber *)
(* or in the buffer, then what is on its way through dispatch or a reader  *)
(* that dispatch listens to.  As long as it listens to the connection of   *)
(* the subscription, that is all the server has sent; a reader that has    *)
(* given up takes what had arrived with it (client.go:738-745, 934-983).   *)
NotesInOrder ==
    \A s \in Sub : subs[s].forward = "select" /\ ~subs[s].quit =>
        LET got == subs[s].received \o subs[s].buffer
            underway == {n \in 1 .. MaxNote :
                            \/ Note(s, n) \in disp.batch
                            \/ \E c \in Conn : Listens(c) /\ Note(s, n) \in net[c].message}
        IN /\ got = [n \in 1 .. Len(got) |-> n]
           /\ \E last \in Len(got) .. subs[s].sent :
                 /\ underway = Len(got) + 1 .. last
                 /\ Listens(subs[s].live) => last = subs[s].sent

(* dispatch is not left alone in deliver: when forward() no longer takes   *)
(* notifications, quit is closed or nobody is yet inside quitOnce, so that *)
(* forward goes in and closes it (client.go:916-945).                      *)
DeliverEnds ==
    \A s \in disp.subs : subs[s].forward # "select" => subs[s].quit \/ subs[s].once = "free"

(* No caller keeps dispatch in its send to op.resp, and no subscriber in   *)
(* deliver: there is room for a response, and a notification is taken or   *)
(* its subscription quits (client.go:819, 936).  That dispatch can wait    *)
(* for a subscription in quitOnce is another matter: Entangled.            *)
DispatchNotBlocked == NeverBlocksOnCaller /\ DeliverEnds

(* dispatch waits for a quitOnce whose holder waits for dispatch to take   *)
(* its unsubscribe request: neither moves again.                           *)
Entangled ==
    /\ loop \in {"failing", "quitting"}
    /\ \E s \in disp.subs :
          subs[s].once \in {"user", "forward"} /\ ops[UnsubscribeOp(s)].pc = "send"

(* A request and its responses as RpcSpec sees them: it is pending wherever *)
(* it is between its caller and the wire, and subscribing has one response *)
(* when it succeeds.                                                       *)
StateOf(op) ==
    CASE ops[op].pc = "idle" -> "new"
      [] ops[op].pc \in Finished -> ops[op].pc
      [] OTHER -> "pending"

Received(op) ==
    IF op \in {SubscribeOp(s) : s \in Sub}
    THEN IF ops[op].pc = "ok" THEN 1 ELSE 0
    ELSE ops[op].taken

Promise == INSTANCE RpcSpec WITH
              Request <- Op,
              Asks <- [s \in Sub |-> SubscribeOp(s)],
              Drops <- [s \in Sub |-> UnsubscribeOp(s)],
              Answers <- [op \in Op |-> Length(op)],
              state <- [op \in Op |-> StateOf(op)],
              sent <- {op \in Op : ops[op].via # Nil},
              answers <- [op \in Op |-> Received(op)],
              accepted <- {s \in Sub : subs[s].live # Nil},
              left <- {s \in Sub : subs[s].quit},
              emitted <- [s \in Sub |-> subs[s].sent],
              got <- [s \in Sub |-> subs[s].received],
              closed <- loop = "quit"

(* Behind a write lock, a loop that matches responses with callers, lost   *)
(* connections and those that replace them, a request succeeds with all of *)
(* its responses or not at all and is never written again; and a           *)
(* subscriber that is leaving still gets nothing twice or out of order     *)
(* (client.go:444-610, 678-834, 934-983).                                  *)
KeepsPromise == Promise!Spec

(* Short of that, and as long as a write does not fail before the reader   *)
(* of its connection has, everything that was begun returns.               *)

(* Call, BatchCall and Subscribe return, over breaks and reconnections     *)
(* (client.go:444-610).                                                    *)
CallsReturn ==
    \A op \in Op : ops[op].pc = "send" ~> ops[op].pc \in Finished \/ Entangled

(* Close returns, with a reader at work and responses nobody takes         *)
(* (client.go:428-436, 687-701).                                           *)
CloseReturns == \A k \in Closer : closer[k] = "closing" ~> closer[k] = "done" \/ Entangled

(* Unsubscribe returns, also when the connection ends under its request to *)
(* the server (client.go:909-931).                                         *)
UnsubscribeReturns ==
    \A s \in Sub : subs[s].user = "unsubscribing" ~> subs[s].user = "done" \/ Entangled

(* What the repository says and the code does not do. *)

(* "Close closes the client, aborting any in-flight requests"              *)
(* (client.go:427).                                                        *)
CloseCloses == \A k \in Closer : closer[k] = "closing" ~> closer[k] = "done"
=============================================================================

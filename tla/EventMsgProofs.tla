--------------------------- MODULE EventMsgProofs ---------------------------
(***************************************************************************)
(* Proofs about EventMsg, for every set of subscriptions, every capacity   *)
(* of the channels and every number of events, with and without a Stop:    *)
(* its types, the order and completeness of what a subscriber gets, the    *)
(* silence after Unsubscribe, and that it implements EventSpec.            *)
(***************************************************************************)
EXTENDS EventMsg, SequenceTheorems, TLAPS

-----------------------------------------------------------------------------
(* Runs of consecutive numbers, which is what the channels hold. *)

(* A run is a sequence of naturals of the length its ends give.            *)
LEMMA NumbersSeq ==
    ASSUME NEW a \in Nat, NEW b \in Nat, a <= b
    PROVE  /\ Numbers(a, b) \in Seq(Nat)
           /\ Len(Numbers(a, b)) = b - a
           /\ \A i \in 1 .. b - a : Numbers(a, b)[i] = a + i
<1>1. b - a \in Nat
  OBVIOUS
<1>2. Numbers(a, b) \in [1 .. b - a -> Nat]
  BY DEF Numbers
<1> QED
  BY <1>1, <1>2, SeqDef DEF Numbers

(* An empty run is the empty sequence. *)
LEMMA NumbersEmpty ==
    ASSUME NEW a \in Nat
    PROVE  Numbers(a, a) = <<>>
<1>1. Numbers(a, a) \in Seq(Nat) /\ Len(Numbers(a, a)) = 0
  BY NumbersSeq
<1> QED
  BY <1>1, EmptySeq

(* Appending the next number lengthens a run. *)
LEMMA NumbersAppend ==
    ASSUME NEW a \in Nat, NEW b \in Nat, a <= b
    PROVE  Append(Numbers(a, b), b + 1) = Numbers(a, b + 1)
<1> DEFINE s == Append(Numbers(a, b), b + 1)
           t == Numbers(a, b + 1)
<1>1. /\ s \in Seq(Nat) /\ Len(s) = b - a + 1
      /\ \A i \in 1 .. b - a : s[i] = a + i
      /\ s[b - a + 1] = b + 1
  <2>1. /\ Numbers(a, b) \in Seq(Nat) /\ Len(Numbers(a, b)) = b - a
        /\ \A i \in 1 .. b - a : Numbers(a, b)[i] = a + i
    BY NumbersSeq
  <2>2. b + 1 \in Nat
    OBVIOUS
  <2> HIDE DEF t
  <2>3. /\ s \in Seq(Nat) /\ Len(s) = Len(Numbers(a, b)) + 1
        /\ \A i \in 1 .. Len(Numbers(a, b)) : s[i] = Numbers(a, b)[i]
        /\ s[Len(Numbers(a, b)) + 1] = b + 1
    BY <2>1, <2>2, AppendProperties
  <2> HIDE DEF s
  <2> QED
    BY <2>1, <2>3
<1>2. /\ t \in Seq(Nat) /\ Len(t) = b + 1 - a
      /\ \A i \in 1 .. b + 1 - a : t[i] = a + i
  BY NumbersSeq
<1> HIDE DEF s, t
<1>3. Len(s) = Len(t) /\ \A i \in 1 .. Len(s) : s[i] = t[i]
  BY <1>1, <1>2
<1>4. s = t
  BY <1>1, <1>2, <1>3, SeqEqual
<1> QED
  BY <1>4 DEF s, t

(* The first number of a run is the one after its lower end, and the rest  *)
(* is the run from there.                                                  *)
LEMMA NumbersTail ==
    ASSUME NEW a \in Nat, NEW b \in Nat, a < b
    PROVE  /\ Numbers(a, b) # <<>>
           /\ Head(Numbers(a, b)) = a + 1
           /\ Tail(Numbers(a, b)) = Numbers(a + 1, b)
<1> DEFINE s == Numbers(a, b)
           t == Numbers(a + 1, b)
<1>1. /\ s \in Seq(Nat) /\ Len(s) = b - a
      /\ \A i \in 1 .. b - a : s[i] = a + i
  BY NumbersSeq
<1>2. /\ t \in Seq(Nat) /\ Len(t) = b - (a + 1)
      /\ \A i \in 1 .. b - (a + 1) : t[i] = a + 1 + i
  BY NumbersSeq
<1> HIDE DEF s, t
<1>3. s # <<>>
  BY <1>1, EmptySeq
<1>4. Head(s) = a + 1
  BY <1>1, <1>3
<1>5. /\ Tail(s) \in Seq(Nat) /\ Len(Tail(s)) = Len(s) - 1
      /\ \A i \in 1 .. Len(Tail(s)) : Tail(s)[i] = s[i + 1]
  BY <1>1, <1>3, HeadTailProperties
<1>6. Len(Tail(s)) = Len(t) /\ \A i \in 1 .. Len(t) : Tail(s)[i] = t[i]
  BY <1>1, <1>2, <1>5
<1>7. Tail(s) = t
  BY <1>2, <1>5, <1>6, SeqEqual
<1> QED
  BY <1>3, <1>4, <1>7 DEF s, t

(* Passing the first element of a queue on to the sequence before it does  *)
(* not change the two together.                                            *)
LEMMA MoveHead ==
    ASSUME NEW S, NEW s \in Seq(S), NEW t \in Seq(S), t # <<>>
    PROVE  Append(s, Head(t)) \o Tail(t) = s \o t
<1> DEFINE l == Append(s, Head(t)) \o Tail(t)
           r == s \o t
<1>1. /\ Head(t) \in S /\ Head(t) = t[1] /\ Len(t) \in Nat \ {0} /\ Len(s) \in Nat
      /\ Tail(t) \in Seq(S) /\ Len(Tail(t)) = Len(t) - 1
      /\ \A i \in 1 .. Len(Tail(t)) : Tail(t)[i] = t[i + 1]
  BY HeadTailProperties, EmptySeq
<1>2. /\ Append(s, Head(t)) \in Seq(S) /\ Len(Append(s, Head(t))) = Len(s) + 1
      /\ \A i \in 1 .. Len(s) : Append(s, Head(t))[i] = s[i]
      /\ Append(s, Head(t))[Len(s) + 1] = t[1]
  BY <1>1, AppendProperties
<1>3. /\ l \in Seq(S) /\ Len(l) = Len(s) + Len(t)
      /\ \A i \in 1 .. Len(s) + Len(t) :
            l[i] = IF i <= Len(s) + 1 THEN Append(s, Head(t))[i] ELSE Tail(t)[i - (Len(s) + 1)]
  BY <1>1, <1>2, ConcatProperties
<1>4. /\ r \in Seq(S) /\ Len(r) = Len(s) + Len(t)
      /\ \A i \in 1 .. Len(s) + Len(t) : r[i] = IF i <= Len(s) THEN s[i] ELSE t[i - Len(s)]
  BY ConcatProperties
<1> HIDE DEF l, r
<1>5. ASSUME NEW i \in 1 .. Len(s) + Len(t)
      PROVE  l[i] = r[i]
  <2>1. CASE i <= Len(s)
    BY <1>1, <1>2, <1>3, <1>4, <2>1
  <2>2. CASE i = Len(s) + 1
    BY <1>1, <1>2, <1>3, <1>4, <2>2
  <2>3. CASE i > Len(s) + 1
    <3>1. i - (Len(s) + 1) \in 1 .. Len(Tail(t))
      BY <1>1, <2>3
    <3>2. Tail(t)[i - (Len(s) + 1)] = t[(i - (Len(s) + 1)) + 1]
      BY <1>1, <3>1
    <3> QED
      BY <1>1, <1>3, <1>4, <2>3, <3>2
  <2> QED
    BY <1>1, <2>1, <2>2, <2>3
<1>6. l = r
  BY <1>3, <1>4, <1>5, SeqEqual
<1> QED
  BY <1>6 DEF l, r

(* Appending to the second of two sequences appends to both together. *)
LEMMA AppendRight ==
    ASSUME NEW S, NEW s \in Seq(S), NEW t \in Seq(S), NEW e \in S
    PROVE  s \o Append(t, e) = Append(s \o t, e)
<1>1. <<e>> \in Seq(S) /\ s \o t \in Seq(S)
  BY ConcatProperties
<1>2. Append(t, e) = t \o <<e>> /\ Append(s \o t, e) = (s \o t) \o <<e>>
  BY <1>1, AppendIsConcat
<1> QED
  BY <1>1, <1>2, ConcatAssociative

-----------------------------------------------------------------------------
(* The invariant. *)

(* A bounded channel holds the events that were sent and not yet taken, in *)
(* order, and an event under Feed.Send is within the bound.                *)
Queued ==
    \A k \in Kind :
        /\ taken[k] <= sent[k]
        /\ evChan[k] = Numbers(taken[k], sent[k])
        /\ k \in sending => sent[k] < MaxEvents

(* The event that is being broadcast is the last one that was taken, for   *)
(* every subscription that has still to get it.                            *)
Underway == \A s \in targets : event > 0 /\ event = taken[TypeOf[s]]

(* The index holds the subscriptions between install and uninstall, and    *)
(* broadcast sends to no other.                                            *)
Installed ==
    /\ index = {s \in Subscription : client[s] \in {"serving", "unsubscribing"}}
    /\ targets \subseteq index

(* What a client that stays has got and what is in its channel is a run of *)
(* numbers, from its installation to the last event that was sent to it;   *)
(* one that was not installed has got nothing.                             *)
Streams ==
    \A s \in Subscription :
        /\ client[s] = "serving" =>
              /\ since[s] <= Broadcasted(s)
              /\ notified[s] \o subChan[s] = Numbers(since[s], Broadcasted(s))
        /\ client[s] \in {"idle", "installing"} =>
              since[s] = 0 /\ notified[s] = <<>> /\ subChan[s] = <<>>

IInv == TypeOK /\ Queued /\ Underway /\ Installed /\ Streams

-----------------------------------------------------------------------------
(* Its parts hold at first and are kept by every step. *)

(* The initial state satisfies the invariant. *)
LEMMA InitIInv == Init => IInv
<1> SUFFICES ASSUME Init
             PROVE  IInv
  OBVIOUS
<1> USE SizesAssumption, TypeOfAssumption
<1>1. TypeOK
  <2>1. /\ <<>> \in Seq(1 .. MaxEvents) /\ Len(<<>>) = 0
        /\ 0 \in 0 .. MaxEvents /\ {} \subseteq {"results"}
    BY EmptySeq
  <2>2. /\ evChan \in [Kind -> Seq(1 .. MaxEvents)]
        /\ \A k \in Kind : Len(evChan[k]) <= EvChanSize[k]
    BY <2>1 DEF Init
  <2>3. /\ subChan \in [Subscription -> Seq(1 .. MaxEvents)]
        /\ \A s \in Subscription : Len(subChan[s]) <= SubChanSize
    BY <2>1 DEF Init
  <2>4. /\ notified \in [Subscription -> Seq(1 .. MaxEvents)]
        /\ since \in [Subscription -> 0 .. MaxEvents]
        /\ sent \in [Kind -> 0 .. MaxEvents] /\ taken \in [Kind -> 0 .. MaxEvents]
    BY <2>1 DEF Init
  <2>5. \E k \in Kind : sending \subseteq {k}
    BY DEF Init, Kind
  <2> QED
    BY <2>1, <2>2, <2>3, <2>4, <2>5 DEF Init, TypeOK
<1>2. Queued
  BY NumbersEmpty DEF Init, Queued
<1>3. Underway /\ Installed
  BY DEF Init, Underway, Installed
<1>4. Streams
  BY DEF Init, Streams
<1> QED
  BY <1>1, <1>2, <1>3, <1>4 DEF IInv

(* What is in a bounded channel of EventMsg, seen by its reader.           *)
LEMMA HeadOfQueue ==
    ASSUME TypeOK, Queued, NEW k \in Kind, evChan[k] # <<>>
    PROVE  /\ taken[k] < sent[k]
           /\ Head(evChan[k]) = taken[k] + 1
           /\ Tail(evChan[k]) = Numbers(taken[k] + 1, sent[k])
<1>1. taken[k] \in Nat /\ sent[k] \in Nat /\ taken[k] <= sent[k]
  BY SizesAssumption DEF TypeOK, Queued
<1>2. evChan[k] = Numbers(taken[k], sent[k])
  BY DEF Queued
<1>3. taken[k] # sent[k]
  BY <1>1, <1>2, NumbersEmpty
<1>4. taken[k] < sent[k]
  BY <1>1, <1>3
<1> QED
  BY <1>1, <1>2, <1>4, NumbersTail

(* Every step keeps the types. *)
LEMMA NextTypeOK == TypeOK /\ Queued /\ Underway /\ [Next]_vars => TypeOK'
<1> SUFFICES ASSUME TypeOK, Queued, Underway, [Next]_vars
             PROVE  TypeOK'
  OBVIOUS
<1> USE SizesAssumption, TypeOfAssumption
<1>1. ASSUME NEW k \in Kind, Send(k)
      PROVE  TypeOK'
  BY <1>1 DEF Send, TypeOK, chans, counts
<1>2. ASSUME NEW k \in Kind, SendReturns(k)
      PROVE  TypeOK'
  <2>1. sent[k] + 1 \in 1 .. MaxEvents
    BY <1>2 DEF SendReturns, TypeOK, Queued
  <2>2. evChan' \in [Kind -> Seq(1 .. MaxEvents)]
    BY <1>2, <2>1 DEF SendReturns, TypeOK
  <2>3. \A j \in Kind : Len(evChan'[j]) <= EvChanSize[j]
    <3> SUFFICES ASSUME NEW j \in Kind
                 PROVE  Len(evChan'[j]) <= EvChanSize[j]
      OBVIOUS
    <3>1. evChan[k] \in Seq(1 .. MaxEvents) /\ Len(evChan[k]) < EvChanSize[k]
      BY <1>2 DEF SendReturns, TypeOK
    <3>2. Len(Append(evChan[k], sent[k] + 1)) = Len(evChan[k]) + 1
      BY <2>1, <3>1
    <3> QED
      BY <1>2, <3>1, <3>2 DEF SendReturns, TypeOK
  <2>4. sent' \in [Kind -> 0 .. MaxEvents]
    BY <1>2, <2>1 DEF SendReturns, TypeOK
  <2>5. /\ sending' = {}
        /\ UNCHANGED <<subChan, eventLoop, event, targets, index, client, stopped,
                       taken, since, notified>>
    BY <1>2 DEF SendReturns
  <2>6. \E j \in Kind : sending' \subseteq {j}
    BY <2>5
  <2> QED
    BY <2>2, <2>3, <2>4, <2>5, <2>6 DEF TypeOK
<1>3. ASSUME NEW k \in Kind, Take(k)
      PROVE  TypeOK'
  <2>1. taken[k] + 1 \in 1 .. MaxEvents /\ Head(evChan[k]) = taken[k] + 1
    <3>1. evChan[k] # <<>>
      BY <1>3 DEF Take
    <3>2. taken[k] \in 0 .. MaxEvents /\ sent[k] \in 0 .. MaxEvents
      BY DEF TypeOK
    <3>3. taken[k] < sent[k] /\ Head(evChan[k]) = taken[k] + 1
      BY <3>1, HeadOfQueue
    <3> QED
      BY <3>2, <3>3
  <2>2. /\ Tail(evChan[k]) \in Seq(1 .. MaxEvents)
        /\ Len(Tail(evChan[k])) <= EvChanSize[k]
    BY <1>3 DEF Take, TypeOK
  <2>3. /\ evChan' \in [Kind -> Seq(1 .. MaxEvents)]
        /\ \A j \in Kind : Len(evChan'[j]) <= EvChanSize[j]
    BY <1>3, <2>2 DEF Take, TypeOK
  <2>4. event' \in 0 .. MaxEvents /\ taken' \in [Kind -> 0 .. MaxEvents]
    BY <1>3, <2>1 DEF Take, TypeOK
  <2>5. targets' \subseteq Subscription /\ (eventLoop' = "broadcast" <=> targets' # {})
    BY <1>3 DEF Take, TypeOK, Matching, AfterSending
  <2> QED
    BY <1>3, <2>3, <2>4, <2>5 DEF Take, TypeOK, AfterSending
<1>4. ASSUME NEW s \in Subscription, Broadcast(s), event > 0
      PROVE  TypeOK'
  <2>1. event \in 1 .. MaxEvents /\ subChan[s] \in Seq(1 .. MaxEvents)
    BY <1>4 DEF TypeOK
  <2>2. /\ Append(subChan[s], event) \in Seq(1 .. MaxEvents)
        /\ Len(Append(subChan[s], event)) <= SubChanSize
    BY <1>4, <2>1 DEF Broadcast, RoomFor
  <2>3. /\ subChan' \in [Subscription -> Seq(1 .. MaxEvents)]
        /\ \A x \in Subscription : Len(subChan'[x]) <= SubChanSize
    BY <1>4, <2>2 DEF Broadcast, TypeOK
  <2> QED
    BY <1>4, <2>3 DEF Broadcast, TypeOK, AfterSending, counts
<1>5. ASSUME NEW s \in Subscription, Notify(s)
      PROVE  TypeOK'
  <2>1. /\ subChan[s] \in Seq(1 .. MaxEvents) /\ subChan[s] # <<>>
        /\ Len(subChan[s]) <= SubChanSize /\ notified[s] \in Seq(1 .. MaxEvents)
    BY <1>5 DEF Notify, TypeOK
  <2>2. /\ Head(subChan[s]) \in 1 .. MaxEvents
        /\ Tail(subChan[s]) \in Seq(1 .. MaxEvents)
        /\ Len(Tail(subChan[s])) <= SubChanSize
        /\ Append(notified[s], Head(subChan[s])) \in Seq(1 .. MaxEvents)
    <3>1. /\ Head(subChan[s]) \in 1 .. MaxEvents
          /\ Tail(subChan[s]) \in Seq(1 .. MaxEvents)
          /\ Len(Tail(subChan[s])) = Len(subChan[s]) - 1
      BY <2>1, HeadTailProperties
    <3> QED
      BY <2>1, <3>1, AppendProperties
  <2>3. /\ subChan' \in [Subscription -> Seq(1 .. MaxEvents)]
        /\ \A x \in Subscription : Len(subChan'[x]) <= SubChanSize
        /\ notified' \in [Subscription -> Seq(1 .. MaxEvents)]
    BY <1>5, <2>2 DEF Notify, TypeOK
  <2> QED
    BY <1>5, <2>3 DEF Notify, TypeOK
<1>6. ASSUME NEW s \in Subscription, Drain(s)
      PROVE  TypeOK'
  <2>1. /\ subChan[s] \in Seq(1 .. MaxEvents) /\ subChan[s] # <<>>
        /\ Len(subChan[s]) <= SubChanSize
    BY <1>6 DEF Drain, TypeOK
  <2>2. /\ Tail(subChan[s]) \in Seq(1 .. MaxEvents)
        /\ Len(Tail(subChan[s])) <= SubChanSize
    <3>1. /\ Tail(subChan[s]) \in Seq(1 .. MaxEvents)
          /\ Len(Tail(subChan[s])) = Len(subChan[s]) - 1
      BY <2>1, HeadTailProperties
    <3> QED
      BY <2>1, <3>1
  <2>3. /\ subChan' \in [Subscription -> Seq(1 .. MaxEvents)]
        /\ \A x \in Subscription : Len(subChan'[x]) <= SubChanSize
    BY <1>6, <2>2 DEF Drain, TypeOK
  <2> QED
    BY <1>6, <2>3 DEF Drain, TypeOK, counts
<1>7. ASSUME NEW s \in Subscription, Install(s)
      PROVE  TypeOK'
  <2>1. taken[TypeOf[s]] \in 0 .. MaxEvents
    BY DEF TypeOK
  <2>2. since' \in [Subscription -> 0 .. MaxEvents]
    BY <1>7, <2>1 DEF Install, TypeOK
  <2>3. index' \subseteq Subscription
    BY <1>7 DEF Install, TypeOK
  <2>4. client' \in [Subscription ->
                      {"idle", "installing", "serving", "unsubscribing", "returned"}]
    BY <1>7 DEF Install, TypeOK
  <2> QED
    BY <1>7, <2>2, <2>3, <2>4 DEF Install, TypeOK, chans
<1>8. ASSUME NEW s \in Subscription, Uninstall(s) \/ Subscribe(s) \/ Leave(s)
      PROVE  TypeOK'
  <2>1. client' \in [Subscription ->
                      {"idle", "installing", "serving", "unsubscribing", "returned"}]
    BY <1>8 DEF Uninstall, Subscribe, Leave, TypeOK
  <2>2. index' \subseteq Subscription
    BY <1>8 DEF Uninstall, Subscribe, Leave, TypeOK
  <2>3. UNCHANGED <<sending, chans, eventLoop, event, targets, stopped, counts>>
    BY <1>8 DEF Uninstall, Subscribe, Leave
  <2> QED
    BY <2>1, <2>2, <2>3 DEF TypeOK, chans, counts
<1>9. CASE Exits \/ Stop
  BY <1>9 DEF Exits, Stop, TypeOK, chans, counts
<1>10. CASE UNCHANGED vars
  BY <1>10 DEF vars, chans, counts, TypeOK
<1>11. ASSUME NEW s \in targets
       PROVE  event > 0
  BY DEF Underway
<1> QED
  BY <1>1, <1>2, <1>3, <1>4, <1>5, <1>6, <1>7, <1>8, <1>9, <1>10, <1>11
     DEF Next, Manager, Loop, Client, Broadcast

(* Every step keeps the two channels of EventMsg what they are.            *)
LEMMA NextQueued == TypeOK /\ Queued /\ [Next]_vars => Queued'
<1> SUFFICES ASSUME TypeOK, Queued, [Next]_vars
             PROVE  Queued'
  OBVIOUS
<1> USE SizesAssumption
<1>1. ASSUME NEW k \in Kind, Send(k)
      PROVE  Queued'
  BY <1>1 DEF Send, TypeOK, Queued, chans, counts
<1>2. ASSUME NEW k \in Kind, SendReturns(k)
      PROVE  Queued'
  <2>1. /\ taken[k] \in Nat /\ sent[k] \in Nat /\ taken[k] <= sent[k]
        /\ evChan[k] = Numbers(taken[k], sent[k])
    BY DEF TypeOK, Queued
  <2>2. Append(evChan[k], sent[k] + 1) = Numbers(taken[k], sent[k] + 1)
    BY <2>1, NumbersAppend
  <2>3. /\ evChan'[k] = Numbers(taken[k], sent[k] + 1) /\ sent'[k] = sent[k] + 1
        /\ \A j \in Kind \ {k} : evChan'[j] = evChan[j] /\ sent'[j] = sent[j]
        /\ taken' = taken /\ sending' = {}
    BY <1>2, <2>2 DEF SendReturns, TypeOK
  <2>4. ASSUME NEW j \in Kind
        PROVE  taken'[j] <= sent'[j] /\ evChan'[j] = Numbers(taken'[j], sent'[j])
    BY <2>1, <2>3 DEF Queued
  <2> QED
    BY <2>3, <2>4 DEF Queued, Numbers
<1>3. ASSUME NEW k \in Kind, Take(k)
      PROVE  Queued'
  <2>1. /\ taken[k] \in Nat /\ sent[k] \in Nat /\ taken[k] < sent[k]
        /\ Tail(evChan[k]) = Numbers(taken[k] + 1, sent[k])
    <3>1. taken[k] \in Nat /\ sent[k] \in Nat /\ evChan[k] # <<>>
      BY <1>3 DEF Take, TypeOK
    <3> QED
      BY <3>1, HeadOfQueue
  <2>2. /\ evChan'[k] = Numbers(taken[k] + 1, sent[k]) /\ taken'[k] = taken[k] + 1
        /\ \A j \in Kind \ {k} : evChan'[j] = evChan[j] /\ taken'[j] = taken[j]
        /\ sent' = sent /\ sending' = sending
    BY <1>3, <2>1 DEF Take, TypeOK
  <2>3. ASSUME NEW j \in Kind
        PROVE  /\ taken'[j] <= sent'[j] /\ evChan'[j] = Numbers(taken'[j], sent'[j])
               /\ j \in sending' => sent'[j] < MaxEvents
    BY <2>1, <2>2 DEF Queued
  <2> QED
    BY <2>3 DEF Queued, Numbers
<1>4. ASSUME NEW s \in Subscription,
             Broadcast(s) \/ Install(s) \/ Uninstall(s) \/ Client(s)
      PROVE  UNCHANGED <<sending, evChan, sent, taken>>
  BY <1>4 DEF Broadcast, Install, Uninstall, Client, Subscribe, Notify, Leave, Drain,
              chans, counts
<1>5. CASE Exits \/ Stop \/ UNCHANGED vars
  BY <1>5 DEF Exits, Stop, vars, chans, counts, Queued
<1>6. CASE UNCHANGED <<sending, evChan, sent, taken>>
  BY <1>6 DEF Queued
<1> QED
  BY <1>1, <1>2, <1>3, <1>4, <1>5, <1>6 DEF Next, Manager, Loop

(* Every step keeps the event of a broadcast the last one taken: nothing   *)
(* is taken before the broadcast has come to its end.                      *)
LEMMA NextUnderway == TypeOK /\ Queued /\ Underway /\ [Next]_vars => Underway'
<1> SUFFICES ASSUME TypeOK, Queued, Underway, [Next]_vars
             PROVE  Underway'
  OBVIOUS
<1>1. ASSUME NEW k \in Kind, Take(k)
      PROVE  Underway'
  <2>1. taken \in [Kind -> Nat]
    BY SizesAssumption DEF TypeOK
  <2>2. /\ evChan[k] # <<>> /\ event' = Head(evChan[k])
        /\ taken' = [taken EXCEPT ![k] = @ + 1] /\ targets' = Matching(k)
    BY <1>1 DEF Take
  <2>3. Head(evChan[k]) = taken[k] + 1
    BY <2>2, HeadOfQueue
  <2>4. taken[k] \in Nat /\ event' = taken[k] + 1 /\ taken'[k] = taken[k] + 1
    BY <2>1, <2>2, <2>3
  <2> QED
    BY <2>2, <2>4 DEF Underway, Matching
<1>2. ASSUME NEW s \in Subscription, Broadcast(s)
      PROVE  Underway'
  BY <1>2 DEF Broadcast, Underway, counts
<1>3. ASSUME NEW k \in Kind, Send(k) \/ SendReturns(k)
      PROVE  UNCHANGED <<targets, event, taken>>
  BY <1>3 DEF Send, SendReturns, counts
<1>4. ASSUME NEW s \in Subscription, Install(s) \/ Uninstall(s) \/ Client(s)
      PROVE  UNCHANGED <<targets, event, taken>>
  BY <1>4 DEF Install, Uninstall, Client, Subscribe, Notify, Leave, Drain, counts
<1>5. CASE Exits \/ Stop \/ UNCHANGED vars
  BY <1>5 DEF Exits, Stop, vars, counts, Underway
<1>6. CASE UNCHANGED <<targets, event, taken>>
  BY <1>6 DEF Underway
<1> QED
  BY <1>1, <1>2, <1>3, <1>4, <1>5, <1>6 DEF Next, Manager, Loop

(* Every step keeps the index the set of those that are installed.         *)
LEMMA NextInstalled == TypeOK /\ Installed /\ [Next]_vars => Installed'
<1> SUFFICES ASSUME TypeOK, Installed, [Next]_vars
             PROVE  Installed'
  OBVIOUS
<1>1. ASSUME NEW k \in Kind, Take(k)
      PROVE  Installed'
  BY <1>1 DEF Take, Installed, Matching
<1>2. ASSUME NEW s \in Subscription, Broadcast(s)
      PROVE  Installed'
  BY <1>2 DEF Broadcast, Installed
<1>3. ASSUME NEW k \in Kind, Send(k) \/ SendReturns(k)
      PROVE  UNCHANGED <<index, client, targets>>
  BY <1>3 DEF Send, SendReturns
<1>4. ASSUME NEW s \in Subscription, Install(s)
      PROVE  Installed'
  BY <1>4 DEF Install, Installed, TypeOK
<1>5. ASSUME NEW s \in Subscription, Uninstall(s)
      PROVE  Installed'
  <2>1. targets = {}
    BY <1>5 DEF Uninstall, TypeOK
  <2> QED
    BY <1>5, <2>1 DEF Uninstall, Installed, TypeOK
<1>6. ASSUME NEW s \in Subscription, Client(s)
      PROVE  Installed'
  BY <1>6 DEF Client, Subscribe, Notify, Leave, Drain, Installed, TypeOK
<1>7. CASE Exits \/ Stop \/ UNCHANGED vars
  BY <1>7 DEF Exits, Stop, vars, Installed
<1>8. CASE UNCHANGED <<index, client, targets>>
  BY <1>8 DEF Installed
<1> QED
  BY <1>1, <1>2, <1>3, <1>4, <1>5, <1>6, <1>7, <1>8 DEF Next, Manager, Loop

(* Every step keeps the streams: what a broadcast appends, what a receive  *)
(* moves, and where an installation begins.                                *)
LEMMA NextStreams ==
    TypeOK /\ Queued /\ Underway /\ Installed /\ Streams /\ [Next]_vars => Streams'
<1> SUFFICES ASSUME TypeOK, Queued, Underway, Installed, Streams, [Next]_vars
             PROVE  Streams'
  OBVIOUS
<1> USE SizesAssumption, TypeOfAssumption
<1> DEFINE Stays == /\ UNCHANGED <<client, subChan, since, notified>>
                    /\ \A s \in Subscription :
                          client[s] = "serving" => Broadcasted(s)' = Broadcasted(s)
<1>1. CASE Stays
  BY <1>1 DEF Streams, Numbers
<1>2. ASSUME NEW k \in Kind, Take(k)
      PROVE  Stays
  <2>1. targets = {} /\ taken[k] \in Nat
    BY <1>2 DEF Take, TypeOK
  <2>2. ASSUME NEW s \in Subscription, client[s] = "serving"
        PROVE  Broadcasted(s)' = Broadcasted(s)
    <3>1. s \in index /\ s \notin targets
      BY <2>1, <2>2 DEF Installed
    <3>2. CASE TypeOf[s] = k
      <4>1. s \in targets' /\ taken'[k] = taken[k] + 1
        BY <1>2, <3>1, <3>2 DEF Take, Matching, TypeOK
      <4> QED
        BY <2>1, <3>1, <3>2, <4>1 DEF Broadcasted
    <3>3. CASE TypeOf[s] # k
      <4>1. s \notin targets' /\ taken'[TypeOf[s]] = taken[TypeOf[s]]
        BY <1>2, <3>3 DEF Take, Matching, TypeOK
      <4> QED
        BY <3>1, <4>1 DEF Broadcasted
    <3> QED
      BY <3>2, <3>3
  <2> QED
    BY <1>2, <2>2 DEF Take
<1>3. ASSUME NEW s \in Subscription, Broadcast(s)
      PROVE  Streams'
  <2>1. /\ s \in targets /\ s \in index /\ event > 0 /\ event = taken[TypeOf[s]]
        /\ taken[TypeOf[s]] \in Nat /\ since[s] \in Nat /\ event \in 1 .. MaxEvents
        /\ subChan[s] \in Seq(1 .. MaxEvents) /\ notified[s] \in Seq(1 .. MaxEvents)
    BY <1>3 DEF Broadcast, Underway, Installed, TypeOK
  <2>2. /\ UNCHANGED <<client, notified, since, taken>>
        /\ subChan'[s] = Append(subChan[s], event) /\ targets' = targets \ {s}
        /\ \A x \in Subscription \ {s} : subChan'[x] = subChan[x]
    BY <1>3 DEF Broadcast, TypeOK, counts
  <2>3. Broadcasted(s) = event - 1 /\ Broadcasted(s)' = event
    BY <2>1, <2>2 DEF Broadcasted
  <2>4. ASSUME NEW x \in Subscription \ {s}
        PROVE  Broadcasted(x)' = Broadcasted(x)
    BY <2>2 DEF Broadcasted
  <2>5. ASSUME client[s] = "serving"
        PROVE  /\ since[s] <= event
               /\ notified[s] \o subChan'[s] = Numbers(since[s], event)
    <3>1. /\ since[s] <= event - 1 /\ event - 1 \in Nat
          /\ notified[s] \o subChan[s] = Numbers(since[s], event - 1)
      <4>1. /\ since[s] <= Broadcasted(s)
            /\ notified[s] \o subChan[s] = Numbers(since[s], Broadcasted(s))
        BY <2>5 DEF Streams
      <4>2. event - 1 \in Nat
        BY <2>1
      <4> QED
        BY <2>3, <4>1, <4>2
    <3>2. notified[s] \o subChan'[s] = Append(Numbers(since[s], event - 1), event)
      <4>1. notified[s] \o Append(subChan[s], event) = Append(notified[s] \o subChan[s], event)
        <5> DEFINE got == notified[s]
                   chan == subChan[s]
                   Event == 1 .. MaxEvents
        <5>1. got \in Seq(Event) /\ chan \in Seq(Event) /\ event \in Event
          BY <2>1
        <5> HIDE DEF got, chan, Event
        <5>2. got \o Append(chan, event) = Append(got \o chan, event)
          BY <5>1, AppendRight
        <5> QED
          BY <5>2 DEF got, chan
      <4> QED
        BY <2>2, <3>1, <4>1
    <3>3. Append(Numbers(since[s], event - 1), (event - 1) + 1) = Numbers(since[s], (event - 1) + 1)
      BY <2>1, <3>1, NumbersAppend
    <3>4. (event - 1) + 1 = event
      BY <2>1
    <3>5. Append(Numbers(since[s], event - 1), event) = Numbers(since[s], event)
      BY <3>3, <3>4
    <3>6. since[s] <= event
      <4>1. since[s] \in Int /\ event \in Int
        BY <2>1
      <4> QED
        BY <3>1, <4>1
    <3> QED
      BY <3>2, <3>5, <3>6
  <2>6. client[s] \notin {"idle", "installing"}
    BY <2>1 DEF Installed
  <2>7. ASSUME NEW x \in Subscription
        PROVE  /\ client'[x] = "serving" =>
                     /\ since'[x] <= Broadcasted(x)'
                     /\ notified'[x] \o subChan'[x] = Numbers(since'[x], Broadcasted(x)')
               /\ client'[x] \in {"idle", "installing"} =>
                     since'[x] = 0 /\ notified'[x] = <<>> /\ subChan'[x] = <<>>
    <3>1. CASE x = s
      BY <2>2, <2>3, <2>5, <2>6, <3>1
    <3>2. CASE x # s
      BY <2>2, <2>4, <3>2 DEF Streams
    <3> QED
      BY <3>1, <3>2
  <2> QED
    BY <2>7 DEF Streams, Numbers
<1>4. ASSUME NEW s \in Subscription, Install(s)
      PROVE  Streams'
  <2>1. /\ client[s] = "installing" /\ targets = {} /\ taken[TypeOf[s]] \in Nat
        /\ notified[s] = <<>> /\ subChan[s] = <<>>
    BY <1>4 DEF Install, TypeOK, Streams
  <2>2. /\ UNCHANGED <<targets, taken, notified, subChan>>
        /\ client'[s] = "serving" /\ since'[s] = taken[TypeOf[s]]
        /\ \A x \in Subscription \ {s} : client'[x] = client[x] /\ since'[x] = since[x]
    BY <1>4 DEF Install, TypeOK, chans
  <2>3. \A x \in Subscription : Broadcasted(x)' = Broadcasted(x)
    BY <2>2 DEF Broadcasted
  <2>4. Broadcasted(s) = taken[TypeOf[s]]
    BY <2>1 DEF Broadcasted
  <2>5. notified[s] \o subChan[s] = Numbers(taken[TypeOf[s]], taken[TypeOf[s]])
    <3>1. <<>> \o <<>> = <<>>
      OBVIOUS
    <3> QED
      BY <2>1, <3>1, NumbersEmpty
  <2>6. ASSUME NEW x \in Subscription
        PROVE  /\ client'[x] = "serving" =>
                     /\ since'[x] <= Broadcasted(x)'
                     /\ notified'[x] \o subChan'[x] = Numbers(since'[x], Broadcasted(x)')
               /\ client'[x] \in {"idle", "installing"} =>
                     since'[x] = 0 /\ notified'[x] = <<>> /\ subChan'[x] = <<>>
    <3>1. CASE x = s
      <4>1. since'[s] = taken[TypeOf[s]] /\ Broadcasted(s)' = taken[TypeOf[s]]
        BY <2>2, <2>3, <2>4
      <4>2. notified'[s] \o subChan'[s] = Numbers(since'[s], Broadcasted(s)')
        BY <2>2, <2>5, <4>1
      <4>3. since'[s] <= Broadcasted(s)'
        BY <2>1, <4>1
      <4> QED
        BY <2>2, <3>1, <4>2, <4>3
    <3>2. CASE x # s
      BY <2>2, <2>3, <3>2 DEF Streams
    <3> QED
      BY <3>1, <3>2
  <2> QED
    BY <2>6 DEF Streams, Numbers
<1>5. ASSUME NEW s \in Subscription, Notify(s)
      PROVE  Streams'
  <2>1. /\ client[s] = "serving" /\ subChan[s] # <<>>
        /\ subChan[s] \in Seq(1 .. MaxEvents) /\ notified[s] \in Seq(1 .. MaxEvents)
    BY <1>5 DEF Notify, TypeOK
  <2>2. /\ UNCHANGED <<client, targets, taken, since>>
        /\ notified'[s] = Append(notified[s], Head(subChan[s]))
        /\ subChan'[s] = Tail(subChan[s])
        /\ \A x \in Subscription \ {s} : notified'[x] = notified[x] /\ subChan'[x] = subChan[x]
    BY <1>5 DEF Notify, TypeOK
  <2>3. notified'[s] \o subChan'[s] = notified[s] \o subChan[s]
    BY <2>1, <2>2, MoveHead
  <2>4. \A x \in Subscription : Broadcasted(x)' = Broadcasted(x)
    BY <2>2 DEF Broadcasted
  <2>5. ASSUME NEW x \in Subscription
        PROVE  /\ client'[x] = "serving" =>
                     /\ since'[x] <= Broadcasted(x)'
                     /\ notified'[x] \o subChan'[x] = Numbers(since'[x], Broadcasted(x)')
               /\ client'[x] \in {"idle", "installing"} =>
                     since'[x] = 0 /\ notified'[x] = <<>> /\ subChan'[x] = <<>>
    <3>1. notified'[x] \o subChan'[x] = notified[x] \o subChan[x]
      BY <2>2, <2>3
    <3>2. client'[x] \in {"idle", "installing"} =>
             notified'[x] = notified[x] /\ subChan'[x] = subChan[x]
      BY <2>1, <2>2
    <3> QED
      BY <2>2, <2>4, <3>1, <3>2 DEF Streams
  <2> QED
    BY <2>5 DEF Streams, Numbers
<1>6. ASSUME NEW s \in Subscription, Subscribe(s) \/ Leave(s) \/ Uninstall(s) \/ Drain(s)
      PROVE  Streams'
  <2>1. /\ UNCHANGED <<targets, taken, since, notified>>
        /\ client[s] = "idle" \/ client'[s] \in {"unsubscribing", "returned"}
        /\ client'[s] # "serving" /\ (client[s] = "idle" => subChan' = subChan)
        /\ \A x \in Subscription \ {s} : client'[x] = client[x] /\ subChan'[x] = subChan[x]
    BY <1>6 DEF Subscribe, Leave, Uninstall, Drain, TypeOK, chans, counts
  <2>2. \A x \in Subscription : Broadcasted(x)' = Broadcasted(x)
    BY <2>1 DEF Broadcasted
  <2>3. ASSUME NEW x \in Subscription
        PROVE  /\ client'[x] = "serving" =>
                     /\ since'[x] <= Broadcasted(x)'
                     /\ notified'[x] \o subChan'[x] = Numbers(since'[x], Broadcasted(x)')
               /\ client'[x] \in {"idle", "installing"} =>
                     since'[x] = 0 /\ notified'[x] = <<>> /\ subChan'[x] = <<>>
    <3>1. CASE x = s
      BY <2>1, <3>1 DEF Streams
    <3>2. CASE x # s
      BY <2>1, <2>2, <3>2 DEF Streams
    <3> QED
      BY <3>1, <3>2
  <2> QED
    BY <2>3 DEF Streams, Numbers
<1>7. ASSUME NEW k \in Kind, Send(k) \/ SendReturns(k)
      PROVE  Stays
  BY <1>7 DEF Send, SendReturns, Broadcasted, chans, counts
<1>8. CASE Exits \/ Stop \/ UNCHANGED vars
  BY <1>1, <1>8 DEF Exits, Stop, vars, Broadcasted, chans, counts
<1> QED
  BY <1>1, <1>2, <1>3, <1>4, <1>5, <1>6, <1>7, <1>8 DEF Next, Manager, Loop, Client

(* The invariant holds in every state that can be reached.                 *)
LEMMA IInvHolds == Spec => []IInv
<1>1. IInv /\ [Next]_vars => IInv'
  BY NextTypeOK, NextQueued, NextUnderway, NextInstalled, NextStreams DEF IInv
<1> QED
  BY <1>1, InitIInv, PTL DEF Spec

-----------------------------------------------------------------------------
(* What follows for the service. *)

(* In every reachable state the variables have their types, no bounded     *)
(* channel holds more than its capacity, and eventLoop is in a broadcast   *)
(* exactly as long as it has somebody to send to (subscribe.go:210-263).   *)
THEOREM TypeCorrect == Spec => []TypeOK
  BY IInvHolds, PTL DEF IInv

(* As long as a client stays, what it got and what is in its channel are   *)
(* the events of its kind since its installation, in order and without     *)
(* gaps, up to the one eventLoop is sending (subscribe.go:210-248).        *)
THEOREM NoEventMissed == Spec => []NothingMissed
<1>1. IInv => NothingMissed
  BY DEF IInv, Streams, NothingMissed
<1> QED
  BY <1>1, IInvHolds, PTL

(* Nothing is sent to the channel of a subscription once Unsubscribe has   *)
(* returned: the loop uninstalls it between two broadcasts only, and sends *)
(* to what is installed (subscribe.go:169-172, 249-260).                   *)
THEOREM SilentChannel == Spec => SilentAfterUnsubscribe
<1> DEFINE Silent == \A s \in Subscription : client[s] = "returned" => subChan'[s] = subChan[s]
<1>1. IInv /\ [Next]_vars => [Silent]_vars
  <2> SUFFICES ASSUME IInv, Next, NEW s \in Subscription, client[s] = "returned"
               PROVE  subChan'[s] = subChan[s]
    OBVIOUS
  <2>1. TypeOK /\ s \notin targets
    BY DEF IInv, Installed
  <2>2. ASSUME NEW x \in Subscription, Broadcast(x)
        PROVE  subChan'[s] = subChan[s]
    BY <2>1, <2>2 DEF Broadcast, TypeOK
  <2>3. ASSUME NEW x \in Subscription, Client(x)
        PROVE  subChan'[s] = subChan[s]
    BY <2>1, <2>3 DEF Client, Subscribe, Notify, Leave, Drain, TypeOK, chans
  <2>4. ASSUME NEW x \in Subscription, Install(x) \/ Uninstall(x)
        PROVE  subChan'[s] = subChan[s]
    BY <2>4 DEF Install, Uninstall, chans
  <2>5. ASSUME NEW k \in Kind, Send(k) \/ SendReturns(k) \/ Take(k)
        PROVE  subChan'[s] = subChan[s]
    BY <2>5 DEF Send, SendReturns, Take, chans
  <2>6. CASE Exits \/ Stop
    BY <2>6 DEF Exits, Stop, chans
  <2> QED
    BY <2>2, <2>3, <2>4, <2>5, <2>6 DEF Next, Manager, Loop
<1> QED
  BY <1>1, IInvHolds, PTL DEF Spec, SilentAfterUnsubscribe

-----------------------------------------------------------------------------
(* The refinement. *)

(* The first event in the channel of a client that stays is the one that   *)
(* is next for it, and has been taken.                                     *)
LEMMA NextInChannel ==
    ASSUME IInv, NEW s \in Subscription, client[s] = "serving", subChan[s] # <<>>
    PROVE  /\ Head(subChan[s]) = since[s] + Len(notified[s]) + 1
           /\ Head(subChan[s]) <= taken[TypeOf[s]]
<1> DEFINE got == notified[s]
           chan == subChan[s]
           Event == 1 .. MaxEvents
           last == Broadcasted(s)
<1>1. got \in Seq(Event) /\ chan \in Seq(Event) /\ chan # <<>> /\ since[s] \in Nat
  BY SizesAssumption DEF IInv, TypeOK
<1>2. since[s] <= last /\ got \o chan = Numbers(since[s], last)
  BY DEF IInv, Streams
<1>3. last \in Int /\ taken[TypeOf[s]] \in Nat /\ last <= taken[TypeOf[s]]
  <2>1. taken[TypeOf[s]] \in Nat
    BY SizesAssumption, TypeOfAssumption DEF IInv, TypeOK
  <2> QED
    BY <2>1 DEF Broadcasted
<1> HIDE DEF got, chan, Event, last
<1>4. last \in Nat
  BY <1>1, <1>2, <1>3
<1>5. /\ Len(got \o chan) = Len(got) + Len(chan)
      /\ Len(got) \in Nat /\ Len(chan) \in Nat \ {0}
      /\ (got \o chan)[Len(got) + 1] = chan[1]
      /\ Head(chan) = chan[1]
  <2>1. Len(got) \in Nat /\ Len(chan) \in Nat \ {0} /\ Head(chan) = chan[1]
    BY <1>1, EmptySeq, HeadTailProperties
  <2>2. /\ Len(got \o chan) = Len(got) + Len(chan)
        /\ \A i \in 1 .. Len(got) + Len(chan) :
              (got \o chan)[i] = IF i <= Len(got) THEN got[i] ELSE chan[i - Len(got)]
    BY <1>1, ConcatProperties
  <2>3. Len(got) + 1 \in 1 .. Len(got) + Len(chan) /\ (Len(got) + 1) - Len(got) = 1
    BY <2>1
  <2> QED
    BY <2>1, <2>2, <2>3
<1>6. /\ Len(Numbers(since[s], last)) = last - since[s]
      /\ \A i \in 1 .. last - since[s] : Numbers(since[s], last)[i] = since[s] + i
  BY <1>1, <1>2, <1>4, NumbersSeq
<1>7. Len(got) + 1 \in 1 .. last - since[s]
  BY <1>1, <1>2, <1>4, <1>5, <1>6
<1>8. Head(chan) = since[s] + (Len(got) + 1)
  BY <1>2, <1>5, <1>6, <1>7
<1> QED
  BY <1>1, <1>3, <1>4, <1>5, <1>7, <1>8 DEF got, chan

(* A step of the service is a step a subscriber is promised, or invisible. *)
LEMMA StepPromised == IInv /\ [Next]_vars => [Promise!Next]_(Promise!vars)
<1> SUFFICES ASSUME IInv, [Next]_vars
             PROVE  [Promise!Next]_(Promise!vars)
  OBVIOUS
<1> USE SizesAssumption, TypeOfAssumption
<1> DEFINE member == [s \in Subscription |-> Member(s)]
<1>0. TypeOK
  BY DEF IInv
<1>1. ASSUME NEW k \in Kind, Take(k)
      PROVE  Promise!Publish(k)
  <2>1. taken[k] < MaxEvents
    <3>1. taken[k] < sent[k]
      BY <1>1, HeadOfQueue DEF Take, IInv
    <3> QED
      BY <1>0, <3>1 DEF TypeOK
  <2>2. taken' = [taken EXCEPT ![k] = @ + 1] /\ UNCHANGED <<client, since, notified>>
    BY <1>1 DEF Take
  <2> QED
    BY <2>1, <2>2 DEF Promise!Publish, Member
<1>2. ASSUME NEW s \in Subscription, Install(s)
      PROVE  Promise!Join(s)
  <2>1. client[s] = "installing" /\ client' = [client EXCEPT ![s] = "serving"]
    BY <1>2 DEF Install
  <2>2. member[s] = "out" /\ member' = [member EXCEPT ![s] = "in"]
    BY <1>0, <2>1 DEF Member, TypeOK
  <2>3. since' = [since EXCEPT ![s] = taken[TypeOf[s]]] /\ UNCHANGED <<taken, notified>>
    BY <1>2 DEF Install
  <2> QED
    BY <2>2, <2>3 DEF Promise!Join
<1>3. ASSUME NEW s \in Subscription, Notify(s)
      PROVE  Promise!Deliver(s)
  <2>1. client[s] = "serving" /\ subChan[s] # <<>>
    BY <1>3 DEF Notify
  <2>2. /\ Head(subChan[s]) = Promise!NextFor(s)
        /\ Promise!NextFor(s) <= taken[TypeOf[s]]
    BY <2>1, NextInChannel DEF Promise!NextFor
  <2>3. member[s] = "in" /\ member' = member
    BY <1>3, <2>1 DEF Notify, Member
  <2>4. notified' = [notified EXCEPT ![s] = Append(@, Head(subChan[s]))]
    BY <1>3 DEF Notify
  <2>5. UNCHANGED <<taken, since>>
    BY <1>3 DEF Notify
  <2> QED
    BY <2>2, <2>3, <2>4, <2>5 DEF Promise!Deliver
<1>4. ASSUME NEW s \in Subscription, Leave(s)
      PROVE  Promise!Leave(s)
  <2>1. client[s] = "serving" /\ client' = [client EXCEPT ![s] = "unsubscribing"]
    BY <1>4 DEF Leave
  <2>2. member[s] = "in" /\ member' = [member EXCEPT ![s] = "left"]
    BY <1>0, <2>1 DEF Member, TypeOK
  <2>3. UNCHANGED <<taken, since, notified>>
    BY <1>4 DEF Leave, counts
  <2> QED
    BY <2>2, <2>3 DEF Promise!Leave
<1>5. ASSUME NEW s \in Subscription, Subscribe(s) \/ Uninstall(s)
      PROVE  UNCHANGED Promise!vars
  <2>1. member' = member
    BY <1>0, <1>5 DEF Subscribe, Uninstall, Member, TypeOK
  <2> QED
    BY <1>5, <2>1 DEF Subscribe, Uninstall, counts, Promise!vars
<1>6. ASSUME NEW s \in Subscription, Broadcast(s) \/ Drain(s)
      PROVE  UNCHANGED <<client, taken, since, notified>>
  BY <1>6 DEF Broadcast, Drain, counts
<1>7. ASSUME NEW k \in Kind, Send(k) \/ SendReturns(k)
      PROVE  UNCHANGED <<client, taken, since, notified>>
  BY <1>7 DEF Send, SendReturns, counts
<1>8. CASE Exits \/ Stop \/ UNCHANGED vars
  BY <1>8 DEF Exits, Stop, vars, counts, Promise!vars, Member
<1>9. CASE UNCHANGED <<client, taken, since, notified>>
  BY <1>9 DEF Promise!vars, Member
<1> QED
  BY <1>1, <1>2, <1>3, <1>4, <1>5, <1>6, <1>7, <1>8, <1>9
     DEF Next, Manager, Loop, Client, Promise!Next

(* EventMsg implements EventSpec: behind two bounded channels, a broadcast *)
(* that may block and a rendezvous with the loop, a subscriber sees one    *)
(* stream of events (subscribe.go:154-263, task/api.go:167-226).           *)
THEOREM PromiseKept == Spec => KeepsPromise
<1>1. Init => Promise!Init
  BY DEF Init, Promise!Init, Member
<1> QED
  BY <1>1, StepPromised, IInvHolds, PTL DEF Spec, KeepsPromise, Promise!Spec
=============================================================================

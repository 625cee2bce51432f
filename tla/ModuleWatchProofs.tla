-------------------------- MODULE ModuleWatchProofs --------------------------
(***************************************************************************)
(* Proofs about ModuleWatch, for every set of file names, every number of  *)
(* changes and channels of every size: its types, and that the map of      *)
(* plugins never is out of step with the notifications.                    *)
(***************************************************************************)
EXTENDS ModuleWatch, SequenceTheorems, WellFoundedInduction, TLAPS

-----------------------------------------------------------------------------
(* FoldLeft.  Its definition in the community modules is a recursive       *)
(* function on the sets of indices; what it does to a sequence that gets   *)
(* longer at either end follows by looking for the least counterexample.   *)

(* A set of natural numbers that is not empty has a least element.         *)
LEMMA Least ==
    ASSUME NEW T \in SUBSET Nat, T # {}
    PROVE  \E n \in T : \A m \in T : ~(m < n)
<1>1. \E n \in T : \A m \in T : ~ (<<m, n>> \in OpToRel(<, Nat))
    BY NatLessThanWellFounded, WFMin
<1>. QED BY <1>1 DEF OpToRel

(* path leads from map to what the events make of it, one event a step.    *)
Trace(path, map, evs) ==
    /\ path[0] = map
    /\ \A n \in 1 .. Len(evs) : path[n] = Handled(path[n - 1], evs[n])

(* iter is the function that FoldLeft takes its result from.               *)
Folds(iter, map, evs, S) ==
    iter = [s \in SUBSET S |->
               IF s = {} THEN map
               ELSE Handled(iter[s \ {Max(s)}], evs[Max(s)])]

(* FoldLeft in terms of that function.                                     *)
LEMMA FoldLeftIs ==
    ASSUME NEW map, NEW evs
    PROVE  FoldLeft(Handled, map, evs)
              = (CHOOSE iter : Folds(iter, map, evs, DOMAIN evs))[DOMAIN evs]
BY DEF FoldLeft, MapThenFoldSet, Folds

(* The last index of a sequence is the one that FoldLeft takes first.      *)
LEMMA MaxLast ==
    ASSUME NEW k \in Nat, NEW s \in SUBSET (1 .. k + 1), k + 1 \in s
    PROVE  Max(s) = k + 1
<1>1. \A y \in s : k + 1 >= y OBVIOUS
<1>2. \A x \in s : (\A y \in s : x >= y) => x = k + 1 OBVIOUS
<1>3. \A x \in s : (\A y \in s : x >= y) <=> x = k + 1 BY <1>1, <1>2
<1>4. (CHOOSE x \in s : \A y \in s : x >= y) = (CHOOSE x \in s : x = k + 1) BY <1>3
<1>. QED BY <1>4 DEF Max

(* The function exists, for the indices of a sequence of any length.       *)
LEMMA FoldsExist ==
    ASSUME NEW map, NEW evs, NEW k \in Nat
    PROVE  \E iter : Folds(iter, map, evs, 1 .. k)
<1>. DEFINE T == {n \in Nat : ~ \E iter : Folds(iter, map, evs, 1 .. n)}
<1>. SUFFICES ASSUME T # {} PROVE FALSE OBVIOUS
<1>1. T \in SUBSET Nat OBVIOUS
<1>. HIDE DEF T
<1>2. PICK n \in T : \A m \in T : ~(m < n) BY <1>1, Least
<1>3. n \in Nat /\ ~ \E iter : Folds(iter, map, evs, 1 .. n) BY <1>2 DEF T
<1>4. n # 0
    <2>1. Folds([s \in SUBSET (1 .. 0) |-> map], map, evs, 1 .. 0)
        <3>1. \A s \in SUBSET (1 .. 0) : s = {} OBVIOUS
        <3>. QED BY <3>1 DEF Folds
    <2>. QED BY <1>3, <2>1
<1>5. PICK j \in Nat : n = j + 1 BY <1>3, <1>4
<1>6. PICK iter : Folds(iter, map, evs, 1 .. j) BY <1>2, <1>5 DEF T
<1>. DEFINE longer == [s \in SUBSET (1 .. j + 1) |->
                         IF j + 1 \in s THEN Handled(iter[s \ {j + 1}], evs[j + 1]) ELSE iter[s]]
<1>7. \A s \in SUBSET (1 .. j + 1) : s \ {j + 1} \in SUBSET (1 .. j) OBVIOUS
<1>8. \A s \in SUBSET (1 .. j) : longer[s] = iter[s]
    <2>1. \A s \in SUBSET (1 .. j) : s \in SUBSET (1 .. j + 1) /\ j + 1 \notin s OBVIOUS
    <2>. QED BY <2>1
<1>9. \A s \in SUBSET (1 .. j + 1) : j + 1 \in s =>
          longer[s] = Handled(longer[s \ {Max(s)}], evs[Max(s)])
    BY <1>7, <1>8, MaxLast
<1>10. \A s \in SUBSET (1 .. j) : s \ {Max(s)} \in SUBSET (1 .. j) OBVIOUS
<1>11. \A s \in SUBSET (1 .. j) :
          longer[s] = IF s = {} THEN map ELSE Handled(longer[s \ {Max(s)}], evs[Max(s)])
    <2>. HIDE DEF longer
    <2>. QED BY <1>6, <1>8, <1>10 DEF Folds
<1>12. \A s \in SUBSET (1 .. j + 1) : j + 1 \notin s => s \in SUBSET (1 .. j) OBVIOUS
<1>13. \A s \in SUBSET (1 .. j + 1) :
          longer[s] = IF s = {} THEN map ELSE Handled(longer[s \ {Max(s)}], evs[Max(s)])
    <2>. HIDE DEF longer
    <2>. QED BY <1>9, <1>11, <1>12
<1>14. longer = [s \in SUBSET (1 .. j + 1) |-> longer[s]] OBVIOUS
<1>15. Folds(longer, map, evs, 1 .. j + 1)
    <2>. HIDE DEF longer
    <2>. QED BY <1>13, <1>14 DEF Folds
<1>. QED BY <1>3, <1>5, <1>15

(* FoldLeft gives the end of some path ...                                 *)
LEMMA FoldTrace ==
    ASSUME NEW S, NEW evs \in Seq(S), NEW map
    PROVE  \E path : Trace(path, map, evs) /\ FoldLeft(Handled, map, evs) = path[Len(evs)]
<1>. DEFINE iter == CHOOSE f : Folds(f, map, evs, DOMAIN evs)
            path == [n \in 0 .. Len(evs) |-> iter[1 .. n]]
<1>1. Len(evs) \in Nat /\ DOMAIN evs = 1 .. Len(evs) OBVIOUS
<1>2. Folds(iter, map, evs, 1 .. Len(evs)) BY <1>1, FoldsExist
<1>3. FoldLeft(Handled, map, evs) = iter[1 .. Len(evs)] BY <1>1, FoldLeftIs
<1>. HIDE DEF iter
<1>4. iter[{}] = map BY <1>2 DEF Folds
<1>5. \A k \in Nat : k + 1 <= Len(evs) => iter[1 .. k + 1] = Handled(iter[1 .. k], evs[k + 1])
    <2>. SUFFICES ASSUME NEW k \in Nat, k + 1 <= Len(evs)
                  PROVE  iter[1 .. k + 1] = Handled(iter[1 .. k], evs[k + 1])
        OBVIOUS
    <2>1. 1 .. k + 1 \in SUBSET (1 .. Len(evs)) BY <1>1
    <2>2. k + 1 \in 1 .. k + 1 BY <1>1
    <2>3. Max(1 .. k + 1) = k + 1 BY <2>2, MaxLast
    <2>4. (1 .. k + 1) \ {k + 1} = 1 .. k OBVIOUS
    <2>. QED BY <1>2, <2>1, <2>2, <2>3, <2>4 DEF Folds
<1>6. path[0] = map
    <2>1. 1 .. 0 = {} OBVIOUS
    <2>. QED BY <1>1, <1>4, <2>1
<1>7. ASSUME NEW n \in 1 .. Len(evs) PROVE path[n] = Handled(path[n - 1], evs[n])
    <2>1. PICK k \in Nat : n = k + 1 BY <1>1
    <2>2. k + 1 <= Len(evs) /\ k \in 0 .. Len(evs) /\ n \in 0 .. Len(evs) /\ n - 1 = k
        BY <1>1, <2>1
    <2>. QED BY <1>5, <2>1, <2>2
<1>8. path[Len(evs)] = iter[1 .. Len(evs)] BY <1>1
<1>. QED BY <1>3, <1>6, <1>7, <1>8 DEF Trace

(* ... and there is one path only, as far as the events go.                *)
LEMMA OneTrace ==
    ASSUME NEW S, NEW evs \in Seq(S), NEW map, NEW p, NEW q,
           Trace(p, map, evs), Trace(q, map, evs)
    PROVE  p[Len(evs)] = q[Len(evs)]
<1>. DEFINE T == {n \in 0 .. Len(evs) : p[n] # q[n]}
<1>1. Len(evs) \in Nat OBVIOUS
<1>2. ASSUME T # {} PROVE FALSE
    <2>1. T \in SUBSET Nat
        <3>1. 0 .. Len(evs) \subseteq Nat BY <1>1
        <3>. QED BY <3>1
    <2>. HIDE DEF T
    <2>2. PICK n \in T : \A m \in T : ~(m < n) BY <1>2, <2>1, Least
    <2>3. n \in 0 .. Len(evs) /\ p[n] # q[n] BY <2>2 DEF T
    <2>4. n # 0 BY <2>3 DEF Trace
    <2>5. n - 1 \in 0 .. Len(evs) /\ n - 1 < n /\ n \in 1 .. Len(evs) BY <1>1, <2>3, <2>4
    <2>6. p[n - 1] = q[n - 1] BY <2>2, <2>5 DEF T
    <2>7. p[n] = Handled(p[n - 1], evs[n]) /\ q[n] = Handled(q[n - 1], evs[n])
        BY <2>5 DEF Trace
    <2>. QED BY <2>3, <2>6, <2>7
<1>. QED BY <1>1, <1>2

(* No event leaves the map as it is.                                       *)
LEMMA FoldNone ==
    ASSUME NEW map
    PROVE  FoldLeft(Handled, map, <<>>) = map
<1>1. <<>> \in Seq({}) /\ Len(<<>>) = 0 OBVIOUS
<1>2. PICK p : Trace(p, map, <<>>) /\ FoldLeft(Handled, map, <<>>) = p[Len(<<>>)]
    BY <1>1, FoldTrace
<1>. QED BY <1>1, <1>2 DEF Trace

(* A further event is handled after all the others.                        *)
LEMMA FoldLast ==
    ASSUME NEW S, NEW evs \in Seq(S), NEW ev \in S, NEW map
    PROVE  FoldLeft(Handled, map, Append(evs, ev))
              = Handled(FoldLeft(Handled, map, evs), ev)
<1>. DEFINE n == Len(evs)
            more == Append(evs, ev)
<1>1. PICK p : Trace(p, map, evs) /\ FoldLeft(Handled, map, evs) = p[n] BY FoldTrace
<1>. DEFINE q == [i \in 0 .. n + 1 |-> IF i = n + 1 THEN Handled(p[n], ev) ELSE p[i]]
<1>2. more \in Seq(S) /\ Len(more) = n + 1 /\ n \in Nat /\ more[n + 1] = ev
    OBVIOUS
<1>3. \A i \in 1 .. n : more[i] = evs[i] OBVIOUS
<1>. HIDE DEF n, more
<1>4. \A i \in 1 .. n : p[i] = Handled(p[i - 1], evs[i]) BY <1>1 DEF Trace, n
<1>5. q[0] = map BY <1>1, <1>2 DEF Trace
<1>6. ASSUME NEW i \in 1 .. n + 1 PROVE q[i] = Handled(q[i - 1], more[i])
    <2>1. CASE i = n + 1
        <3>1. q[i - 1] = p[n] /\ q[i] = Handled(p[n], ev) BY <1>2, <2>1
        <3>. QED BY <1>2, <2>1, <3>1
    <2>2. CASE i # n + 1
        <3>1. i \in 1 .. n /\ i - 1 \in 0 .. n + 1 /\ i - 1 # n + 1 BY <1>2, <2>2
        <3>2. q[i - 1] = p[i - 1] /\ q[i] = p[i] BY <1>2, <2>2, <3>1
        <3>. QED BY <1>3, <1>4, <3>1, <3>2
    <2>. QED BY <2>1, <2>2
<1>7. q[n + 1] = Handled(p[n], ev) BY <1>2
<1>. HIDE DEF q
<1>8. Trace(q, map, more) BY <1>2, <1>5, <1>6 DEF Trace
<1>9. PICK r : Trace(r, map, more) /\ FoldLeft(Handled, map, more) = r[Len(more)]
    BY <1>2, FoldTrace
<1>10. r[Len(more)] = q[Len(more)] BY <1>2, <1>8, <1>9, OneTrace
<1>. QED BY <1>1, <1>2, <1>7, <1>9, <1>10 DEF more

(* The first event is handled before all the others.                       *)
LEMMA FoldFirst ==
    ASSUME NEW S, NEW evs \in Seq(S), NEW ev \in S, NEW map
    PROVE  FoldLeft(Handled, map, <<ev>> \o evs)
              = FoldLeft(Handled, Handled(map, ev), evs)
<1>. DEFINE n == Len(evs)
            more == <<ev>> \o evs
<1>1. PICK p : /\ Trace(p, Handled(map, ev), evs)
              /\ FoldLeft(Handled, Handled(map, ev), evs) = p[n]
    BY FoldTrace
<1>. DEFINE q == [i \in 0 .. n + 1 |-> IF i = 0 THEN map ELSE p[i - 1]]
<1>2. more \in Seq(S) /\ Len(more) = n + 1 /\ n \in Nat /\ more[1] = ev
    OBVIOUS
<1>3. \A i \in 2 .. n + 1 : more[i] = evs[i - 1] OBVIOUS
<1>. HIDE DEF n, more
<1>4. p[0] = Handled(map, ev) BY <1>1 DEF Trace
<1>5. \A i \in 1 .. n : p[i] = Handled(p[i - 1], evs[i]) BY <1>1 DEF Trace, n
<1>6. q[0] = map BY <1>2
<1>7. ASSUME NEW i \in 1 .. n + 1 PROVE q[i] = Handled(q[i - 1], more[i])
    <2>1. CASE i = 1
        <3>1. q[i - 1] = map /\ q[i] = p[0] BY <1>2, <2>1
        <3>. QED BY <1>2, <1>4, <2>1, <3>1
    <2>2. CASE i # 1
        <3>1. i \in 2 .. n + 1 /\ i - 1 \in 1 .. n BY <1>2, <2>2
        <3>2. q[i - 1] = p[(i - 1) - 1] /\ q[i] = p[i - 1] BY <1>2, <3>1
        <3>. QED BY <1>3, <1>5, <3>1, <3>2
    <2>. QED BY <2>1, <2>2
<1>8. q[n + 1] = p[n] BY <1>2
<1>. HIDE DEF q
<1>9. Trace(q, map, more) BY <1>2, <1>6, <1>7 DEF Trace
<1>10. PICK r : Trace(r, map, more) /\ FoldLeft(Handled, map, more) = r[Len(more)]
    BY <1>2, FoldTrace
<1>11. r[Len(more)] = q[Len(more)] BY <1>2, <1>9, <1>10, OneTrace
<1>. QED BY <1>1, <1>2, <1>8, <1>10, <1>11 DEF more

-----------------------------------------------------------------------------
(* The invariant. *)

(* A map as Handled takes and returns it.                                  *)
IsMap(m) ==
    /\ m = [known |-> m.known, dead |-> m.dead]
    /\ m.dead \in BOOLEAN

(* Before the goroutines run there is nothing on its way.                  *)
Channels ==
    service \in {"load", "watch"} =>
        /\ watcher = "none" /\ update = "none"
        /\ notify = <<>> /\ events = <<>>

IInv == TypeOK /\ IsMap(noticed) /\ Channels /\ InStep

(* An event makes a map of a map ...                                       *)
LEMMA HandledMap ==
    ASSUME NEW m, IsMap(m), NEW ev
    PROVE  IsMap(Handled(m, ev))
BY DEF Handled, IsMap

(* ... the paths of which are those of files or of the directory.          *)
LEMMA HandledPaths ==
    ASSUME NEW m, IsMap(m), NEW ev,
           \A k \in DOMAIN m.known : m.known[k] \in File \cup {<<>>}
    PROVE  \A k \in DOMAIN Handled(m, ev).known :
              Handled(m, ev).known[k] \in File \cup {<<>>}
<1>. DEFINE c == Changed(m.known, ev)
<1>1. \A k \in DOMAIN c : c[k] \in File \cup {<<>>}
    BY DEF Changed, Without, Restrict, Path
<1>. HIDE DEF c
<1>2. Handled(m, ev).known \in {m.known, c}
    BY DEF Handled, IsMap, c
<1>. QED BY <1>1, <1>2

(* Rearranging what is on its way.                                         *)
LEMMA HeadAndTail ==
    ASSUME NEW S, NEW s \in Seq(S), s # <<>>
    PROVE  Head(s) \in S /\ Tail(s) \in Seq(S) /\ <<Head(s)>> \o Tail(s) = s
<1>1. Head(s) \in S /\ Tail(s) \in Seq(S) /\ Len(Tail(s)) = Len(s) - 1
    OBVIOUS
<1>. DEFINE left == <<Head(s)>> \o Tail(s)
<1>2. left \in Seq(S) /\ Len(left) = Len(s) BY <1>1
<1>3. ASSUME NEW i \in 1 .. Len(left) PROVE left[i] = s[i] BY <1>1, <1>2
<1>. HIDE DEF left
<1>4. left = s BY <1>2, <1>3, SeqEqual
<1>. QED BY <1>1, <1>4 DEF left

(* What is added at the end stays at the end.                              *)
LEMMA AppendToConcat ==
    ASSUME NEW S, NEW a \in Seq(S), NEW b \in Seq(S), NEW x \in S
    PROVE  a \o Append(b, x) = Append(a \o b, x)
<1>. DEFINE left == a \o Append(b, x)
            right == Append(a \o b, x)
<1>1. left \in Seq(S) /\ right \in Seq(S) /\ Len(left) = Len(right) OBVIOUS
<1>2. ASSUME NEW i \in 1 .. Len(left) PROVE left[i] = right[i] OBVIOUS
<1>. QED BY <1>1, <1>2, SeqEqual

(* What is on its way is a sequence of events.                             *)
LEMMA PendingType ==
    ASSUME TypeOK
    PROVE  Pending \in Seq(Event)
BY DEF TypeOK, Pending

(* A goroutine that is busy has one event in hand ...                      *)
LEMMA OneHeld ==
    ASSUME NEW S, NEW s \in Seq(S), Len(s) = 1
    PROVE  s[1] \in S /\ s = <<s[1]>>
<1>1. s[1] \in S OBVIOUS
<1>2. <<s[1]>> \in Seq(S) /\ Len(<<s[1]>>) = 1 BY <1>1
<1>3. ASSUME NEW i \in 1 .. Len(s) PROVE s[i] = <<s[1]>>[i] OBVIOUS
<1>4. s = <<s[1]>> BY <1>2, <1>3, SeqEqual
<1>. QED BY <1>1, <1>4

(* ... and none otherwise.                                                 *)
LEMMA EmptyHeld ==
    ASSUME NEW S, NEW s \in Seq(S), Len(s) = 0
    PROVE  s = <<>>
OBVIOUS

-----------------------------------------------------------------------------
(* The initial states. *)
LEMMA InitIInv == Init => IInv
<1>. SUFFICES ASSUME Init PROVE IInv OBVIOUS
<1>1. <<>> \in Seq(Event) /\ Len(<<>>) = 0 OBVIOUS
<1>2. DOMAIN modules = {} BY DEF Init, Nothing
<1>3. TypeOK BY <1>1, <1>2, ChannelAssumption, ChangesAssumption DEF Init, TypeOK
<1>4. IsMap(noticed) BY DEF Init, IsMap
<1>5. Channels BY DEF Init, Channels
<1>6. Pending = <<>> BY DEF Init, Pending
<1>7. Map = noticed BY DEF Init, Map
<1>8. InStep BY <1>6, <1>7, FoldNone DEF InStep
<1>. QED BY <1>3, <1>4, <1>5, <1>8 DEF IInv

-----------------------------------------------------------------------------
(* The steps. *)

(* A step that leaves the map, and what is on its way to it, keeps them in *)
(* step.                                                                   *)
LEMMA SameLag ==
    ASSUME InStep, Map' = Map, Pending' = Pending, noticed' = noticed
    PROVE  InStep'
BY DEF InStep

(* A notification that gets into the channel is the last on its way.       *)
LEMMA StepChange ==
    ASSUME IInv, NEW type \in {"created", "rename", "dropped"}, NEW f \in File, Change(type, f)
    PROVE  IInv'
<1>. DEFINE ev == [type |-> type, file |-> f]
<1>1. ev \in Event BY DEF Event
<1>2. TypeOK /\ IsMap(noticed) /\ Channels /\ InStep BY DEF IInv
<1>3. /\ UNCHANGED <<service, watcher, held, events, update, handling, modules>>
      /\ dir' = IF type = "created" THEN dir \cup {f} ELSE dir \ {f}
      /\ changes < MaxChanges /\ changes' = changes + 1
      /\ Report(ev)
    BY DEF Change
<1>. HIDE DEF ev
<1>4. dir' \subseteq File /\ changes' \in 0 .. MaxChanges
    BY <1>2, <1>3, ChangesAssumption DEF TypeOK
<1>5. Map' = Map BY <1>3 DEF Map
<1>6. CASE UNCHANGED <<notify, noticed>>
    <2>1. TypeOK' BY <1>2, <1>3, <1>4, <1>6 DEF TypeOK
    <2>2. Pending' = Pending BY <1>3, <1>6 DEF Pending
    <2>3. InStep' BY <1>2, <1>5, <1>6, <2>2, SameLag
    <2>4. IsMap(noticed)' BY <1>2, <1>6 DEF IsMap
    <2>5. Channels' BY <1>2, <1>3, <1>6 DEF Channels
    <2>. QED BY <2>1, <2>3, <2>4, <2>5 DEF IInv
<1>7. CASE /\ watcher \in {"select", "sending"} /\ Len(notify) < NotifySize
           /\ notify' = Append(notify, ev) /\ noticed' = Handled(noticed, ev)
    <2>1. notify \in Seq(Event) /\ Len(notify) \in Nat BY <1>2 DEF TypeOK
    <2>2. notify' \in Seq(Event) /\ Len(notify') <= NotifySize
        BY <1>1, <1>7, <2>1, ChannelAssumption
    <2>3. IsMap(noticed') BY <1>2, <1>7, HandledMap
    <2>4. TypeOK'
        BY <1>2, <1>3, <1>4, <2>2, <2>3 DEF TypeOK, IsMap
    <2>5. handling \o events \o held \in Seq(Event) BY <1>2 DEF TypeOK
    <2>6. Pending' = Append(Pending, ev)
        BY <1>1, <1>3, <1>7, <2>1, <2>5, AppendToConcat DEF Pending
    <2>7. FoldLeft(Handled, Map, Append(Pending, ev))
             = Handled(FoldLeft(Handled, Map, Pending), ev)
        BY <1>1, <1>2, PendingType, FoldLast
    <2>8. InStep' BY <1>2, <1>5, <1>7, <2>6, <2>7 DEF InStep
    <2>9. Channels' BY <1>2, <1>3, <1>7 DEF Channels
    <2>. QED BY <2>3, <2>4, <2>8, <2>9 DEF IInv
<1>. QED BY <1>3, <1>6, <1>7 DEF Report

(* loadModules makes the map of the files there are, and nothing is on its *)
(* way yet.                                                                *)
LEMMA StepLoadModules ==
    ASSUME IInv, LoadModules
    PROVE  IInv'
<1>1. TypeOK /\ IsMap(noticed) /\ Channels /\ InStep BY DEF IInv
<1>2. /\ service = "load" /\ service' = "watch" /\ modules' \in Loaded
      /\ noticed' = [noticed EXCEPT !.known = modules']
      /\ UNCHANGED <<dir, changes, notify, watcher, held, events, update, handling>>
    BY DEF LoadModules, directory
<1>3. \A k \in DOMAIN modules' : modules'[k] \in File
    <2>1. Loadable \subseteq File BY <1>1 DEF Loadable, TypeOK
    <2>2. modules' \in [{LoadKey(f) : f \in Loadable} -> Loadable] BY <1>2 DEF Loaded
    <2>. QED BY <2>1, <2>2
<1>4. IsMap(noticed') BY <1>1, <1>2 DEF IsMap
<1>5. TypeOK' BY <1>1, <1>2, <1>3, <1>4 DEF TypeOK, IsMap
<1>6. Channels' BY <1>1, <1>2 DEF Channels
<1>7. held = <<>> /\ handling = <<>> BY <1>1, <1>2, EmptyHeld DEF TypeOK, Channels
<1>8. Pending = <<>> /\ Pending' = <<>> BY <1>1, <1>2, <1>7 DEF Pending, Channels
<1>9. noticed = Map BY <1>1, <1>8, FoldNone DEF InStep
<1>10. noticed' = Map' BY <1>2, <1>9 DEF Map
<1>11. InStep' BY <1>8, <1>10, FoldNone DEF InStep
<1>. QED BY <1>4, <1>5, <1>6, <1>11 DEF IInv

(* The steps that touch neither the map nor a channel.                     *)
LEMMA StepControl ==
    ASSUME IInv, FilesWatcher \/ Stop \/ WatcherExits \/ UpdateExits
    PROVE  IInv'
<1>1. TypeOK /\ IsMap(noticed) /\ Channels /\ InStep BY DEF IInv
<1>2. UNCHANGED <<dir, changes, notify, held, events, handling, modules, noticed>>
    BY DEF FilesWatcher, Stop, WatcherExits, UpdateExits, directory
<1>3. TypeOK'
    BY <1>1, <1>2 DEF FilesWatcher, Stop, WatcherExits, UpdateExits, TypeOK, Channels
<1>4. Channels'
    BY <1>1, <1>2 DEF FilesWatcher, Stop, WatcherExits, UpdateExits, Channels
<1>5. Map' = Map
    BY <1>2 DEF FilesWatcher, Stop, WatcherExits, UpdateExits, Map
<1>6. Pending' = Pending BY <1>2 DEF Pending
<1>7. InStep' BY <1>1, <1>2, <1>5, <1>6, SameLag
<1>8. IsMap(noticed)' BY <1>1, <1>2 DEF IsMap
<1>. QED BY <1>3, <1>4, <1>7, <1>8 DEF IInv

(* The watcher takes the oldest notification.                              *)
LEMMA StepWatcherReceives ==
    ASSUME IInv, WatcherReceives
    PROVE  IInv'
<1>1. TypeOK /\ IsMap(noticed) /\ Channels /\ InStep BY DEF IInv
<1>2. /\ watcher = "select" /\ notify # <<>> /\ watcher' = "sending"
      /\ held' = <<Head(notify)>> /\ notify' = Tail(notify)
      /\ UNCHANGED <<dir, changes, service, events, update, handling, modules, noticed>>
    BY DEF WatcherReceives, directory
<1>3. notify \in Seq(Event) /\ handling \in Seq(Event) /\ events \in Seq(Event)
    BY <1>1 DEF TypeOK
<1>4. Head(notify) \in Event /\ Tail(notify) \in Seq(Event)
      /\ <<Head(notify)>> \o Tail(notify) = notify
    BY <1>2, <1>3, HeadAndTail
<1>5. held = <<>> BY <1>1, <1>2, EmptyHeld DEF TypeOK
<1>6. Pending' = Pending
    <2>. DEFINE a == handling \o events
                b == <<Head(notify)>>
    <2>1. a \in Seq(Event) /\ b \in Seq(Event) BY <1>3, <1>4
    <2>2. Pending' = (a \o b) \o Tail(notify) BY <1>2 DEF Pending
    <2>3. Pending = (a \o <<>>) \o notify BY <1>5 DEF Pending
    <2>. HIDE DEF a
    <2>4. a \o <<>> = a BY <2>1, ConcatEmptySeq
    <2>5. (a \o b) \o Tail(notify) = a \o (b \o Tail(notify))
        BY <1>4, <2>1, ConcatAssociative
    <2>. QED BY <1>4, <2>2, <2>3, <2>4, <2>5
<1>7. held' \in Seq(Event) /\ Len(held') = 1 BY <1>2, <1>4
<1>8. notify' \in Seq(Event) /\ Len(notify') <= NotifySize
    BY <1>1, <1>2, <1>4, ChannelAssumption DEF TypeOK
<1>9. TypeOK' BY <1>1, <1>2, <1>7, <1>8 DEF TypeOK
<1>10. Channels' BY <1>1, <1>2 DEF Channels
<1>11. Map' = Map BY <1>2 DEF Map
<1>12. InStep' BY <1>1, <1>2, <1>6, <1>11, SameLag
<1>13. IsMap(noticed)' BY <1>1, <1>2 DEF IsMap
<1>. QED BY <1>9, <1>10, <1>12, <1>13 DEF IInv

(* The watcher sends its event behind those in the channel.                *)
LEMMA StepWatcherSends ==
    ASSUME IInv, WatcherSends
    PROVE  IInv'
<1>1. TypeOK /\ IsMap(noticed) /\ Channels /\ InStep BY DEF IInv
<1>2. /\ watcher = "sending" /\ Len(events) < EventSize
      /\ events' = events \o held /\ held' = <<>> /\ watcher' = "select"
      /\ UNCHANGED <<dir, changes, service, notify, update, handling, modules, noticed>>
    BY DEF WatcherSends, directory, RoomForEvent
<1>3. /\ notify \in Seq(Event) /\ handling \in Seq(Event) /\ events \in Seq(Event)
      /\ held \in Seq(Event) /\ Len(held) = 1
    BY <1>1, <1>2 DEF TypeOK
<1>4. events' \in Seq(Event) /\ Len(events') <= EventSize
    <2>1. Len(events \o held) = Len(events) + Len(held) BY <1>3, ConcatProperties
    <2>2. Len(events) \in Nat BY <1>3
    <2>. QED BY <1>2, <1>3, <2>1, <2>2, ChannelAssumption
<1>5. Pending' = Pending
    <2>. DEFINE b == handling \o (events \o held)
    <2>1. Pending' = (b \o <<>>) \o notify BY <1>2 DEF Pending
    <2>2. (handling \o events) \o held = handling \o (events \o held)
        BY <1>3, ConcatAssociative
    <2>3. b \in Seq(Event) BY <1>3
    <2>4. Pending = b \o notify BY <2>2 DEF Pending
    <2>. HIDE DEF b
    <2>5. b \o <<>> = b BY <2>3, ConcatEmptySeq
    <2>. QED BY <2>1, <2>4, <2>5
<1>6. held' \in Seq(Event) /\ Len(held') = 0 BY <1>2
<1>7. TypeOK' BY <1>1, <1>2, <1>4, <1>6 DEF TypeOK
<1>8. Channels' BY <1>1, <1>2 DEF Channels
<1>9. Map' = Map BY <1>2 DEF Map
<1>10. InStep' BY <1>1, <1>2, <1>5, <1>9, SameLag
<1>11. IsMap(noticed)' BY <1>1, <1>2 DEF IsMap
<1>. QED BY <1>7, <1>8, <1>10, <1>11 DEF IInv

(* update() takes the oldest event of the channel.                         *)
LEMMA StepUpdateReceives ==
    ASSUME IInv, UpdateReceives
    PROVE  IInv'
<1>1. TypeOK /\ IsMap(noticed) /\ Channels /\ InStep BY DEF IInv
<1>2. /\ update = "select" /\ events # <<>> /\ update' = "event"
      /\ handling' = <<Head(events)>> /\ events' = Tail(events)
      /\ UNCHANGED <<dir, changes, service, notify, watcher, held, modules, noticed>>
    BY DEF UpdateReceives, directory
<1>3. events \in Seq(Event) BY <1>1 DEF TypeOK
<1>4. Head(events) \in Event /\ Tail(events) \in Seq(Event)
      /\ <<Head(events)>> \o Tail(events) = events
    BY <1>2, <1>3, HeadAndTail
<1>5. handling = <<>> BY <1>1, <1>2, EmptyHeld DEF TypeOK
<1>6. Pending' = Pending
    <2>1. handling \o events = events BY <1>3, <1>5, ConcatEmptySeq
    <2>2. handling' \o events' = events BY <1>2, <1>4
    <2>. QED BY <1>2, <2>1, <2>2 DEF Pending
<1>7. handling' \in Seq(Event) /\ Len(handling') = 1 BY <1>2, <1>4
<1>8. events' \in Seq(Event) /\ Len(events') <= EventSize
    BY <1>1, <1>2, <1>4, ChannelAssumption DEF TypeOK
<1>9. TypeOK' BY <1>1, <1>2, <1>7, <1>8 DEF TypeOK
<1>10. Channels' BY <1>1, <1>2 DEF Channels
<1>11. Map' = Map BY <1>2 DEF Map
<1>12. InStep' BY <1>1, <1>2, <1>6, <1>11, SameLag
<1>13. IsMap(noticed)' BY <1>1, <1>2 DEF IsMap
<1>. QED BY <1>9, <1>10, <1>12, <1>13 DEF IInv

(* update() changes the map, or panics, as its event says.                 *)
LEMMA StepUpdateHandles ==
    ASSUME IInv, UpdateHandles
    PROVE  IInv'
<1>1. TypeOK /\ IsMap(noticed) /\ Channels /\ InStep BY DEF IInv
<1>. DEFINE ev == handling[1]
            map == Handled(Map, ev)
            later == events \o held \o notify
<1>2. /\ update = "event" /\ service # "crashed"
      /\ modules' = map.known
      /\ service' = IF map.dead THEN "crashed" ELSE service
      /\ handling' = <<>> /\ update' = "select"
      /\ UNCHANGED <<dir, changes, notify, watcher, held, events, noticed>>
    BY DEF UpdateHandles, directory, AfterEvent
<1>3. /\ notify \in Seq(Event) /\ held \in Seq(Event) /\ events \in Seq(Event)
      /\ handling \in Seq(Event) /\ Len(handling) = 1
    BY <1>1, <1>2 DEF TypeOK
<1>4. ev \in Event /\ handling = <<ev>> BY <1>3, OneHeld
<1>5. IsMap(Map) /\ Map.known = modules /\ Map.dead = FALSE BY <1>2 DEF Map, IsMap
<1>. HIDE DEF ev
<1>6. IsMap(map) BY <1>5, HandledMap
<1>7. \A k \in DOMAIN modules' : modules'[k] \in File \cup {<<>>}
    <2>1. \A k \in DOMAIN Map.known : Map.known[k] \in File \cup {<<>>}
        BY <1>1, <1>5 DEF TypeOK
    <2>. QED BY <1>2, <1>5, <2>1, HandledPaths
<1>8. Map' = map
    <2>. HIDE DEF map
    <2>1. Map' = [known |-> map.known, dead |-> map.dead]
        BY <1>2, <1>6 DEF Map, IsMap
    <2>. QED BY <1>6, <2>1 DEF IsMap
<1>9. later \in Seq(Event) BY <1>3
<1>10. Pending = <<ev>> \o later
    <2>1. <<ev>> \in Seq(Event) /\ events \o held \in Seq(Event) BY <1>3, <1>4
    <2>2. (<<ev>> \o events) \o held = <<ev>> \o (events \o held)
        BY <1>3, <2>1, ConcatAssociative
    <2>3. (<<ev>> \o (events \o held)) \o notify = <<ev>> \o ((events \o held) \o notify)
        BY <1>3, <2>1, ConcatAssociative
    <2>. QED BY <1>4, <2>2, <2>3 DEF Pending
<1>11. Pending' = later
    <2>1. <<>> \o events = events BY <1>3, ConcatEmptySeq
    <2>. QED BY <1>2, <2>1 DEF Pending
<1>. HIDE DEF later
<1>12. FoldLeft(Handled, Map, <<ev>> \o later) = FoldLeft(Handled, map, later)
    BY <1>4, <1>9, FoldFirst
<1>. HIDE DEF map
<1>13. InStep' BY <1>1, <1>2, <1>8, <1>10, <1>11, <1>12 DEF InStep
<1>14. service' \in {service, "crashed"} BY <1>2
<1>15. handling' \in Seq(Event) /\ Len(handling') = 0 BY <1>2
<1>16. TypeOK' BY <1>1, <1>2, <1>7, <1>14, <1>15 DEF TypeOK
<1>17. Channels' BY <1>1, <1>2, <1>14 DEF Channels
<1>18. IsMap(noticed)' BY <1>1, <1>2 DEF IsMap
<1>. QED BY <1>13, <1>16, <1>17, <1>18 DEF IInv

(* Every step keeps the invariant.                                         *)
LEMMA NextIInv == IInv /\ [Next]_vars => IInv'
<1>. SUFFICES ASSUME IInv, [Next]_vars PROVE IInv' OBVIOUS
<1>1. CASE Directory
    BY <1>1, StepChange DEF Directory, CreateFile, RemoveFile, MoveFileAway
<1>2. CASE LoadModules BY <1>2, StepLoadModules
<1>3. CASE FilesWatcher BY <1>3, StepControl
<1>4. CASE Stop BY <1>4, StepControl
<1>5. CASE Watcher
    BY <1>5, StepWatcherReceives, StepWatcherSends, StepControl DEF Watcher
<1>6. CASE Update
    BY <1>6, StepUpdateReceives, StepUpdateHandles, StepControl DEF Update
<1>7. CASE UNCHANGED vars
    <2>1. UNCHANGED <<dir, changes, service, notify, watcher, held, events, update, handling,
                      modules, noticed>>
        BY <1>7 DEF vars, directory
    <2>2. Map' = Map /\ Pending' = Pending BY <2>1 DEF Map, Pending
    <2>3. InStep' BY <2>1, <2>2, SameLag DEF IInv
    <2>. QED BY <2>1, <2>3 DEF IInv, TypeOK, IsMap, Channels
<1>. QED BY <1>1, <1>2, <1>3, <1>4, <1>5, <1>6, <1>7 DEF Next

(* The invariant always holds.                                             *)
LEMMA Invariance == Spec => []IInv
BY InitIInv, NextIInv, PTL DEF Spec

-----------------------------------------------------------------------------
(* The theorems. *)

(* Every variable has its type, no channel holds more than it has room     *)
(* for, and a goroutine has an event in hand exactly while it is busy with *)
(* it (watcher.go:60-85, manager.go:250-278).                              *)
THEOREM TypeCorrect == Spec => []TypeOK
<1>1. IInv => TypeOK BY DEF IInv
<1>. QED BY <1>1, Invariance, PTL

(* Whatever the names of the files, the order of their changes and the     *)
(* sizes of the channels: applied in order, the events that are on their   *)
(* way make of the map what the notifications describe.  None is lost,     *)
(* doubled or overtaken between the channel of the library and the map     *)
(* (watcher.go:60-85, manager.go:250-278).                                 *)
THEOREM MapInStep == Spec => []InStep
<1>1. IInv => InStep BY DEF IInv
<1>. QED BY <1>1, Invariance, PTL

=============================================================================

----------------------------- MODULE ModuleWatch -----------------------------
(***************************************************************************)
(* How the task manager keeps its map of plugins in step with the plugin   *)
(* directory: node/task/watcher.go, and loadModules, filesWatcher,         *)
(* parseModuleName and the file events of update() in node/task/manager.go.*)
(*                                                                         *)
(* Start reads the directory once and then asks for notifications of its   *)
(* changes.  A notification passes the channel of the notify library,      *)
(* which drops what does not fit, the hand of the watcher's goroutine,     *)
(* the channel of Events, and the hand of update(), which changes the map. *)
(*                                                                         *)
(* A file name is the sequence of its characters: the code finds the key   *)
(* of a module by cutting its file name, and cuts it in one way at Start   *)
(* and in another for an event.  The directory belongs to whoever installs *)
(* plugins.  Manager.mu, which update() takes for every change of the map, *)
(* is left out: TaskManager shows who else holds it.                       *)
(***************************************************************************)
EXTENDS Naturals, Sequences, SequencesExt

CONSTANTS
    File,        \* names that files of the plugin directory can have
    Default,     \* DefaultVersion, "0.0.1", as a sequence too
    NotifySize,  \* capacity of the channel of notifications
    EventSize,   \* capacity of Watcher.chanEvent
    MaxChanges   \* bound: changes of the directory

ASSUME FileAssumption == \A f \in File : f \in Seq(STRING) /\ f # <<>>
ASSUME DefaultAssumption == Default \in Seq(STRING)
ASSUME ChannelAssumption == NotifySize \in Nat \ {0} /\ EventSize \in Nat \ {0}
ASSUME ChangesAssumption == MaxChanges \in Nat

VARIABLES
    dir,        \* the files in the directory
    changes,    \* changes of the directory so far
    service,    \* Start before loadModules ("load") or before filesWatcher ("watch"),
                \* "up", "stopped", or "crashed" when update() panicked
    notify,     \* contents of the channel of notifications
    watcher,    \* the watcher's goroutine: "none", "select", "sending" or "exited"
    held,       \* the event it is sending, if any
    events,     \* contents of Watcher.chanEvent
    update,     \* update(): "none", at its "select", with an "event", or "exited"
    handling,   \* the event it has taken, if any
    modules,    \* Manager.modules: key -> path of its file in the directory
    noticed     \* history: what every notification that got into the channel,
                \* had it been handled at once, would have made of the map

directory == <<dir, changes>>
vars == <<directory, service, notify, watcher, held, events, update, handling, modules,
          noticed>>

Event == [type : {"created", "rename", "dropped"}, file : File]

-----------------------------------------------------------------------------
(* Names. *)

Positions(f, c) == {i \in 1 .. Len(f) : f[i] = c}

(* parseModuleName: what is before the last '@' and what is between it and *)
(* the last three characters.  The key of a module is name@version.        *)
ParseModuleName(f) ==
    LET at == Positions(f, "@")
        last == CHOOSE i \in at : \A j \in at : j <= i
    IN  IF at = {} THEN <<SubSeq(f, 1, Len(f) - 3), Default>>
        ELSE <<SubSeq(f, 1, last - 1), SubSeq(f, last + 1, Len(f) - 3)>>

(* It slices out of range when there are less than three characters, or    *)
(* an '@' among the last three.                                            *)
Panics(f) == Len(f) < 3 \/ \E i \in Positions(f, "@") : i > Len(f) - 3

EndsInSo(f) == Len(f) >= 3 /\ SubSeq(f, Len(f) - 2, Len(f)) = <<".", "s", "o">>

(* strings.Split(f, ".")[0] *)
Stem(f) == SubSeq(f, 1, (CHOOSE i \in Positions(f, ".") :
                            \A j \in Positions(f, ".") : i <= j) - 1)

(* The key under which loadModules registers a file: that of its whole name. *)
LoadKey(f) == ParseModuleName(f)

(* The key which update() computes for an event: that of the stem. *)
EventKey(f) == ParseModuleName(Stem(f))

(* update() makes the path of a module before it has the name of its file, *)
(* so that it is the path of the directory itself.                         *)
Path(f) == <<>>

-----------------------------------------------------------------------------
(* What an event does to the map; dead says that its name made update()    *)
(* panic, which ends the process and all further changes.                  *)
Without(m, k) == Restrict(m, DOMAIN m \ {k})

Changed(m, ev) ==
    LET k == EventKey(ev.file) IN
    CASE ev.type = "created" ->
            [x \in DOMAIN m \cup {k} |-> IF x \in DOMAIN m THEN m[x] ELSE Path(ev.file)]
      [] ev.type = "dropped" -> Without(m, k)
      [] OTHER -> m

Handled(map, ev) ==
    IF map.dead \/ ~EndsInSo(ev.file) THEN map
    ELSE IF Panics(Stem(ev.file)) THEN [map EXCEPT !.dead = TRUE]
    ELSE [map EXCEPT !.known = Changed(@, ev)]

Map == [known |-> modules, dead |-> service = "crashed"]

Nothing == [k \in {} |-> <<>>]

Init ==
    /\ dir \in SUBSET File
    /\ changes = 0
    /\ service = "load"
    /\ notify = <<>>
    /\ watcher = "none" /\ held = <<>>
    /\ events = <<>>
    /\ update = "none" /\ handling = <<>>
    /\ modules = Nothing
    /\ noticed = [known |-> Nothing, dead |-> FALSE]

-----------------------------------------------------------------------------
(* The directory.  A file that is moved in is reported as created, one     *)
(* that is moved away as renamed.  The library does not wait for room in   *)
(* the channel it was given.                                               *)

Report(ev) ==
    IF watcher \in {"select", "sending"} /\ Len(notify) < NotifySize
    THEN notify' = Append(notify, ev) /\ noticed' = Handled(noticed, ev)
    ELSE UNCHANGED <<notify, noticed>>

Change(type, f) ==
    /\ service # "crashed"
    /\ changes < MaxChanges
    /\ changes' = changes + 1
    /\ dir' = IF type = "created" THEN dir \cup {f} ELSE dir \ {f}
    /\ Report([type |-> type, file |-> f])
    /\ UNCHANGED <<service, watcher, held, events, update, handling, modules>>

CreateFile(f) == Change("created", f)
RemoveFile(f) == f \in dir /\ Change("dropped", f)
MoveFileAway(f) == f \in dir /\ Change("rename", f)

-----------------------------------------------------------------------------
(* Start.  Files that are hidden are not loaded; of two files with the     *)
(* same key the first one listed is.                                       *)

Loadable == {f \in dir : EndsInSo(f) /\ Head(f) # "."}

Loaded ==
    {m \in [{LoadKey(f) : f \in Loadable} -> Loadable] :
        \A k \in DOMAIN m : LoadKey(m[k]) = k}

LoadModules ==
    /\ service = "load"
    /\ modules' \in Loaded
    /\ noticed' = [noticed EXCEPT !.known = modules']
    /\ service' = "watch"
    /\ UNCHANGED <<directory, notify, watcher, held, events, update, handling>>

(* Watcher.Start, and go m.update(). *)
FilesWatcher ==
    /\ service = "watch"
    /\ service' = "up"
    /\ watcher' = "select"
    /\ update' = "select"
    /\ UNCHANGED <<directory, notify, held, events, handling, modules, noticed>>

Stop ==
    /\ service = "up"
    /\ service' = "stopped"
    /\ UNCHANGED <<directory, notify, watcher, held, events, update, handling, modules, noticed>>

-----------------------------------------------------------------------------
(* The watcher's goroutine. *)

WatcherReceives ==
    /\ service # "crashed"
    /\ watcher = "select"
    /\ notify # <<>>
    /\ held' = <<Head(notify)>>
    /\ notify' = Tail(notify)
    /\ watcher' = "sending"
    /\ UNCHANGED <<directory, service, events, update, handling, modules, noticed>>

AlwaysRoom == TRUE

RoomForEvent == Len(events) < EventSize

WatcherSendsOrDrops ==
    /\ service # "crashed"
    /\ watcher = "sending"
    /\ events' = IF RoomForEvent THEN events \o held ELSE events
    /\ held' = <<>>
    /\ watcher' = "select"
    /\ UNCHANGED <<directory, service, notify, update, handling, modules, noticed>>

(* chanEvent <- Event{...}: it waits for room, and for nothing else. *)
WatcherSends ==
    /\ service # "crashed"
    /\ watcher = "sending"
    /\ RoomForEvent
    /\ events' = events \o held
    /\ held' = <<>>
    /\ watcher' = "select"
    /\ UNCHANGED <<directory, service, notify, update, handling, modules, noticed>>

DoneWhenDrained == service = "stopped" /\ notify = <<>> /\ events = <<>>

(* ctx.Done() is closed by Manager.Stop. *)
Done == service = "stopped"

(* fsnotify.Stop: nothing is reported from here on. *)
WatcherExits ==
    /\ watcher = "select"
    /\ Done
    /\ watcher' = "exited"
    /\ UNCHANGED <<directory, service, notify, held, events, update, handling, modules, noticed>>

-----------------------------------------------------------------------------
(* update(): the select takes an event and handles it. *)

UpdateReceives ==
    /\ service # "crashed"
    /\ update = "select"
    /\ events # <<>>
    /\ handling' = <<Head(events)>>
    /\ events' = Tail(events)
    /\ update' = "event"
    /\ UNCHANGED <<directory, service, notify, watcher, held, modules, noticed>>

(* A file that is no plugin: continue. *)
ReturnAtForeign(f) == IF EndsInSo(f) THEN "select" ELSE "exited"

AfterEvent(f) == "select"

UpdateHandles ==
    LET ev == handling[1]
        map == Handled(Map, ev)
    IN
    /\ service # "crashed"
    /\ update = "event"
    /\ modules' = map.known
    /\ service' = IF map.dead THEN "crashed" ELSE service
    /\ handling' = <<>>
    /\ update' = AfterEvent(ev.file)
    /\ UNCHANGED <<directory, notify, watcher, held, events, noticed>>

UpdateExits ==
    /\ update = "select"
    /\ service = "stopped"
    /\ update' = "exited"
    /\ UNCHANGED <<directory, service, notify, watcher, held, events, handling, modules, noticed>>

-----------------------------------------------------------------------------
Directory == \E f \in File : CreateFile(f) \/ RemoveFile(f) \/ MoveFileAway(f)
Watcher == WatcherReceives \/ WatcherSends \/ WatcherExits
Update == UpdateReceives \/ UpdateHandles \/ UpdateExits

Next == Directory \/ LoadModules \/ FilesWatcher \/ Stop \/ Watcher \/ Update

Spec == Init /\ [][Next]_vars

(* Goroutines that can run do, a select takes each of its ready cases in   *)
(* the end, and Manager.mu is released (TaskManager).  Nobody has to       *)
(* change the directory or to stop the service.                            *)
Fairness ==
    /\ SF_vars(WatcherReceives) /\ WF_vars(WatcherSends) /\ SF_vars(WatcherExits)
    /\ SF_vars(UpdateReceives) /\ WF_vars(UpdateHandles) /\ SF_vars(UpdateExits)

FairSpec == Spec /\ Fairness

-----------------------------------------------------------------------------
(* Every variable has its Go type; channels hold what they have room for;  *)
(* a goroutine has an event in hand exactly when it is busy with one; a    *)
(* module's path is that of a file or of the directory.                    *)
TypeOK ==
    /\ dir \subseteq File /\ changes \in 0 .. MaxChanges
    /\ service \in {"load", "watch", "up", "stopped", "crashed"}
    /\ notify \in Seq(Event) /\ Len(notify) <= NotifySize
    /\ events \in Seq(Event) /\ Len(events) <= EventSize
    /\ watcher \in {"none", "select", "sending", "exited"}
    /\ held \in Seq(Event) /\ Len(held) = (IF watcher = "sending" THEN 1 ELSE 0)
    /\ update \in {"none", "select", "event", "exited"}
    /\ handling \in Seq(Event) /\ Len(handling) = (IF update = "event" THEN 1 ELSE 0)
    /\ \A k \in DOMAIN modules : modules[k] \in File \cup {<<>>}
    /\ noticed.dead \in BOOLEAN

(* The notifications on their way to the map, the oldest first. *)
Pending == handling \o events \o held \o notify

(* The map lags behind the notifications and is never out of step with     *)
(* them: what is still on its way, applied in order, makes of it what the  *)
(* notifications describe.  None is lost after it got into the channel,    *)
(* none overtakes another, over full channels, a Stop at any point and     *)
(* names that end the process (watcher.go:60-85, manager.go:250-278).      *)
InStep == FoldLeft(Handled, Map, Pending) = noticed

(* While the service is up the map catches up: no file name and no full    *)
(* channel keeps update() or the watcher from their events (watcher.go:    *)
(* 63-79, manager.go:250-278).                                             *)
Settles == Pending # <<>> ~> Pending = <<>> \/ service # "up"

(* The watcher sends to a channel that is full and that nobody reads any   *)
(* more: it has no other way out (watcher.go:70-78).                       *)
Stuck == watcher = "sending" /\ ~RoomForEvent /\ update = "exited"

(* Short of that, the watcher ends after Manager.Stop, with whatever       *)
(* notifications are left (watcher.go:80-82).                              *)
WatcherEnds == service = "stopped" ~> watcher = "exited" \/ Stuck \/ service = "crashed"

(* What the repository says and the code does not do. *)

(* A plugin that is put into the directory while the service runs can be   *)
(* named in a task, as one that was there at Start: the README has a       *)
(* "plugin(module,like:hello.so)" (README.md:2) run by a task that names   *)
(* hello@0.0.1 (README.md 2.2.3), and plugin.go:16 builds                  *)
(* plugin@0.0.1.so.                                                        *)
CreatedIsKnown ==
    [][\A f \in File :
          handling = <<[type |-> "created", file |-> f]>> /\ handling' = <<>> /\ EndsInSo(f)
              => LoadKey(f) \in DOMAIN modules']_vars
=============================================================================

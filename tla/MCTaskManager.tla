---------------------------- MODULE MCTaskManager ----------------------------
(* Constants of the TLC runs of TaskManager. *)
EXTENDS TaskManager, TLC

Sh == [type |-> "sh", extra |-> "body", interval |-> 3]
Cmd == [type |-> "cmd", extra |-> "body", interval |-> 1]

(* The same plugin by its bare name and by its full name. *)
Bare == [type |-> "plugin", extra |-> "hello", interval |-> 1]
Full == [type |-> "plugin", extra |-> "hello@0.0.1", interval |-> 1]

(* A plugin by its full name runs as a cmd does, as long as it is loaded. *)
MCJob == {Sh, Bare, Full}
MCScriptJob == {Sh, Cmd}
MCPluginJob == {Bare, Full}

MCModule == {"hello@0.0.1"}

MCVersioned == "hello" :> "hello@0.0.1"

MCNoVersioned == [name \in {} |-> name]

Symmetry == Permutations(Task)
=============================================================================

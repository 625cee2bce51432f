---------------------------- MODULE MCModuleWatch ----------------------------
(* Constants of the TLC runs of ModuleWatch. *)
EXTENDS ModuleWatch

(* plug.so, and a longer name that an event cuts down to "plug". *)
Plain == <<"p", "l", "u", "g", ".", "s", "o">>
Longer == <<"p", "l", "u", "g", "i", "n", "s", ".", "s", "o">>

(* plug@1.so: the name with a version that plugin.go recommends; as with   *)
(* hello.so and hello@0.0.1.so, loadModules has the same key for both.     *)
MCDefault == <<"1">>
Versioned == <<"p", "l", "u", "g", "@", "1", ".", "s", "o">>

(* No plugin. *)
Foreign == <<"d", "o", "c", ".", "t", "x", "t">>

MCFile == {Plain, Longer, Versioned, Foreign}
MCDocumented == {Plain, Versioned}
=============================================================================

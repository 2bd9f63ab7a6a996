------------------------------- MODULE MCExit -------------------------------
(***************************************************************************)
(* An executable that is linked with "a", and a plugin "c" that needs "d"  *)
(* and shares "a" with the executable.  In the first graph the plugin and  *)
(* "d" need each other, in the second "d" needs "a" and it is a chain.     *)
(***************************************************************************)
EXTENDS Exit

MCGraphs ==
  { [o \in Objs |-> CASE o = "exe" -> <<"a">> [] o = "c" -> <<"d", "a">>
                      [] o = "d" -> <<"c">> [] OTHER -> <<>>],
    [o \in Objs |-> CASE o = "exe" -> <<"a">> [] o = "c" -> <<"d">>
                      [] o = "d" -> <<"a">> [] OTHER -> <<>>] }
=============================================================================

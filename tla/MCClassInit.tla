---------------------------- MODULE MCClassInit ----------------------------
(***************************************************************************)
(* Instances of ClassInit: a class below another below java.lang.Object,   *)
(* and sites in a method (call, get) that share a constant-pool entry.     *)
(***************************************************************************)
EXTENDS ClassInit, TLC

CONSTANTS t1, t2, object, base, derived, call, get, new, main, field

MCThread == {t1, t2}
MCClass == {object, base, derived}
MCSuper == object :> None @@ base :> object @@ derived :> base
MCSite == {call, get, new, main}
MCTarget == call :> base @@ get :> base @@ new :> derived @@ main :> derived
MCEntry == call :> field @@ get :> field @@ new :> None @@ main :> None
=============================================================================

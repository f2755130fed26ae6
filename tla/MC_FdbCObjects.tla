---------------------------- MODULE MC_FdbCObjects ----------------------------
(* Clients of the C API: two attributes, two values, elements whose keys   *)
(* set one or both attributes.                                             *)
EXTENDS FdbCObjects, TLC

CONSTANTS a1, a2, v1, v2

MCElementKeys == {(a1 :> v1), (a1 :> v2 @@ a2 :> v2)}

=============================================================================

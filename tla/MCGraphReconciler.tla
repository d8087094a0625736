------------------------- MODULE MCGraphReconciler --------------------------
(* Small instances of GraphReconciler for TLC. *)
EXTENDS GraphReconciler

ThreeComponents == <<"a", "b", "c">>
FourComponents == <<"a", "b", "c", "d">>
=============================================================================

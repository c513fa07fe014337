------------------------- MODULE MCAccessReconcile --------------------------
(* Instances of AccessReconcile for TLC.                                   *)
EXTENDS AccessReconcile, TLC

AccessSymmetry == Permutations(Hosts) \cup Permutations(Names)
=============================================================================

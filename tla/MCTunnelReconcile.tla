------------------------- MODULE MCTunnelReconcile --------------------------
(* Instances of TunnelReconcile for TLC.                                   *)
EXTENDS TunnelReconcile, TLC

TunnelSymmetry == Permutations(Tunnels) \cup Permutations(Paths)
=============================================================================

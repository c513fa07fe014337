--------------------------- MODULE MCDNSReconcile ---------------------------
(* Instances of DNSReconcile for TLC.  Record ids are only ever compared   *)
(* with one another, so safety is checked up to their permutation.         *)
EXTENDS DNSReconcile, TLC

RecordSymmetry == Permutations(RecordIds)
=============================================================================

------------------------- MODULE MCOrdersProcessing -------------------------
(* Symmetry for the runs of OrdersProcessing. *)
EXTENDS OrdersProcessing, TLC

Interchangeable == Permutations(Job) \cup Permutations(Run)
=============================================================================

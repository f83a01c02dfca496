------------------------------ MODULE MCRealtime ------------------------------
(* Instances of Realtime. *)
EXTENDS Realtime

Interchangeable == Permutations(Writer) \cup Permutations(Topic)

=============================================================================

--------------------------- MODULE MCDurableJobs ---------------------------
(* Model values and symmetry for the runs of DurableJobs. *)
EXTENDS DurableJobs, TLC

CONSTANTS manual, repeated, other, k1, k2, s1, s2, f1, f2

\* Two clients that ask for the same work under keys of their own, and a
\* third submission that reuses the second key for work in another scope.
MCKeyOf(r)         == IF r = manual THEN k1 ELSE k2
MCScopeOf(r)       == IF r = other THEN s2 ELSE s1
MCFingerprintOf(r) == IF r = other THEN f2 ELSE f1

Interchangeable == Permutations(Job) \cup Permutations(Run)
=============================================================================

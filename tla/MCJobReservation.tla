-------------------------- MODULE MCJobReservation --------------------------
(* Model values for the runs of JobReservation. *)
EXTENDS JobReservation

CONSTANTS a, b, c, d, k1, k2, s1, s2, f1, f2

\* a and b repeat one request; c asks for the same work under another key; d
\* reuses the key of a and b for other work.
MCKeyOf(t)         == IF t = c THEN k2 ELSE k1
MCScopeOf(t)       == IF t = d THEN s2 ELSE s1
MCFingerprintOf(t) == IF t = d THEN f2 ELSE f1

=============================================================================

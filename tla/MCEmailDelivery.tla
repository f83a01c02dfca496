--------------------------- MODULE MCEmailDelivery ---------------------------
(* Model values for the run of EmailDelivery. *)
EXTENDS EmailDelivery

CONSTANTS a, b, d, k1, k2, f1

\* a and b repeat one request, and d is another communication to deliver.
MCKeyOf(q)         == IF q = d THEN k2 ELSE k1
MCFingerprintOf(q) == f1
=============================================================================

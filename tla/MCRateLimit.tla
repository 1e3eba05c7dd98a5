---------------------------- MODULE MCRateLimit ----------------------------
(* RateLimit for TLC.  No symmetry: a liveness property is checked. *)
EXTENDS RateLimit
=============================================================================

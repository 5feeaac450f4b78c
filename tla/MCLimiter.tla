----------------------------- MODULE MCLimiter -----------------------------
(* Model of the limiter with its arrival history for TLC (no symmetry: the *)
(* run checks a liveness property).                                        *)
EXTENDS LimiterRefinement
=============================================================================

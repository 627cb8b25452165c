---------------------------- MODULE MCRateLimit ----------------------------
(* Instances of RateLimit for TLC.                                         *)
EXTENDS RateLimit, TLC

Symmetry == Permutations(Requests) \cup Permutations(Ips) \cup Permutations(Codes)
=============================================================================

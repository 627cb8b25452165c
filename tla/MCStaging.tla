----------------------------- MODULE MCStaging -----------------------------
(* Instances of Staging for TLC.                                           *)
EXTENDS Staging, TLC

(* Nothing tells two visits of the final page or two contents apart.       *)
Symmetry == Permutations(Visits) \cup Permutations(Contents)
=============================================================================

-------------------------- MODULE MCPhotoLifecycle --------------------------
(* Instances of PhotoLifecycle for TLC.                                    *)
EXTENDS PhotoLifecycle, TLC

(* Nothing tells two photos, KEYs or requests of one kind apart (as long   *)
(* as every photo or no photo is Stuck).                                   *)
Symmetry ==
  Permutations(Photos) \cup Permutations(Keys) \cup Permutations(Deletes)
    \cup Permutations(Resolves) \cup Permutations(Downloads)

=============================================================================

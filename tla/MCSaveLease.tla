---------------------------- MODULE MCSaveLease ----------------------------
(* Instances of SaveLease for TLC.                                         *)
EXTENDS SaveLease, TLC

CONSTANTS r1, r2, r3, l1, l2, d1

(* All requests on the event loop of the one process the image runs.       *)
OneLoop == [r \in Requests |-> l1]

(* Two of the requests on loops of their own: two processes, or the        *)
(* threads of test_only_one_photo_survives_a_concurrent_double_submit.     *)
TwoLoops == [r \in Requests |-> IF r = r2 THEN l2 ELSE l1]

(* Digests are only compared: which of them r1 sends makes no difference.  *)
MCInit == SaveInit /\ args[r1].digest = d1
MCSpec == MCInit /\ [][SaveNext]_saveVars /\ Fairness

(* With one loop nothing tells two requests apart.                         *)
Symmetry == Permutations(Requests)

=============================================================================

------------------------------- MODULE MCGuide -------------------------------
(* Frames a person in front of the camera gives, one at a time.            *)
EXTENDS Guide, TLC

CONSTANTS v1, v2, v3

Turned(roll) == [yaw |-> 0, pitch |-> 0, roll |-> roll]
At(width, x) == [width |-> width, x |-> x, y |-> 0]
Face(turn, place) == [turn |-> turn, place |-> place]

Straight == Face(Turned(0), At(30, 0))
Edge == Face(Turned(0), At(30, 30))       (* within the exit limits only *)
Away == Face(Turned(0), At(30, 40))
Tilted == Face(Turned(16), At(30, 0))
Unmatched == Face(None, At(30, 40))           (* its matrix is unusable      *)
Unmarked == Face(Turned(0), None)          (* landmarks are missing       *)
Passer == Face(Turned(0), At(12, 45))

MCFrames ==
  {<<>>, <<Straight>>, <<Edge>>, <<Away>>, <<Tilted>>, <<Unmatched>>, <<Unmarked>>,
   <<Passer, Straight>>}

(* Photos of five by five pixels: a face in the middle, its region partly  *)
(* covering the pixels around it, or one that fills the frame.             *)
Middle == [left |-> 30, right |-> 70, top |-> 30, bottom |-> 70]
Everywhere == [left |-> 5, right |-> 95, top |-> 5, bottom |-> 95]
Opening(high) == [high |-> high, wide |-> 10]

Portrait(eyes, mouth, box) ==
  [turn |-> Turned(0), place |-> At(30, 0), left |-> Opening(eyes), right |-> Opening(eyes),
   mouth |-> Opening(mouth), box |-> box]
Calm == Portrait(4, 1, Middle)

Grid(at(_, _)) == [y \in 1 .. 5 |-> [x \in 1 .. 5 |-> at(x, y)]]
Inside(x, y) == x \in 2 .. 4 /\ y \in 2 .. 4
Before(behind(_, _), face) == Grid(LAMBDA x, y : IF Inside(x, y) THEN face ELSE behind(x, y))
Even(x, y) == 200
Shadowed(x, y) == IF x < 3 THEN 120 ELSE 200

Snapshot(faces, luma) == [faces |-> faces, luma |-> luma, canvas |-> TRUE]
Fair == Snapshot(<<Calm>>, Before(Even, 120))
Nobody == Snapshot(<<>>, Before(Even, 200))

MCPicture ==
  [fair |-> Fair, nobody |-> Nobody, dark |-> Snapshot(<<Calm>>, Before(Even, 20)),
   shadow |-> Snapshot(<<Calm>>, Before(Shadowed, 120)),
   darkInShadow |-> Snapshot(<<Calm>>, Before(Shadowed, 5)),
   close |-> Snapshot(<<Portrait(1, 9, Everywhere)>>, Before(Even, 250)),
   unmarked |-> Snapshot(<<[Calm EXCEPT !.mouth = None, !.box = None]>>, Before(Even, 120)),
   undrawn |-> [Fair EXCEPT !.canvas = FALSE]]
MCPhotos == DOMAIN MCPicture

(* While a guide is mounted only two of the photos are rechecked.          *)
FewWhileGuiding ==
  mounted => /\ rechecks \subseteq {"fair", "nobody"}
             /\ rechecked = None \/ rechecked.photo \in {"fair", "nobody"}

MCMaxTurn == [yaw |-> 7, pitch |-> 7, roll |-> 5]
MCGaps == {80, 400}
Symmetry == Permutations({v1, v2, v3})
=============================================================================

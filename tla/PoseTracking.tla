---------------------------- MODULE PoseTracking ----------------------------
(***************************************************************************)
(* The pose tracker (frontend/src/pose/tracking.ts): primary face, EMA     *)
(* smoothing, hysteresis and stability of one frame after another, and the *)
(* static recheck of a photo (pose/static-check.ts), which runs a fresh    *)
(* tracker on it beside the checks of PhotoQuality.                        *)
(*                                                                         *)
(* A face is [turn, place]: its angles in degrees, None when its matrix is *)
(* unusable (angles.ts), and its width and the offset of its centre in     *)
(* percent of the image, None when landmarks are missing.  Times are ages  *)
(* in milliseconds, not counted beyond StableMs.                           *)
(***************************************************************************)
EXTENDS PhotoQuality

CONSTANTS
  StableMs, FaceWidthMin, FaceWidthMax, FaceOffsetMax,
  MaxTurn,      (* [yaw, pitch, roll]: DEFAULT_POSE_THRESHOLDS             *)
  Exit          (* HYSTERESIS_EXIT_FACTOR in tenths                        *)

(* The thresholds widen after ready.                                       *)
ASSUME TrackingAssumption ==
  /\ StableMs \in Nat \ {0} /\ Exit \in Nat /\ Exit >= 10
  /\ FaceWidthMin \in Nat \ {0} /\ FaceWidthMax \in Nat /\ FaceOffsetMax \in Nat

Axes == {"yaw", "pitch", "roll"}
Magnitude(n) == IF n < 0 THEN -n ELSE n
Nowhere == [width |-> 0, x |-> 0, y |-> 0]

Distance(dx, dy) ==
  CHOOSE r \in 0 .. 200 : r * r <= dx * dx + dy * dy /\ dx * dx + dy * dy < (r + 1) * (r + 1)

(* Width by centredness; a face away from the last centre scores less.     *)
Score(place, last) ==
  LET centring == 100 - Min({100, 2 * Distance(place.x, place.y)})
      drift == IF last = None THEN 0 ELSE Distance(place.x - last.x, place.y - last.y)
  IN  (1000 * place.width * (100 + centring)) \div (100 + 4 * drift)

(* The best face is the first with the highest score; one that cannot be   *)
(* measured is taken only when none can.                                   *)
Primary(faces, last) ==
  LET measured == {i \in DOMAIN faces : faces[i].place # None}
      best == Max({Score(faces[i].place, last) : i \in measured})
  IN  IF Len(faces) = 1 \/ measured = {} THEN faces[1]
      ELSE faces[Min({i \in measured : Score(faces[i].place, last) = best})]

-----------------------------------------------------------------------------
Fresh ==
  [smoothed |-> None, status |-> "no-face", computed |-> "no-face", stableFor |-> None,
   turn |-> [a \in Axes |-> 0], place |-> Nowhere, last |-> None]

Aged(age, gap) == IF age = None THEN None ELSE Min({StableMs, age + gap})

InPosition(place, factor) ==
  /\ place.width * factor >= 10 * FaceWidthMin
  /\ 10 * place.width <= factor * FaceWidthMax
  /\ 10 * Magnitude(place.x) <= factor * FaceOffsetMax
  /\ 10 * Magnitude(place.y) <= factor * FaceOffsetMax

WithinAngles(turn, factor) == \A a \in Axes : 10 * Magnitude(turn[a]) <= factor * MaxTurn[a]

(* EMA with alpha 0.5.                                                     *)
Smooth(smoothed, turn) ==
  IF smoothed = None THEN turn ELSE [a \in Axes |-> (smoothed[a] + turn[a]) \div 2]

(* Mutant: a face that left its place does not start the wait again.       *)
StableForKept(tracker, computed) ==
  IF computed = "unstable" THEN None
  ELSE IF tracker.stableFor = None THEN 0 ELSE tracker.stableFor

StableFor(tracker, computed) ==
  IF computed # "ready" THEN None
  ELSE IF tracker.stableFor = None THEN 0 ELSE tracker.stableFor

(* The judgement of a face on top of the tracker's own; multi-face hides   *)
(* it in the status only.                                                  *)
Judged(tracker, face, alone) ==
  LET turn == Smooth(tracker.smoothed, face.turn)
      place == IF face.place = None THEN Nowhere ELSE face.place
      factor == IF tracker.computed = "ready" THEN Exit ELSE 10
      computed == IF ~InPosition(place, factor) THEN "out-of-position"
                  ELSE IF ~WithinAngles(turn, factor) THEN "unstable" ELSE "ready"
  IN  [smoothed |-> turn, turn |-> turn, place |-> place, computed |-> computed,
       last |-> IF face.place = None THEN None ELSE [x |-> place.x, y |-> place.y],
       status |-> IF alone THEN computed ELSE "multi-face",
       stableFor |-> StableFor(tracker, computed)]

Update(tracker, faces) ==
  IF faces = <<>>
  THEN [tracker EXCEPT !.status = "no-face", !.computed = "no-face", !.stableFor = None,
                       !.smoothed = None, !.last = None]
  ELSE LET face == Primary(faces, tracker.last)
       IN  IF face.turn = None THEN tracker ELSE Judged(tracker, face, Len(faces) = 1)

-----------------------------------------------------------------------------
(* What the user is told.                                                  *)

Along(value, limit, over, under) ==
  IF Magnitude(value) <= limit THEN {} ELSE IF value > 0 THEN {over} ELSE {under}

MoveHints(place) ==
  (IF place.width < FaceWidthMin THEN {"move-closer"}
   ELSE IF place.width > FaceWidthMax THEN {"move-farther"} ELSE {})
  \union Along(place.x, FaceOffsetMax, "move-own-right", "move-own-left")
  \union Along(place.y, FaceOffsetMax, "move-up", "move-down")

TurnHints(turn) ==
  Along(turn.yaw, MaxTurn.yaw, "turn-own-right", "turn-own-left")
  \union Along(turn.pitch, MaxTurn.pitch, "raise-head", "lower-head")
  \union Along(turn.roll, MaxTurn.roll, "level-own-right", "level-own-left")

Guidance(tracker) ==
  CASE tracker.status = "out-of-position" ->
         IF MoveHints(tracker.place) = {} THEN {"adjust-position"} ELSE MoveHints(tracker.place)
    [] tracker.status = "unstable" ->
         IF TurnHints(tracker.turn) = {} THEN {"hold-still"} ELSE TurnHints(tracker.turn)
    [] OTHER -> {}

(* The parts of a PoseState by which the page decides to show a new one.   *)
PoseState(tracker) ==
  LET stable == IF tracker.stableFor = None THEN 0 ELSE tracker.stableFor
  IN  [status |-> tracker.status, hints |-> Guidance(tracker), quarters |-> stable \div 250,
       shootable |-> tracker.status = "ready" /\ stable >= StableMs]

-----------------------------------------------------------------------------
(* The recheck of a photo.  The model may be unavailable; what is checked  *)
(* of exposure and sharpness does not depend on it.                        *)
RoiFound(photo) ==
  IF photo.faces = <<>> THEN None ELSE FaceRoi(Primary(photo.faces, None))

StaticCheck(photo, available) ==
  LET one == IF photo.faces = <<>> \/ ~available THEN <<>> ELSE <<Primary(photo.faces, None)>>
  IN  [poseAvailable |-> available,
       pose |-> IF available THEN PoseState(Update(Fresh, one)) ELSE None,
       faceGeometry |-> IF one = <<>> THEN None ELSE FaceGeometry(one[1], photo),
       quality |-> AnalyzeQuality(photo, IF available THEN RoiFound(photo) ELSE None)]

(* staticCheckWarnings and staticCheckUnknowns, which the confirm page     *)
(* shows: neither says anything of a background that was measured.         *)
Warnings(result) ==
  {w \in {"pose", "eyes closed", "mouth open"} :
     CASE w = "pose" -> result.pose # None /\ result.pose.status # "ready"
       [] w = "eyes closed" -> result.faceGeometry # None /\ result.faceGeometry.eyesClosed
       [] OTHER -> result.faceGeometry # None /\ result.faceGeometry.mouthOpen}
  \union result.quality.issues

Unknowns(result) ==
  {u \in {"pose recheck", "face geometry", "background uniformity"} :
     CASE u = "pose recheck" -> ~result.poseAvailable
       [] u = "face geometry" -> result.faceGeometry = None
       [] OTHER -> result.quality.background = None}
=============================================================================

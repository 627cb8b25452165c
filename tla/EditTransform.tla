---------------------------- MODULE EditTransform ----------------------------
(***************************************************************************)
(* Edit transforms, output sizes and template policy                       *)
(* (frontend/src/editor/edit-transform.ts, lib/templates/policy.ts): when  *)
(* a crop lies within the photo, how a transform is fitted to an output    *)
(* size, and how edits are carried over to another template.               *)
(*                                                                         *)
(* Scales and angles are whole numbers of some unit, and the pan has one   *)
(* coordinate.  Need gives, for an output size and an angle, the least     *)
(* scale at which the crop frame, centred, lies within the photo; every    *)
(* unit of scale above it gives one unit of room to pan.  A negative scale *)
(* turns the photo upside down and covers as much as a positive one.       *)
(***************************************************************************)
EXTENDS Integers, Sequences

CONSTANTS
  Sizes,    (* the output sizes of the templates                           *)
  Need,     (* Sizes -> [0 .. FullTurn - 1 -> Nat]                         *)
  FullTurn, (* units of angle in a full turn                               *)
  MaxScale, (* MAX_SCALE                                                   *)
  None      (* no size, no edits                                           *)

ASSUME EditAssumption ==
  /\ FullTurn \in Nat \ {0} /\ FullTurn % 4 = 0
  /\ MaxScale \in Nat \ {0} /\ None \notin Sizes
  /\ Need \in [Sizes -> [0 .. FullTurn - 1 -> Nat \ {0}]]
  /\ \A s \in Sizes : Need[s][0] = 1

Transform == [pos : Int, scale : Int, rot : Int, flip : BOOLEAN, pristine : BOOLEAN]
EditorState == [transform : Transform, undo : Seq(Transform), redo : Seq(Transform)]

MinScale == 1
Quarter == FullTurn \div 4

(* pristine: the object IDENTITY_TRANSFORM itself, not an equal one.       *)
Identity == [pos |-> 0, scale |-> 1, rot |-> 0, flip |-> FALSE, pristine |-> TRUE]
InitialState == [transform |-> Identity, undo |-> <<>>, redo |-> <<>>]

Abs(n) == IF n < 0 THEN -n ELSE n
AtLeast(low, n) == IF n < low THEN low ELSE n
AtMost(high, n) == IF n > high THEN high ELSE n

NeedAt(t, out) == Need[out][t.rot % FullTurn]
Room(t, out) == Abs(t.scale) - NeedAt(t, out)

(* All four corners of the crop frame lie within the photo.                *)
IsValid(t, out) == Abs(t.pos) <= Room(t, out)
Centred(t) == [t EXCEPT !.pos = 0]

ClampTranslation(t, out) ==
  CASE IsValid(t, out) -> t
    [] ~IsValid(t, out) /\ ~IsValid(Centred(t), out) -> Centred(t)
    [] OTHER -> [t EXCEPT !.pos = IF @ < 0 THEN -Room(t, out) ELSE Room(t, out)]

MinScaleForRotation(t, out) ==
  IF IsValid(Centred(t), out) THEN t.scale
  ELSE IF NeedAt(t, out) > MaxScale THEN None ELSE NeedAt(t, out)

(* Not enough room even at MaxScale: the scale is left alone.              *)
FitTransform(t, out) ==
  LET scale == MinScaleForRotation(t, out) IN
  ClampTranslation(IF scale = None THEN t ELSE [t EXCEPT !.scale = scale], out)

(* The remainder has the sign of the angle.                                *)
NormalizeRotation(angle) ==
  LET rest == IF angle < 0 THEN -((-angle) % FullTurn) ELSE angle % FullTurn
  IN  CASE rest > 2 * Quarter -> rest - FullTurn
        [] rest < -2 * Quarter -> rest + FullTurn
        [] OTHER -> rest

(* coverScale of the turned photo over that of the photo: what a quarter   *)
(* turn multiplies the scale by.                                           *)
QuarterGrowth(out) == Need[out][Quarter]

-----------------------------------------------------------------------------
(* Template revisions.                                                     *)

Level == {"allowed", "warn", "forbidden"}
Output == [kind : {"pixels", "ranged", "portal"}, default : Sizes, largest : Sizes,
           listed : SUBSET Sizes, inRange : SUBSET Sizes]
Revision == [id : STRING, output : Output, crop : Level, rotate : Level, mirror : Level]

ComposeLocked(rev) == rev.crop = "forbidden"
RotateLocked(rev) == rev.rotate = "forbidden"
MirrorLocked(rev) == rev.mirror = "forbidden"

OutputSize(rev) == IF rev.output.kind = "portal" THEN None ELSE rev.output.default

AllowedOutputSizes(rev) ==
  CASE rev.output.kind # "ranged" -> {}
    [] rev.output.kind = "ranged" /\ rev.output.listed # {} ->
         rev.output.listed \cap rev.output.inRange
    [] OTHER -> {rev.output.default, rev.output.largest}

ResolveOutputSize(rev, selected) ==
  IF selected \in AllowedOutputSizes(rev) THEN selected ELSE OutputSize(rev)

(* What the new template forbids is undone.                                *)
Normalize(t, rev) ==
  [t EXCEPT !.flip = @ /\ ~MirrorLocked(rev),
            !.rot = IF RotateLocked(rev) THEN 0 ELSE @,
            !.pristine = FALSE]

(* Mutant: what cannot be fitted is carried over as it is.                 *)
ProjectAsIs(t, rev) ==
  LET next == Normalize(t, rev)
      out == OutputSize(rev)
  IN  IF out = None THEN next ELSE FitTransform(next, out)

Project(t, rev) ==
  LET next == Normalize(t, rev)
      out == OutputSize(rev)
  IN  IF out = None THEN next
      ELSE LET fitted == FitTransform(next, out)
           IN  IF IsValid(fitted, out) THEN fitted
               ELSE [Identity EXCEPT !.pristine = FALSE]

(* Mutant: only the transform is carried over to the new template.         *)
ReprojectTransformOnly(state, rev) ==
  [state EXCEPT !.transform = Project(@, rev)]

(* reprojectEditorState: the stacks keep their lengths.                    *)
Reproject(state, rev) ==
  [transform |-> Project(state.transform, rev),
   undo |-> [i \in DOMAIN state.undo |-> Project(state.undo[i], rev)],
   redo |-> [i \in DOMAIN state.redo |-> Project(state.redo[i], rev)]]
=============================================================================

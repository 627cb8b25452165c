---------------------------- MODULE PhotoQuality ----------------------------
(***************************************************************************)
(* What the recheck finds in a photo beside its pose: exposure, sharpness  *)
(* and background (frontend/src/pose/quality.ts), eyes, mouth and the      *)
(* region of the face (pose/face-geometry.ts).                             *)
(*                                                                         *)
(* A photo is [faces, luma, canvas]: the rows of its luma at the size it   *)
(* is analysed at, and whether there was a canvas to analyse it on.  A     *)
(* face has a box around its landmarks, [left, right, top, bottom], the    *)
(* openings of its eyes and of its mouth, [high, wide], all in percent of  *)
(* the photo; None stands for landmarks that are missing.                  *)
(***************************************************************************)
EXTENDS Integers, Sequences, FiniteSetsExt

CONSTANT None

Config ==
  [darkClipLevel |-> 10, brightClipLevel |-> 245, clipPercent |-> 2, sharpnessMin |-> 60,
   lumaStdMax |-> 30, blockRangeMax |-> 60, halfDiffMax |-> 40, minBackgroundPercent |-> 10]

Width(photo) == Len(photo.luma[1])
Height(photo) == Len(photo.luma)
Pixels(photo) == (0 .. Width(photo) - 1) \X (0 .. Height(photo) - 1)
Luma(photo, x, y) == photo.luma[y + 1][x + 1]
Sum(photo, set) == MapThenSumSet(LAMBDA p : Luma(photo, p[1], p[2]), set)
Squares(photo, set) == MapThenSumSet(LAMBDA p : Luma(photo, p[1], p[2]) ^ 2, set)

-----------------------------------------------------------------------------
(* face-geometry.ts.                                                       *)

EarClosedMax == 25    (* percent *)
MarOpenMin == 50
RoiExpand == 15

(* Height by width of an opening, as <<numerator, denominator>>, and none  *)
(* of one that has no width.                                               *)
Ratio(opening) ==
  IF opening = None \/ opening.wide = 0 THEN None ELSE <<opening.high, opening.wide>>

(* Heights and widths are parts of the photo's: the ratios are corrected   *)
(* by its aspect.  The eyes count with their average.                      *)
FaceGeometry(face, photo) ==
  LET left == Ratio(face.left)  right == Ratio(face.right)  mouth == Ratio(face.mouth)
      H == Height(photo)  W == Width(photo)
  IN  IF None \in {left, right, mouth} THEN None
      ELSE [eyesClosed |-> 100 * H * (left[1] * right[2] + right[1] * left[2])
                             < EarClosedMax * 2 * W * left[2] * right[2],
            mouthOpen |-> 100 * H * mouth[1] > MarOpenMin * W * mouth[2]]

(* The landmarks' box, widened and clamped, in hundredths of a percent.    *)
FaceRoi(face) ==
  LET w == face.box.right - face.box.left
      h == face.box.bottom - face.box.top
  IN  IF face.box = None THEN None
      ELSE IF w <= 0 \/ h <= 0 THEN None
      ELSE [left |-> Max({0, 100 * face.box.left - RoiExpand * w}),
            top |-> Max({0, 100 * face.box.top - RoiExpand * h}),
            right |-> Min({10000, 100 * face.box.right + RoiExpand * w}),
            bottom |-> Min({10000, 100 * face.box.bottom + RoiExpand * h})]

-----------------------------------------------------------------------------
(* quality.ts.                                                             *)

Floor(part, size) == (part * size) \div 10000
Ceil(part, size) == (part * size + 9999) \div 10000

(* Mutant: a pixel that the face covers in part is background.             *)
InRoiRoundedInwards(roi, photo, p) ==
  /\ p[1] \in Ceil(roi.left, Width(photo)) .. Floor(roi.right, Width(photo)) - 1
  /\ p[2] \in Ceil(roi.top, Height(photo)) .. Floor(roi.bottom, Height(photo)) - 1

InRoi(roi, photo, p) ==
  /\ p[1] \in Floor(roi.left, Width(photo)) .. Ceil(roi.right, Width(photo)) - 1
  /\ p[2] \in Floor(roi.top, Height(photo)) .. Ceil(roi.bottom, Height(photo)) - 1

(* backgroundMetrics, as the problems that backgroundCheck makes of them:  *)
(* the spread of the pixels, the range of the means of three by three      *)
(* blocks, and the difference of two halves.  Too few pixels tell nothing. *)
Deviates(photo, set) ==
  LET n == Cardinality(set) IN
  n * Squares(photo, set) - Sum(photo, set) ^ 2 > (n * Config.lumaStdMax) ^ 2

Differ(photo, a, b, limit) ==
  /\ a # {} /\ b # {}
  /\ LET m == Cardinality(a)  n == Cardinality(b)
     IN  Sum(photo, a) * n - Sum(photo, b) * m > limit * m * n

Third(i, size) == (i * size) \div 3 .. Max({(i * size) \div 3 + 1, ((i + 1) * size) \div 3}) - 1
Blocks(photo) ==
  {Third(i, Width(photo)) \X Third(j, Height(photo)) : i \in 0 .. 2, j \in 0 .. 2}

Unbalanced(photo, a, b) ==
  \/ Differ(photo, a, b, Config.halfDiffMax) \/ Differ(photo, b, a, Config.halfDiffMax)

BackgroundProblems(photo, bg) ==
  LET left == {p \in bg : 2 * p[1] < Width(photo)}
      top == {p \in bg : 2 * p[2] < Height(photo)}
  IN  {problem \in {"uneven brightness", "uneven blocks", "left-right shadow",
                    "top-bottom shadow"} :
         CASE problem = "uneven brightness" -> Deviates(photo, bg)
           [] problem = "uneven blocks" ->
                \E a, b \in Blocks(photo) :
                  Differ(photo, a \cap bg, b \cap bg, Config.blockRangeMax)
           [] problem = "left-right shadow" -> Unbalanced(photo, left, bg \ left)
           [] OTHER -> Unbalanced(photo, top, bg \ top)}

Background(photo, roi) ==
  LET bg == {p \in Pixels(photo) : ~InRoi(roi, photo, p)}
  IN  IF roi = None THEN None
      ELSE IF 100 * Cardinality(bg) < Config.minBackgroundPercent * Cardinality(Pixels(photo))
      THEN None ELSE BackgroundProblems(photo, bg)

(* laplacianVariance, zero along the border, against its limit.            *)
Blurry(photo) ==
  LET W == Width(photo)  H == Height(photo)  n == W * H
      Lap(p) == Luma(photo, p[1] - 1, p[2]) + Luma(photo, p[1] + 1, p[2])
                + Luma(photo, p[1], p[2] - 1) + Luma(photo, p[1], p[2] + 1)
                - 4 * Luma(photo, p[1], p[2])
      inner == (1 .. W - 2) \X (1 .. H - 2)
  IN  n * MapThenSumSet(LAMBDA p : Lap(p) ^ 2, inner) - MapThenSumSet(Lap, inner) ^ 2
        < Config.sharpnessMin * n * n

Clipped(photo, levels) ==
  100 * Cardinality({p \in Pixels(photo) : Luma(photo, p[1], p[2]) \in levels})
    > Config.clipPercent * Cardinality(Pixels(photo))

(* analyzeQuality.  Nothing amiss is a warning without issues, never a     *)
(* pass; nothing is known where there is no canvas.                        *)
AnalyzeQuality(photo, roi) ==
  IF ~photo.canvas
  THEN [status |-> "unknown", issues |-> {"no canvas"}, background |-> None]
  ELSE [status |-> "warn",
        issues |->
          (IF Clipped(photo, 0 .. Config.darkClipLevel) THEN {"underexposed"} ELSE {})
          \union (IF Clipped(photo, Config.brightClipLevel .. 255) THEN {"overexposed"} ELSE {})
          \union (IF Blurry(photo) THEN {"blurry"} ELSE {}),
        background |-> Background(photo, roi)]
=============================================================================

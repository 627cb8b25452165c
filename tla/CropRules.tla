------------------------------ MODULE CropRules ------------------------------
(***************************************************************************)
(* The template's measurement rules twice over: the reference ranges the   *)
(* editor draws (frontend/src/editor/overlay.ts) and the geometry checks   *)
(* of the final page (render/geometry-checks.ts), both in output pixels.   *)
(***************************************************************************)
EXTENDS Integers

CONSTANTS
  PxPerMm,  (* print density of a physical_raster template                 *)
  None      (* no bound, no guide, no face                                 *)

(* A size, a rule, and the face's anchors; y grows downwards.              *)
Rect == [width : Nat, height : Nat]
Rule == [metric : STRING, space : {"px", "mm", "ratio", "degrees"},
         min : Int \cup {None}, max : Int \cup {None}]
Anchors == [chin : Int, eyes : Int, hairline : Int, centre : Int]

(* What the editor shows of the photo: a pan, and a zoom in whole steps.   *)
View == [x : Int, y : Int, zoom : Nat \ {0}]

Or(bound, default) == IF bound = None THEN default ELSE bound
Along(rule, out) ==
  IF rule.metric \in {"face_center_offset_x", "face_left_margin", "face_right_margin",
                      "face_width", "interpupil_distance"}
  THEN out.width ELSE out.height

(* Ratios are given in halves of the output.                               *)
ToOutputPixels(value, rule, physical, out) ==
  CASE value = None -> None
    [] value # None /\ rule.space = "px" -> value
    [] value # None /\ rule.space = "mm" /\ physical -> value * PxPerMm
    [] value # None /\ rule.space = "ratio" -> (value * Along(rule, out)) \div 2
    [] OTHER -> None

MinPx(rule, physical, out) == ToOutputPixels(rule.min, rule, physical, out)
MaxPx(rule, physical, out) == ToOutputPixels(rule.max, rule, physical, out)
Unbounded(rule, physical, out) ==
  MinPx(rule, physical, out) = None /\ MaxPx(rule, physical, out) = None

-----------------------------------------------------------------------------
(* What is drawn.                                                          *)

Span(kind, a, b) == [kind |-> kind, from |-> IF a < b THEN a ELSE b, to |-> IF a < b THEN b ELSE a]

(* spanFor: an open bound is the edge of the canvas, but for the offset of *)
(* the face it is the centre line.                                         *)
SpanFor(metric, min, max, out) ==
  LET W == out.width  H == out.height IN
  CASE metric = "head_top_margin" -> Span("horizontal", Or(min, 0), Or(max, H))
    [] metric \in {"chin_bottom_margin", "eye_line_from_bottom"} ->
         Span("horizontal", H - Or(max, H), H - Or(min, 0))
    [] metric = "face_left_margin" -> Span("vertical", Or(min, 0), Or(max, W))
    [] metric = "face_right_margin" -> Span("vertical", W - Or(max, W), W - Or(min, 0))
    [] metric = "face_center_offset_x" ->
         Span("vertical", (W \div 2) + Or(min, 0), (W \div 2) + Or(max, 0))
    [] metric = "head_height" -> Span("size-y", Or(min, 0), Or(max, H))
    [] metric \in {"face_width", "interpupil_distance"} -> Span("size-x", Or(min, 0), Or(max, W))
    [] OTHER -> None

(* buildOverlayGuides, for one rule the overlay names.                     *)
Guide(rule, physical, out) ==
  IF Unbounded(rule, physical, out) THEN None
  ELSE SpanFor(rule.metric, MinPx(rule, physical, out), MaxPx(rule, physical, out), out)

Line(x1, y1, x2, y2) == [from |-> [x |-> x1, y |-> y1], to |-> [x |-> x2, y |-> y2]]

(* drawTemplateOverlay: the edges of a band, across the canvas, or the     *)
(* least and the greatest length, side by side from the same end.          *)
DrawnLines(guide, out) ==
  {CASE guide.kind = "horizontal" -> Line(0, at, out.width, at)
     [] guide.kind = "vertical" -> Line(at, 0, at, out.height)
     [] guide.kind = "size-y" -> Line(out.width - 10, 8, out.width - 10, 8 + at)
     [] OTHER -> Line(8, out.height - 10, 8 + at, out.height - 10) :
   at \in {guide.from, guide.to}}

-----------------------------------------------------------------------------
(* What is checked.                                                        *)

Handled == {"head_height", "face_center_offset_x", "chin_bottom_margin", "eye_line_from_bottom"}

Unmeasured == [status |-> "unknown", fix |-> None]
Passed == [status |-> "pass", fix |-> None]
Warned(fix) == [status |-> "warn", fix |-> fix]

Within(value, min, max) == (min = None \/ value >= min) /\ (max = None \/ value <= max)

(* Chin to hairline is less than the head: too much of it is a warning,    *)
(* and nothing is a pass.  The warning says to crop tighter, or to move    *)
(* further from the camera, for which there has to be another photo.       *)
HeadHeightCheck(face, max) ==
  LET span == face.chin - face.hairline IN
  IF span > 0 /\ max # None /\ span > max THEN Warned("tighter") ELSE Unmeasured

FaceCenterOffsetCheck(face, min, max, out) ==
  LET offset == face.centre - (out.width \div 2) IN
  IF Within(offset, min, max) THEN Passed ELSE Warned(IF offset < 0 THEN "right" ELSE "left")

(* Mutant: the advice moves the crop frame.                                *)
MarginMovingFrame(y, min, max, out) ==
  LET distance == out.height - y IN
  IF Within(distance, min, max) THEN Passed
  ELSE Warned(IF min # None /\ distance < min THEN "down" ELSE "up")

MarginFromBottomCheck(y, min, max, out) ==
  LET distance == out.height - y IN
  IF Within(distance, min, max) THEN Passed
  ELSE Warned(IF min # None /\ distance < min THEN "up" ELSE "down")

(* geometryChecks, for one handled rule.                                   *)
GeometryCheck(rule, physical, out, face) ==
  LET min == MinPx(rule, physical, out)
      max == MaxPx(rule, physical, out)
  IN  CASE face = None \/ Unbounded(rule, physical, out) -> Unmeasured
        [] OTHER ->
             CASE rule.metric = "head_height" -> HeadHeightCheck(face, max)
               [] rule.metric = "face_center_offset_x" -> FaceCenterOffsetCheck(face, min, max, out)
               [] rule.metric = "chin_bottom_margin" -> MarginFromBottomCheck(face.chin, min, max, out)
               [] OTHER -> MarginFromBottomCheck(face.eyes, min, max, out)

(* toOutput: the render matrix, of which the pan and the zoom are varied.  *)
ToOutput(face, view) ==
  IF face = None THEN None
  ELSE [chin |-> face.chin * view.zoom + view.y, eyes |-> face.eyes * view.zoom + view.y,
        hairline |-> face.hairline * view.zoom + view.y,
        centre |-> face.centre * view.zoom + view.x]

(* The photo moved by one pixel in the direction of the advice, or zoomed  *)
(* in on: cropping tighter leaves less of it in the same output.           *)
Moved(view, fix) ==
  CASE fix = "up" -> [view EXCEPT !.y = @ - 1]
    [] fix = "down" -> [view EXCEPT !.y = @ + 1]
    [] fix = "left" -> [view EXCEPT !.x = @ - 1]
    [] fix = "right" -> [view EXCEPT !.x = @ + 1]
    [] fix = "tighter" -> [view EXCEPT !.zoom = @ + 1]
    [] OTHER -> view
=============================================================================

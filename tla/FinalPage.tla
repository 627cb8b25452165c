------------------------------ MODULE FinalPage ------------------------------
(***************************************************************************)
(* The final page (frontend/src/render/final-page.tsx): the render effect  *)
(* and its results, renderFinalArtifact with its quality search            *)
(* (render/final-artifact.ts), the print density (render/jpeg.ts) and the  *)
(* check summary (render/checks.ts).                                       *)
(*                                                                         *)
(* A run of the effect draws, encodes with one quality after another and   *)
(* hands the artifact over; the checks of the artifact are built           *)
(* asynchronously after that, and nothing asks whether they are still      *)
(* wanted.  A JPEG is its header's segments, [kind, dpi].  Qualities are   *)
(* 0 (MIN_QUALITY) to MaxQuality (MAX_QUALITY), one being less than        *)
(* QUALITY_EPSILON; QUALITY_STEPS exceeds the halvings of that range and   *)
(* never ends the search.                                                  *)
(***************************************************************************)
EXTENDS CropRules, FiniteSetsExt, Sequences

CONSTANTS
  Templates, (* Template                                                   *)
  Rechecks,  (* static rechecks, [pose, exposure, background, face], or    *)
             (* None; the face's anchors are in output pixels              *)
  Browsers,  (* Browser                                                    *)
  Ppi,       (* print density of a paper template                          *)
  MaxQuality,(* MAX_QUALITY, a power of two for a range that is halved      *)
  MaxRuns,   (* bound on runs of the effect                                *)
  MaxAdvice  (* bound on times the user follows the advice                 *)

(* Of a template: its kind of output and the sizes that can be selected    *)
(* (larger is None for one that has its default size only), whether the    *)
(* file's size is limited, its measurement rules, its publication, and     *)
(* whether it asks for a manual check.                                     *)
Template ==
  [output : {"pixels", "physical", "portal"}, size : Rect, larger : Rect \cup {None},
   capped : BOOLEAN, rules : SUBSET Rule, active : BOOLEAN, manual : BOOLEAN]

Segments == [kind : {"jfif", "exif", "scan"}, dpi : Nat]

(* What a browser does: it has a canvas, accepts the crop, encodes, lets   *)
(* pixels be read back, and writes a header before the scan.               *)
Browser ==
  [canvas : BOOLEAN, valid : BOOLEAN, encoder : BOOLEAN, pixels : BOOLEAN,
   segments : Seq(Segments)]

Qualities == 0 .. MaxQuality
Artifact ==
  [run : Nat, size : {"default", "larger"}, quality : Qualities, pixels : Rect,
   read : BOOLEAN, segments : Seq(Segments)]

(* RenderError's kinds, and any other error.                               *)
Errors == {"size-limit", "render-failed", "ppi-failed", "crop-out-of-bounds", "other"}

ASSUME FinalAssumption ==
  /\ Templates \subseteq Template /\ Browsers \subseteq Browser
  /\ \A r \in Rechecks \ {None} : r.face \in Anchors \cup {None}
  /\ {MaxQuality, PxPerMm} \subseteq Nat \ {0} /\ {MaxRuns, MaxAdvice, Ppi} \subseteq Nat
  /\ None \notin Rect \cup Anchors \cup Artifact \cup Errors \cup Int

VARIABLES
  template,
  size,      (* selectedSize: "default" (null) or "larger"                 *)
  recheck,
  view,      (* the pan and the zoom the editor is left at                   *)
  fits,      (* size -> the qualities that encode to at most maxBytes      *)
  browser,
  run,       (* the current run of the effect                              *)
  phase,     (* "encoding", "dating", "over"                               *)
  lo, hi, best,
  artifact, error, checks,
  building,  (* the artifacts whose checks are being built                 *)
  advised

given == <<template, recheck, fits, browser>>
search == <<lo, hi, best>>
shown == <<artifact, error, checks>>
vars == <<given, size, view, run, phase, search, shown, building, advised>>

Physical == template.output = "physical"
OutputOf(selected) == IF selected = "larger" THEN template.larger ELSE template.size
Out == OutputOf(size)
face == IF recheck = None THEN None ELSE recheck.face

(* Every effect run clears what the last one left.                         *)
Begin ==
  /\ run < MaxRuns /\ run' = run + 1
  /\ artifact' = None /\ error' = None /\ checks' = None
  /\ phase' = "encoding" /\ lo' = 0 /\ hi' = MaxQuality /\ best' = None

Init ==
  /\ template \in Templates
  /\ size \in IF template.larger = None THEN {"default"} ELSE {"default", "larger"}
  /\ recheck \in Rechecks /\ view = [x |-> 0, y |-> 0, zoom |-> 1]
  /\ fits \in IF template.capped THEN [{size, "default"} -> SUBSET (Qualities \ {MaxQuality})]
              ELSE {[s \in {size, "default"} |-> Qualities]}
  /\ browser \in Browsers
  /\ run = 1 /\ phase = "encoding" /\ lo = 0 /\ hi = MaxQuality /\ best = None
  /\ artifact = None /\ error = None /\ checks = None
  /\ building = {} /\ advised = 0

-----------------------------------------------------------------------------
(* renderFinalArtifact.                                                    *)

Fails(kind) ==
  /\ phase' = "over" /\ error' = kind
  /\ UNCHANGED <<given, size, view, run, search, artifact, checks, building, advised>>

Encoding == phase = "encoding"
Drawn == template.output # "portal" /\ browser.valid /\ browser.canvas

(* The template has no output, the crop is out of bounds, or there is no   *)
(* canvas to draw on.                                                      *)
DrawingFails ==
  /\ Encoding /\ ~Drawn
  /\ Fails(IF template.output # "portal" /\ ~browser.valid THEN "crop-out-of-bounds"
           ELSE "render-failed")

EncoderFails == Encoding /\ Drawn /\ ~browser.encoder /\ Fails("render-failed")

Encoded(q) ==
  /\ phase' = "dating" /\ best' = q
  /\ UNCHANGED <<given, size, view, run, lo, hi, shown, building, advised>>

Encode == Encoding /\ Drawn /\ browser.encoder

EncodeOnce == Encode /\ ~template.capped /\ Encoded(MaxQuality)

Middle == (lo + hi) \div 2

TryMiddle ==
  /\ Encode /\ template.capped /\ hi - lo > 1
  /\ IF Middle \in fits[size]
     THEN /\ best' = IF best = None \/ Middle > best THEN Middle ELSE best
          /\ lo' = Middle /\ hi' = hi
     ELSE hi' = Middle /\ UNCHANGED <<lo, best>>
  /\ UNCHANGED <<given, size, view, run, phase, shown, building, advised>>

SearchFindsBest ==
  Encode /\ template.capped /\ hi - lo <= 1 /\ best # None /\ Encoded(best)

(* Mutant: the lower bound is never tried.                                 *)
GiveUpUntried ==
  /\ Encode /\ template.capped /\ hi - lo <= 1 /\ best = None
  /\ Fails("size-limit")

(* The minimum quality is tried once before giving up.                     *)
TryFloor ==
  /\ Encode /\ template.capped /\ hi - lo <= 1 /\ best = None
  /\ IF 0 \in fits[size] THEN Encoded(0) ELSE Fails("size-limit")

Before(i, segments, kind) == \A j \in 1 .. i - 1 : segments[j].kind # kind
InHeader(segments, kind) ==
  {i \in DOMAIN segments : segments[i].kind = kind /\ Before(i, segments, "scan")}
First(segments, kind) == {i \in InHeader(segments, kind) : Before(i, segments, kind)}

(* rewriteJfifDensityBytes.                                                *)
RewriteDensity(segments) ==
  [i \in DOMAIN segments |->
     IF i \in First(segments, "jfif") THEN [segments[i] EXCEPT !.dpi = Ppi] ELSE segments[i]]

Undatable == Physical /\ First(browser.segments, "jfif") = {}

(* A paper template's density needs a JFIF segment to be written to.       *)
DensityFails == phase = "dating" /\ Undatable /\ Fails("ppi-failed")

Made ==
  [run |-> run, size |-> size, quality |-> best, pixels |-> Out, read |-> browser.pixels,
   segments |-> IF Physical THEN RewriteDensity(browser.segments) ELSE browser.segments]

Deliver ==
  /\ phase = "dating" /\ ~Undatable
  /\ phase' = "over"
  /\ artifact' = Made
  /\ building' = building \cup {Made}
  /\ UNCHANGED <<given, size, view, run, search, error, checks, advised>>

-----------------------------------------------------------------------------
(* buildChecks.                                                            *)

Status(ok) == IF ok THEN "pass" ELSE "fail"

(* readJpegDensity: the first JFIF segment's, or nothing.                  *)
ReadDensity(segments) == {segments[i].dpi : i \in First(segments, "jfif")}

PoseCheck == IF recheck = None \/ recheck.pose = None THEN "unknown"
             ELSE IF recheck.pose = "ready" THEN "pass" ELSE "warn"

ExposureCheck == IF recheck = None \/ recheck.exposure = None THEN "unknown"
                 ELSE IF recheck.exposure = {} THEN "pass" ELSE "warn"

(* Nothing amiss in the background is not a pass.                          *)
BackgroundCheck == IF recheck = None \/ recheck.background \in {None, {}} THEN "unknown" ELSE "warn"

GeometryChecks(pixels) ==
  [r \in {rule \in template.rules : rule.metric \in Handled} |->
     GeometryCheck(r, Physical, pixels, ToOutput(face, view))]

BuildChecks(a) ==
  [run |-> a.run,
   pixels |-> Status(a.pixels = OutputOf(a.size)),
   metadata |-> Status(InHeader(a.segments, "exif") = {}),
   bytes |-> IF template.capped THEN Status(a.quality \in fits[a.size]) ELSE None,
   density |-> IF Physical THEN Status(ReadDensity(a.segments) = {Ppi}) ELSE None,
   integrity |-> IF a.read THEN "pass" ELSE "unknown",
   pose |-> PoseCheck, exposure |-> ExposureCheck, background |-> BackgroundCheck,
   rules |-> GeometryChecks(a.pixels),
   publication |-> IF template.active THEN None ELSE "warn",
   capture |-> IF template.manual THEN "manual" ELSE "unknown"]

(* Set whether or not the effect has run again since.                      *)
ChecksBuilt(a) ==
  /\ a \in building /\ building' = building \ {a}
  /\ checks' = BuildChecks(a)
  /\ UNCHANGED <<given, size, view, run, phase, search, artifact, error, advised>>

(* The artifact cannot be read back: it stays on the page with the error.  *)
ChecksFail(a) ==
  /\ a \in building /\ building' = building \ {a}
  /\ error' = IF a.run = run THEN "other" ELSE error
  /\ UNCHANGED <<given, size, view, run, phase, search, artifact, checks, advised>>

-----------------------------------------------------------------------------
(* The user.                                                               *)

(* canDowngrade: the same size would fail again.                           *)
CanDowngrade == error = "size-limit" /\ size = "larger"

(* The ways out are always there, the file from when it is made, also when *)
(* its checks are not there yet or have failed.                            *)
Offers ==
  {"back to edit", "restart"}
  \cup (IF error # None THEN {"retry"} ELSE {})
  \cup (IF CanDowngrade THEN {"default size"} ELSE {})
  \cup (IF artifact # None THEN {"download", "staging"} ELSE {})

(* Mutant: "Retry" is offered while the checks are being built.            *)
RetryAnyTime ==
  /\ artifact # None \/ error # None
  /\ Begin
  /\ UNCHANGED <<given, size, view, building, advised>>

Retry ==
  /\ "retry" \in Offers
  /\ Begin
  /\ UNCHANGED <<given, size, view, building, advised>>

UseDefaultSize ==
  /\ "default size" \in Offers
  /\ size' = "default"
  /\ Begin
  /\ UNCHANGED <<given, view, building, advised>>

(* Back to edit and in again, the photo moved or zoomed as a check         *)
(* advises: the page is mounted anew and forgets the builds under way.     *)
FollowAdvice ==
  /\ "back to edit" \in Offers /\ checks # None /\ advised < MaxAdvice /\ advised' = advised + 1
  /\ \E r \in DOMAIN checks.rules :
       checks.rules[r].fix # None /\ view' = Moved(view, checks.rules[r].fix)
  /\ Begin
  /\ building' = {}
  /\ UNCHANGED <<given, size>>

Render ==
  \/ DrawingFails \/ EncoderFails \/ EncodeOnce \/ TryMiddle \/ SearchFindsBest \/ TryFloor
  \/ DensityFails \/ Deliver

Next ==
  \/ Render
  \/ \E a \in building : ChecksBuilt(a) \/ ChecksFail(a)
  \/ Retry \/ UseDefaultSize \/ FollowAdvice

Spec == Init /\ [][Next]_vars

-----------------------------------------------------------------------------
(* Properties.                                                             *)

(* The summary on the page is that of the artifact on the page, though it  *)
(* is built asynchronously and set unasked: a run is started only from an  *)
(* error, and there is none while checks are being built.  An artifact     *)
(* that was delivered passes the checks of what the render promised: its   *)
(* pixels, its bytes and a print density that is read where it was written.*)
ChecksAreOfArtifact ==
  checks # None =>
    /\ artifact # None /\ checks.run = artifact.run
    /\ checks.pixels = "pass"
    /\ checks.bytes \in {"pass", None} /\ checks.density \in {"pass", None}

Monotone(set) == \A q \in set : 0 .. q \subseteq set

(* The quality search delivers nothing over the limit; for an image that   *)
(* only grows with the quality it delivers the best quality below the      *)
(* maximum, and it gives up only on an image that never fits.  The maximum *)
(* itself is not tried.                                                    *)
SearchIsExact ==
  template.capped =>
    /\ artifact # None => artifact.quality \in fits[artifact.size]
    /\ Monotone(fits[size]) /\ artifact # None =>
         \A q \in fits[size] : q <= artifact.quality
    /\ Monotone(fits[size]) /\ error = "size-limit" => fits[size] = {}

Anchor(rule, f) ==
  CASE rule.metric = "face_center_offset_x" -> f.centre
    [] rule.metric = "chin_bottom_margin" -> f.chin
    [] OTHER -> f.eyes

(* How far from the band between its edges.                                *)
Gap(v, edges) ==
  IF v < Min(edges) THEN Min(edges) - v ELSE IF v > Max(edges) THEN v - Max(edges) ELSE 0

Edge(rule) == IF rule.metric = "face_center_offset_x" THEN Out.width ELSE Out.height

(* A rule whose bounds are in order, an open one being the canvas's edge;  *)
(* the face's offset has to be bounded on both sides.                      *)
InOrder(rule) ==
  LET min == MinPx(rule, Physical, Out)
      max == MaxPx(rule, Physical, Out)
  IN  IF rule.metric = "face_center_offset_x" THEN min # None /\ max # None /\ min <= max
      ELSE Or(min, 0) <= Or(max, Out.height)

OffCentre(rule) ==
  rule.metric = "face_center_offset_x" /\ 0 \notin MinPx(rule, Physical, Out) .. MaxPx(rule, Physical, Out)

(* What the editor draws is what the final page checks, for every rule     *)
(* with its bounds in order: an anchor on the canvas passes exactly when   *)
(* it lies between the two lines drawn for its rule, and a head is warned  *)
(* of only when it is longer than either ruler.  The advice of a warning   *)
(* brings the anchor nearer to the band, with two exceptions: for a band   *)
(* of the face's offset beside the centre line the advice is to recentre   *)
(* all the same, and for a head that is too long it is always to crop      *)
(* tighter, which makes the head longer still.                             *)
ChecksAgreeWithGuides ==
  checks # None /\ face # None =>
    \A r \in {rule \in DOMAIN checks.rules : Guide(rule, Physical, Out) # None /\ InOrder(rule)} :
      LET lines == DrawnLines(Guide(r, Physical, Out), Out)
          edges == {IF r.metric = "face_center_offset_x" THEN l.from.x ELSE l.from.y : l \in lines}
          check == checks.rules[r]
          f == ToOutput(face, view)
          v == Anchor(r, f)
      IN  IF r.metric = "head_height"
          THEN check.status = "warn" =>
                 LET g == ToOutput(face, Moved(view, check.fix)) IN
                 /\ \A l \in lines : f.chin - f.hairline > l.to.y - l.from.y
                 /\ g.chin - g.hairline > f.chin - f.hairline
          ELSE /\ v \in 0 .. Edge(r) => (check.status = "pass" <=> Gap(v, edges) = 0)
               /\ check.status = "warn" /\ ~OffCentre(r) =>
                    Gap(Anchor(r, ToOutput(face, Moved(view, check.fix))), edges) < Gap(v, edges)
=============================================================================

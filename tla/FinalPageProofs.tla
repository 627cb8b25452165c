-------------------------- MODULE FinalPageProofs --------------------------
(***************************************************************************)
(* Proofs about FinalPage, for any range of qualities, any templates,      *)
(* rules and browsers, any faces found in the artifact, and any number of  *)
(* renders.                                                                *)
(*                                                                         *)
(* The invariant has three parts: what the page is given, the bounds of    *)
(* the search, and which artifact the checks belong to. What its lines and *)
(* checks say of a rule is a matter of the operators, and of the last      *)
(* part.                                                                   *)
(***************************************************************************)
EXTENDS FinalPage, TLAPS

(* What the page is given, and what it knows of each size's qualities.     *)
GivenInv ==
  /\ template \in Templates /\ browser \in Browsers /\ recheck \in Rechecks
  /\ size \in {"default", "larger"} /\ (size = "larger" => template.larger # None)
  /\ run \in Nat /\ view \in View
  /\ \A s \in {size, "default"} :
       fits[s] \subseteq Qualities /\ (template.capped => MaxQuality \notin fits[s])

(* The upper bound of the search does not fit, and the lower bound is the  *)
(* best quality found, once one has been; a quality that is delivered fits *)
(* and, if fitting is monotone, no better one does.                        *)
SearchInv ==
  /\ template.capped /\ phase = "encoding" =>
       /\ lo \in Qualities /\ hi \in Qualities /\ lo < hi /\ hi \notin fits[size]
       /\ IF best = None THEN lo = 0 ELSE best = lo /\ best \in fits[size]
  /\ phase = "dating" \/ artifact # None =>
       /\ best \in Qualities
       /\ template.capped =>
            /\ best \in fits[size]
            /\ Monotone(fits[size]) => \A q \in fits[size] : q <= best
  /\ template.capped /\ error = "size-limit" => 0 \notin fits[size]

(* The artifact is the one the run has made; checks are built of it, while *)
(* there is no error, and shown with it.                                   *)
ShownInv ==
  /\ phase \in {"encoding", "dating", "over"}
  /\ phase # "over" => error = None /\ artifact = None
  /\ artifact # None => artifact = Made /\ ~Undatable
  /\ building # {} => error = None /\ artifact # None /\ building = {artifact}
  /\ checks # None => artifact # None /\ checks = BuildChecks(artifact)

(* The whole invariant.                                                    *)
Inv == GivenInv /\ SearchInv /\ ShownInv

-----------------------------------------------------------------------------
(* The range that is searched.                                             *)
LEMMA QualitiesAre ==
  /\ Qualities \subseteq Nat /\ 0 \in Qualities /\ MaxQuality \in Qualities /\ 0 < MaxQuality
  /\ MaxQuality \in Nat /\ None \notin Qualities
<1>1. MaxQuality \in Nat \ {0} /\ None \notin Int
  BY FinalAssumption
<1> QED BY <1>1 DEF Qualities

(* No error is mistaken for none.                                          *)
LEMMA ErrorIs == None \notin Errors
BY FinalAssumption

(* What is drawn has a size.                                               *)
LEMMA OutIs == GivenInv => Out \in Rect
BY FinalAssumption DEF GivenInv, Out, OutputOf, Template

(* An artifact is never mistaken for none.                                 *)
LEMMA MadeIs == ASSUME GivenInv, best \in Qualities PROVE Made \in Artifact /\ Made # None
<1>1. browser.segments \in Seq(Segments) /\ browser.pixels \in BOOLEAN
  BY FinalAssumption DEF GivenInv, Browser
<1>2. RewriteDensity(browser.segments) \in Seq(Segments)
  <2> DEFINE s == browser.segments
  <2>1. PICK n \in Nat : DOMAIN s = 1 .. n /\ \A i \in 1 .. n : s[i] \in Segments
    <3>1. Len(s) \in Nat /\ DOMAIN s = 1 .. Len(s) /\ \A i \in 1 .. Len(s) : s[i] \in Segments
      BY <1>1
    <3> QED BY <3>1
  <2>2. \A i \in 1 .. n : [s[i] EXCEPT !.dpi = Ppi] \in Segments
    BY <2>1, FinalAssumption DEF Segments
  <2>3. RewriteDensity(s) \in [1 .. n -> Segments]
    BY <2>1, <2>2 DEF RewriteDensity
  <2> QED BY <2>3
<1>3. Made \in Artifact
  BY <1>1, <1>2, OutIs DEF Made, Artifact, GivenInv
<1> QED BY <1>3, FinalAssumption

(* The density that is written is the density that is read.                *)
LEMMA DensityIsRead ==
  ASSUME NEW s \in Seq(Segments), First(s, "jfif") # {}
  PROVE  ReadDensity(RewriteDensity(s)) = {Ppi}
<1> DEFINE t == RewriteDensity(s)
<1>1. DOMAIN t = DOMAIN s /\ DOMAIN s = 1 .. Len(s) /\ Len(s) \in Nat
  BY DEF RewriteDensity
<1>2. \A i \in DOMAIN s : /\ s[i] \in Segments /\ t[i].kind = s[i].kind
                          /\ i \in First(s, "jfif") => t[i].dpi = Ppi
  <2>1. ASSUME NEW i \in DOMAIN s
        PROVE  /\ s[i] \in Segments /\ [s[i] EXCEPT !.dpi = Ppi].kind = s[i].kind
               /\ [s[i] EXCEPT !.dpi = Ppi].dpi = Ppi
    <3>1. s[i] \in Segments
      BY <1>1
    <3> QED BY <3>1 DEF Segments
  <2>2. \A i \in DOMAIN s : t[i] = IF i \in First(s, "jfif") THEN [s[i] EXCEPT !.dpi = Ppi] ELSE s[i]
    BY DEF RewriteDensity
  <2> HIDE DEF t
  <2> QED BY <2>1, <2>2
<1>3. ASSUME NEW i \in DOMAIN s, NEW kind PROVE Before(i, t, kind) <=> Before(i, s, kind)
  BY <1>1, <1>2 DEF Before
<1>4. First(t, "jfif") = First(s, "jfif")
  BY <1>1, <1>2, <1>3 DEF First, InHeader
<1>5. First(s, "jfif") \subseteq DOMAIN s
  BY DEF First, InHeader
<1>6. ReadDensity(t) = {t[i].dpi : i \in First(s, "jfif")}
  BY <1>4 DEF ReadDensity
<1> HIDE DEF t
<1>7. ReadDensity(t) = {Ppi}
  BY <1>2, <1>5, <1>6
<1> QED BY <1>7 DEF t

-----------------------------------------------------------------------------
(* The first render starts with nothing found.                             *)
LEMMA InitInv == Init => Inv
<1> SUFFICES ASSUME Init PROVE Inv
  OBVIOUS
<1> USE FinalAssumption
<1>1. GivenInv
  <2>1. /\ template \in Templates /\ browser \in Browsers /\ recheck \in Rechecks
        /\ size \in {"default", "larger"} /\ (size = "larger" => template.larger # None)
        /\ run \in Nat /\ view \in View
    BY DEF Init, View
  <2>2. ASSUME NEW s \in {size, "default"}
        PROVE  fits[s] \subseteq Qualities /\ (template.capped => MaxQuality \notin fits[s])
    <3>1. CASE template.capped
      <4>1. fits \in [{size, "default"} -> SUBSET (Qualities \ {MaxQuality})]
        BY <3>1 DEF Init
      <4> QED BY <4>1
    <3>2. CASE ~template.capped
      <4>1. fits = [x \in {size, "default"} |-> Qualities]
        BY <3>2 DEF Init
      <4> QED BY <3>2, <4>1
    <3> QED BY <3>1, <3>2
  <2> QED BY <2>1, <2>2 DEF GivenInv
<1>2. SearchInv
  <2>1. size \in {size, "default"} /\ lo = 0 /\ hi = MaxQuality /\ best = None /\ artifact = None
        /\ error = None /\ phase = "encoding"
    BY DEF Init
  <2>2. template.capped => MaxQuality \notin fits[size]
    BY <1>1, <2>1 DEF GivenInv
  <2> QED BY <2>1, <2>2, QualitiesAre, ErrorIs DEF Errors, SearchInv
<1>3. ShownInv
  BY DEF Init, ShownInv
<1> QED BY <1>1, <1>2, <1>3 DEF Inv

(* A new run begins with nothing found and nothing shown.                  *)
LEMMA Beginning ==
  ASSUME Inv, Begin, UNCHANGED given, GivenInv', building' = {}
  PROVE  Inv'
<1>1. SearchInv'
  <2>1. /\ lo' = 0 /\ hi' = MaxQuality /\ best' = None /\ artifact' = None
        /\ error' = None /\ phase' = "encoding"
    BY DEF Begin
  <2>2. template'.capped => MaxQuality \notin fits'[size']
    BY DEF GivenInv
  <2> QED BY <2>1, <2>2, QualitiesAre, ErrorIs DEF Errors, SearchInv, Qualities
<1>2. ShownInv'
  BY DEF ShownInv, Begin
<1> QED BY <1>1, <1>2 DEF Inv

(* What is built and shown does not depend on the step taken.              *)
LEMMA SameArtifact ==
  ASSUME UNCHANGED <<given, size, view, run, best>>
  PROVE  /\ Made' = Made /\ Undatable' = Undatable
         /\ \A a : BuildChecks(a)' = BuildChecks(a)
BY DEF given, Made, Undatable, Physical, Out, OutputOf, RewriteDensity, First, InHeader, Before,
       BuildChecks, ReadDensity, PoseCheck, ExposureCheck, BackgroundCheck, GeometryChecks, face

(* Every handler and continuation of the page keeps the invariant.         *)
LEMMA NextInv == Inv /\ [Next]_vars => Inv'
<1> SUFFICES ASSUME Inv, [Next]_vars PROVE Inv'
  OBVIOUS
<1> USE DEF Inv
<1>1. ASSUME UNCHANGED <<given, size, view, run>> PROVE GivenInv'
  BY <1>1 DEF GivenInv, given
<1>2. ASSUME NEW kind, Encoding, UNCHANGED <<given, size, view, run, search, artifact, checks, building>>,
             phase' = "over", error' = kind, kind # None,
             template.capped /\ kind = "size-limit" => 0 \notin fits[size]
      PROVE  Inv'
  <2>1. SearchInv'
    BY <1>2 DEF SearchInv, ShownInv, Encoding, given, search
  <2>2. ShownInv'
    BY <1>2 DEF ShownInv, Encoding
  <2> QED BY <1>1, <1>2, <2>1, <2>2
<1>3. ASSUME NEW q \in Qualities, Encoding, Encoded(q),
             template.capped => /\ q \in fits[size]
                                /\ Monotone(fits[size]) => \A x \in fits[size] : x <= q
      PROVE  Inv'
  <2>1. SearchInv'
    BY <1>3 DEF SearchInv, ShownInv, Encoded, Encoding, given, shown, Monotone
  <2>2. ShownInv'
    BY <1>3 DEF ShownInv, Encoded, Encoding, shown
  <2> QED BY <1>1, <1>3, <2>1, <2>2 DEF Encoded
<1>4. CASE DrawingFails
  <2> DEFINE kind == IF template.output # "portal" /\ ~browser.valid THEN "crop-out-of-bounds"
                     ELSE "render-failed"
  <2>1. Encoding /\ Fails(kind) /\ kind # None /\ kind # "size-limit"
    BY <1>4, ErrorIs DEF Errors, DrawingFails
  <2> HIDE DEF kind
  <2> QED BY <1>2, <2>1 DEF Fails
<1>5. CASE EncoderFails
  BY <1>2, <1>5, ErrorIs DEF Errors, EncoderFails, Fails
<1>6. CASE EncodeOnce
  BY <1>3, <1>6, QualitiesAre DEF EncodeOnce, Encode
<1>7. CASE TryMiddle
  <2>1. /\ lo \in Nat /\ hi \in Nat /\ hi - lo > 1 /\ lo \in Qualities /\ hi \in Qualities
        /\ hi \notin fits[size] /\ IF best = None THEN lo = 0 ELSE best = lo /\ best \in fits[size]
    BY <1>7, QualitiesAre DEF TryMiddle, SearchInv, Encode, Encoding
  <2>2. Middle \in Qualities /\ lo < Middle /\ Middle < hi
    <3>1. MaxQuality \in Nat /\ hi <= MaxQuality
      BY <2>1, QualitiesAre DEF Qualities
    <3>2. 2 * lo < lo + hi - 1 /\ lo + hi + 1 < 2 * hi
      BY <2>1
    <3>3. Middle \in Nat /\ lo < Middle /\ Middle < hi
      BY <2>1, <3>2 DEF Middle
    <3> QED BY <3>1, <3>3, <2>1 DEF Qualities
  <2>3. /\ UNCHANGED <<given, size, view, run, phase, shown, building>> /\ Encoding
        /\ IF Middle \in fits[size] THEN best' = Middle /\ lo' = Middle /\ hi' = hi
           ELSE hi' = Middle /\ lo' = lo /\ best' = best
    <3>1. best # None => ~(Middle \in fits[size]) \/ Middle > best
      BY <2>1, <2>2
    <3> QED BY <1>7, <3>1 DEF TryMiddle, Encode
  <2>4. /\ fits[size]' = fits[size] /\ template' = template /\ phase' = "encoding"
        /\ phase = "encoding" /\ artifact = None /\ error = None /\ artifact' = None /\ error' = None
    BY <2>3 DEF given, shown, Encoding, ShownInv
  <2>5. SearchInv'
    <3>1. CASE Middle \in fits[size]
      <4>1. hi' = hi /\ lo' = Middle /\ best' = Middle /\ Middle # None
        BY <2>2, <2>3, <3>1, QualitiesAre
      <4> QED BY <2>1, <2>2, <2>4, <3>1, <4>1 DEF SearchInv, Qualities
    <3>2. CASE Middle \notin fits[size]
      BY <2>1, <2>2, <2>3, <2>4, <3>2 DEF SearchInv, Qualities
    <3> QED BY <3>1, <3>2
  <2>6. ShownInv'
    BY <2>3, <2>4 DEF ShownInv, shown
  <2> QED BY <1>1, <2>3, <2>5, <2>6
<1>8. ASSUME Encode, template.capped, hi - lo <= 1 PROVE hi = lo + 1 /\ lo \in Qualities
  <2>1. lo \in Nat /\ hi \in Nat /\ lo < hi /\ lo \in Qualities
    BY <1>8, QualitiesAre DEF Encode, Encoding, SearchInv
  <2> QED BY <1>8, <2>1
<1>9. ASSUME Encode, template.capped, hi - lo <= 1, Monotone(fits[size])
      PROVE  \A x \in fits[size] : x <= lo
  <2>1. hi = lo + 1 /\ lo \in Nat /\ hi \notin fits[size] /\ fits[size] \subseteq Nat
    BY <1>8, <1>9, QualitiesAre DEF Encode, Encoding, SearchInv, GivenInv
  <2>2. ASSUME NEW x \in fits[size], x >= hi PROVE FALSE
    BY <1>9, <2>1, <2>2 DEF Monotone
  <2> QED BY <2>1, <2>2
<1>10. CASE SearchFindsBest
  <2>1. best \in Qualities /\ best = lo /\ best \in fits[size] /\ Encode /\ Encoded(best)
    BY <1>10 DEF SearchFindsBest, Encode, Encoding, SearchInv
  <2> QED BY <1>3, <1>9, <1>10, <2>1 DEF SearchFindsBest, Encode
<1>11. CASE TryFloor
  <2>1. lo = 0 /\ Encode /\ template.capped /\ hi - lo <= 1 /\ 0 \in Qualities
    BY <1>11, QualitiesAre DEF TryFloor, Encode, Encoding, SearchInv
  <2>2. CASE 0 \in fits[size]
    BY <1>3, <1>9, <1>11, <2>1, <2>2 DEF TryFloor, Encode
  <2>3. CASE 0 \notin fits[size]
    BY <1>2, <1>11, <2>1, <2>3, ErrorIs DEF Errors, TryFloor, Fails, Encode
  <2> QED BY <2>2, <2>3
<1>12. CASE DensityFails
  <2>1. /\ UNCHANGED <<given, size, view, run, search, artifact, checks, building>>
        /\ phase = "dating" /\ phase' = "over" /\ error' = "ppi-failed" /\ artifact = None
    BY <1>12 DEF DensityFails, Fails, ShownInv
  <2>2. SearchInv' /\ ShownInv'
    BY <2>1 DEF SearchInv, ShownInv, given, search
  <2> QED BY <1>1, <2>1, <2>2
<1>13. CASE Deliver
  <2>1. /\ UNCHANGED <<given, size, view, run, search, error, checks>> /\ phase = "dating"
        /\ phase' = "over" /\ artifact' = Made /\ building' = building \cup {Made} /\ ~Undatable
        /\ artifact = None /\ building = {} /\ error = None /\ best \in Qualities /\ checks = None
    BY <1>13 DEF Deliver, ShownInv, SearchInv
  <2>2. Made # None /\ Made' = Made /\ ~Undatable'
    BY <2>1, MadeIs, SameArtifact DEF search
  <2>3. SearchInv'
    BY <2>1 DEF SearchInv, given, search
  <2>4. ShownInv'
    BY <2>1, <2>2 DEF ShownInv
  <2> QED BY <1>1, <2>1, <2>3, <2>4
<1>14. ASSUME NEW a \in building, ChecksBuilt(a) PROVE Inv'
  <2>1. /\ UNCHANGED <<given, size, view, run, phase, search, artifact, error>> /\ a = artifact
        /\ building' = {} /\ checks' = BuildChecks(a) /\ artifact # None
    BY <1>14 DEF ChecksBuilt, ShownInv
  <2>2. SearchInv'
    BY <2>1 DEF SearchInv, given, search
  <2>3. ShownInv'
    BY <2>1, SameArtifact DEF ShownInv, search
  <2> QED BY <1>1, <2>1, <2>2, <2>3
<1>15. ASSUME NEW a \in building, ChecksFail(a) PROVE Inv'
  <2>1. /\ UNCHANGED <<given, size, view, run, phase, search, artifact, checks>> /\ a = artifact
        /\ building' = {} /\ error' = "other" /\ artifact # None /\ phase = "over"
    BY <1>15, ErrorIs DEF Errors, ChecksFail, ShownInv, Made
  <2>2. SearchInv'
    BY <2>1 DEF SearchInv, given, search
  <2>3. ShownInv'
    BY <2>1, SameArtifact DEF ShownInv, search
  <2> QED BY <1>1, <2>1, <2>2, <2>3
<1>16. CASE Retry
  <2>1. error # None /\ building' = {} /\ Begin /\ UNCHANGED <<given, size, view>>
    BY <1>16 DEF Retry, Offers, CanDowngrade, ShownInv
  <2>2. GivenInv'
    BY <2>1 DEF GivenInv, given, Begin
  <2> QED BY <2>1, <2>2, Beginning
<1>17. CASE UseDefaultSize
  <2>1. /\ error # None /\ building' = {} /\ Begin /\ UNCHANGED <<given, view>> /\ size' = "default"
    BY <1>17, ErrorIs DEF Errors, UseDefaultSize, Offers, CanDowngrade, ShownInv
  <2>2. GivenInv'
    BY <2>1 DEF GivenInv, given, Begin
  <2> QED BY <2>1, <2>2, Beginning
<1>18. CASE FollowAdvice
  <2>1. /\ building' = {} /\ Begin /\ UNCHANGED <<given, size>>
        /\ \E fix : view' = Moved(view, fix)
    BY <1>18 DEF FollowAdvice
  <2>2. view' \in View
    BY <2>1 DEF GivenInv, Moved, View
  <2>3. GivenInv'
    BY <2>1, <2>2 DEF GivenInv, given, Begin
  <2> QED BY <2>1, <2>3, Beginning
<1>19. CASE UNCHANGED vars
  <2>1. UNCHANGED <<given, size, view, run, phase, search, shown, building>>
    BY <1>19 DEF vars
  <2>2. SearchInv'
    BY <2>1 DEF SearchInv, given, search, shown
  <2>3. ShownInv'
    BY <2>1, SameArtifact DEF ShownInv, search, shown
  <2> QED BY <1>1, <2>1, <2>2, <2>3
<1> QED BY <1>4, <1>5, <1>6, <1>7, <1>10, <1>11, <1>12, <1>13, <1>14, <1>15, <1>16, <1>17, <1>18,
           <1>19 DEF Next, Render

(* The invariant holds throughout.                                         *)
LEMMA Always == Spec => []Inv
BY InitInv, NextInv, PTL DEF Spec

-----------------------------------------------------------------------------
(* The JPEG quality that is delivered fits the byte limit of the template  *)
(* and, when a larger quality never makes a smaller file, is the best      *)
(* below the maximum that fits; the search then gives up only on an image  *)
(* that never fits. So it is for every number of qualities.                *)
THEOREM SearchExact == Spec => []SearchIsExact
<1>1. Inv => SearchIsExact
  <2> SUFFICES ASSUME Inv, template.capped PROVE SearchIsExact
    BY DEF SearchIsExact
  <2>1. artifact # None => /\ artifact.quality = best /\ artifact.size = size
    BY DEF Inv, ShownInv, Made
  <2>2. Monotone(fits[size]) /\ error = "size-limit" => fits[size] = {}
    <3>1. fits[size] \subseteq Nat
      BY QualitiesAre DEF Inv, GivenInv
    <3>2. error = "size-limit" => 0 \notin fits[size]
      BY DEF Inv, SearchInv
    <3> QED BY <3>1, <3>2 DEF Monotone
  <2> QED BY <2>1, <2>2 DEF Inv, SearchInv, SearchIsExact
<1> QED BY <1>1, Always, PTL

(* The summary the page shows was computed of the artifact it offers,      *)
(* never of an earlier render, and finds the pixels, the bytes and the     *)
(* density that the render promised, for every order of the segments in    *)
(* the file the browser encodes.                                           *)
THEOREM ChecksOfArtifact == Spec => []ChecksAreOfArtifact
<1>1. Inv => ChecksAreOfArtifact
  <2> SUFFICES ASSUME Inv, checks # None PROVE ChecksAreOfArtifact
    BY DEF ChecksAreOfArtifact
  <2>1. /\ artifact # None /\ artifact = Made /\ ~Undatable /\ checks = BuildChecks(artifact)
    BY DEF Inv, ShownInv
  <2>2. checks.run = artifact.run /\ checks.pixels = "pass"
    BY <2>1 DEF BuildChecks, Made, Status, Out
  <2>3. checks.bytes \in {"pass", None}
    <3>1. template.capped => artifact.quality \in fits[artifact.size]
      BY <2>1 DEF Inv, SearchInv, Made
    <3> QED BY <2>1, <3>1 DEF BuildChecks, Status
  <2>4. checks.density \in {"pass", None}
    <3>1. CASE Physical
      <4>1. browser.segments \in Seq(Segments) /\ First(browser.segments, "jfif") # {}
        BY <2>1, <3>1, FinalAssumption DEF Inv, GivenInv, Browser, Undatable
      <4>2. ReadDensity(artifact.segments) = {Ppi}
        BY <2>1, <3>1, <4>1, DensityIsRead DEF Made
      <4> QED BY <2>1, <4>2 DEF BuildChecks, Status
    <3>2. CASE ~Physical
      BY <2>1, <3>2 DEF BuildChecks
    <3> QED BY <3>1, <3>2
  <2> QED BY <2>1, <2>2, <2>3, <2>4 DEF ChecksAreOfArtifact
<1> QED BY <1>1, Always, PTL
-----------------------------------------------------------------------------
(* The lines that are drawn and the checks that are made.                  *)

(* A bound in pixels is a number or missing.                               *)
LEMMA BoundsAre ==
  ASSUME NEW r \in Rule, NEW physical \in BOOLEAN, NEW out \in Rect
  PROVE  MinPx(r, physical, out) \in Int \cup {None} /\ MaxPx(r, physical, out) \in Int \cup {None}
<1>1. ASSUME NEW value \in Int \cup {None} PROVE ToOutputPixels(value, r, physical, out) \in Int \cup {None}
  <2>1. PxPerMm \in Int /\ Along(r, out) \in Int
    BY FinalAssumption DEF Along, Rect
  <2>2. value # None => value * PxPerMm \in Int /\ (value * Along(r, out)) \div 2 \in Int
    <3>1. value # None => value * Along(r, out) \in Int /\ value * PxPerMm \in Int
      BY <2>1
    <3> QED BY <3>1
  <2> QED BY <1>1, <2>2 DEF ToOutputPixels
<1>2. r.min \in Int \cup {None} /\ r.max \in Int \cup {None}
  BY DEF Rule
<1> QED BY <1>1, <1>2 DEF MinPx, MaxPx

(* The two edges of what is drawn.                                         *)
LEMMA EdgesAre ==
  ASSUME NEW kind \in {"horizontal", "vertical"}, NEW a \in Int, NEW b \in Int, a <= b, NEW out \in Rect
  PROVE  {IF kind = "vertical" THEN l.from.x ELSE l.from.y : l \in DrawnLines(Span(kind, a, b), out)}
           = {a, b}
<1> DEFINE At(at) == IF kind = "horizontal" THEN Line(0, at, out.width, at) ELSE Line(at, 0, at, out.height)
<1>1. Span(kind, a, b).kind = kind /\ {Span(kind, a, b).from, Span(kind, a, b).to} = {a, b}
  BY DEF Span
<1>2. DrawnLines(Span(kind, a, b), out) = {At(a), At(b)}
  BY <1>1 DEF DrawnLines
<1>3. ASSUME NEW at \in Int
      PROVE  (IF kind = "vertical" THEN At(at).from.x ELSE At(at).from.y) = at
  BY DEF Line
<1> HIDE DEF At
<1> QED BY <1>2, <1>3

(* ... and the two lengths of what is drawn as rulers.                     *)
LEMMA RulersAre ==
  ASSUME NEW a \in Int, NEW b \in Int, NEW out \in Rect,
         NEW l \in DrawnLines(Span("size-y", a, b), out)
  PROVE  l.to.y - l.from.y \in {a, b}
<1> DEFINE g == Span("size-y", a, b)
<1>1. g.kind = "size-y" /\ g.from \in {a, b} /\ g.to \in {a, b}
  BY DEF Span
<1>2. PICK at \in {a, b} : l = Line(out.width - 10, 8, out.width - 10, 8 + at)
  BY <1>1 DEF DrawnLines
<1>3. l.to.y = 8 + at /\ l.from.y = 8
  BY <1>2 DEF Line
<1> QED BY <1>3

(* The distance to a band.                                                 *)
LEMMA GapIs ==
  ASSUME NEW a \in Int, NEW b \in Int, a <= b, NEW v \in Int
  PROVE  Gap(v, {a, b}) = IF v < a THEN a - v ELSE IF v > b THEN v - b ELSE 0
<1>1. Min({a, b}) = a /\ Max({a, b}) = b
  BY DEF Min, Max
<1> QED BY <1>1 DEF Gap

(* What the check of a margin should say of an anchor at y.                *)
MarginAgrees(y, min, max, out) ==
  LET a == out.height - Or(max, out.height)
      b == out.height - Or(min, 0)
      check == MarginFromBottomCheck(y, min, max, out)
  IN  /\ a \in Int /\ b \in Int /\ a <= b
      /\ y \in 0 .. out.height => (check.status = "pass" <=> Gap(y, {a, b}) = 0)
      /\ check.status = "warn" =>
           \/ check.fix = "up" /\ Gap(y - 1, {a, b}) < Gap(y, {a, b})
           \/ check.fix = "down" /\ Gap(y + 1, {a, b}) < Gap(y, {a, b})

(* A margin is drawn and checked alike, and its advice helps.              *)
LEMMA MarginsAgree ==
  ASSUME NEW out \in Rect, NEW y \in Int, NEW min \in Int \cup {None}, NEW max \in Int \cup {None},
         min # None \/ max # None, Or(min, 0) <= Or(max, out.height)
  PROVE  MarginAgrees(y, min, max, out)
<1> DEFINE H == out.height
           a == H - Or(max, H)
           b == H - Or(min, 0)
           check == MarginFromBottomCheck(y, min, max, out)
<1>1. H \in Nat /\ None \notin Int
  BY FinalAssumption DEF Rect
<1>2. a \in Int /\ b \in Int /\ a <= b
  BY <1>1 DEF Or
<1>3. \A v \in Int : Gap(v, {a, b}) = IF v < a THEN a - v ELSE IF v > b THEN v - b ELSE 0
  BY <1>2, GapIs
<1>4. (min # None => b = H - min) /\ (max # None => a = H - max)
      /\ (min = None => b = H) /\ (max = None => a = 0)
  BY <1>1 DEF Or
<1>5. /\ check = IF Within(H - y, min, max) THEN Passed
                  ELSE Warned(IF min # None /\ H - y < min THEN "up" ELSE "down")
      /\ Within(H - y, min, max) <=> (min = None \/ y <= b) /\ (max = None \/ y >= a)
  BY <1>1, <1>2, <1>4 DEF MarginFromBottomCheck, Within
<1> HIDE DEF H, a, b, check
<1>6. y \in 0 .. H => (check.status = "pass" <=> Gap(y, {a, b}) = 0)
  <2>1. check.status = "pass" <=> Within(H - y, min, max)
    BY <1>5 DEF Passed, Warned
  <2>2. y \in 0 .. H => (Within(H - y, min, max) <=> a <= y /\ y <= b)
    BY <1>1, <1>2, <1>4, <1>5
  <2>3. Gap(y, {a, b}) = 0 <=> a <= y /\ y <= b
    BY <1>2, <1>3
  <2> QED BY <2>1, <2>2, <2>3
<1>7. check.status = "warn" =>
        \/ check.fix = "up" /\ Gap(y - 1, {a, b}) < Gap(y, {a, b})
        \/ check.fix = "down" /\ Gap(y + 1, {a, b}) < Gap(y, {a, b})
  <2> SUFFICES ASSUME check.status = "warn"
               PROVE  \/ check.fix = "up" /\ Gap(y - 1, {a, b}) < Gap(y, {a, b})
                      \/ check.fix = "down" /\ Gap(y + 1, {a, b}) < Gap(y, {a, b})
    OBVIOUS
  <2>1. /\ ~Within(H - y, min, max)
        /\ check.fix = IF min # None /\ H - y < min THEN "up" ELSE "down"
    BY <1>5 DEF Passed, Warned
  <2>2. CASE min # None /\ y > b
    <3>1. check.fix = "up"
      BY <1>1, <1>4, <2>1, <2>2
    <3>2. Gap(y, {a, b}) = y - b /\ Gap(y - 1, {a, b}) = y - 1 - b
      BY <1>2, <1>3, <2>2
    <3> QED BY <1>2, <3>1, <3>2
  <2>3. CASE ~(min # None /\ y > b)
    <3>1. check.fix = "down" /\ y < a
      BY <1>1, <1>2, <1>4, <1>5, <2>1, <2>3
    <3>2. Gap(y, {a, b}) = a - y /\ Gap(y + 1, {a, b}) = a - y - 1
      BY <1>2, <1>3, <3>1
    <3> QED BY <1>2, <3>1, <3>2
  <2> QED BY <2>2, <2>3
<1> QED BY <1>2, <1>6, <1>7 DEF MarginAgrees, H, a, b, check

(* What the check of an offset says of a face at v, the centre line at     *)
(* mid.                                                                    *)
OffsetVerdict(v, mid, a, b) ==
  IF a <= v /\ v <= b THEN Passed ELSE Warned(IF v < mid THEN "right" ELSE "left")

(* The face's offset is drawn and checked alike, and its advice helps if   *)
(* the band is not beside the centre line.                                 *)
LEMMA OffsetsAgree ==
  ASSUME NEW v \in Int, NEW mid \in Int, NEW a \in Int, NEW b \in Int, a <= b,
         NEW check, check = OffsetVerdict(v, mid, a, b)
  PROVE  /\ check.status = "pass" <=> Gap(v, {a, b}) = 0
         /\ check.status = "warn" /\ mid \in a .. b =>
              \/ check.fix = "right" /\ Gap(v + 1, {a, b}) < Gap(v, {a, b})
              \/ check.fix = "left" /\ Gap(v - 1, {a, b}) < Gap(v, {a, b})
<1>1. \A x \in Int : Gap(x, {a, b}) = IF x < a THEN a - x ELSE IF x > b THEN x - b ELSE 0
  BY GapIs
<1>2. /\ check.status = "pass" <=> a <= v /\ v <= b
      /\ check.status = "warn" => ~(a <= v /\ v <= b)
      /\ check.status = "warn" => check.fix = IF v < mid THEN "right" ELSE "left"
  BY DEF OffsetVerdict, Passed, Warned
<1>3. ASSUME check.status = "warn", mid \in a .. b
      PROVE  \/ check.fix = "right" /\ Gap(v + 1, {a, b}) < Gap(v, {a, b})
             \/ check.fix = "left" /\ Gap(v - 1, {a, b}) < Gap(v, {a, b})
  <2>1. CASE v < mid
    <3>1. check.fix = "right" /\ v < a
      BY <1>2, <1>3, <2>1
    <3>2. Gap(v, {a, b}) = a - v /\ Gap(v + 1, {a, b}) = a - v - 1
      BY <1>1, <3>1
    <3> QED BY <3>1, <3>2
  <2>2. CASE ~(v < mid)
    <3>1. check.fix = "left" /\ v > b
      BY <1>2, <1>3, <2>2
    <3>2. Gap(v, {a, b}) = v - b /\ Gap(v - 1, {a, b}) = v - 1 - b
      BY <1>1, <3>1
    <3> QED BY <3>1, <3>2
  <2> QED BY <2>1, <2>2
<1>4. Gap(v, {a, b}) = 0 <=> a <= v /\ v <= b
  BY <1>1
<1> QED BY <1>2, <1>3, <1>4

(* A face seen through the render matrix, and what an advice does to it.   *)
LEMMA ProjectionIs ==
  ASSUME NEW a \in Anchors, NEW v \in View, a # None
  PROVE  /\ ToOutput(a, v) \in Anchors
         /\ ToOutput(a, Moved(v, "right")).centre = ToOutput(a, v).centre + 1
         /\ ToOutput(a, Moved(v, "left")).centre = ToOutput(a, v).centre - 1
         /\ ToOutput(a, Moved(v, "down")).chin = ToOutput(a, v).chin + 1
         /\ ToOutput(a, Moved(v, "down")).eyes = ToOutput(a, v).eyes + 1
         /\ ToOutput(a, Moved(v, "up")).chin = ToOutput(a, v).chin - 1
         /\ ToOutput(a, Moved(v, "up")).eyes = ToOutput(a, v).eyes - 1
<1> DEFINE chin == a.chin * v.zoom
           eyes == a.eyes * v.zoom
           hairline == a.hairline * v.zoom
           centre == a.centre * v.zoom
<1>1. chin \in Int /\ eyes \in Int /\ hairline \in Int /\ centre \in Int /\ v.x \in Int /\ v.y \in Int
  BY DEF Anchors, View
<1>2. ASSUME NEW w, w.zoom = v.zoom
      PROVE  ToOutput(a, w) = [chin |-> chin + w.y, eyes |-> eyes + w.y,
                               hairline |-> hairline + w.y, centre |-> centre + w.x]
  BY <1>2 DEF ToOutput
<1>3. /\ Moved(v, "right").zoom = v.zoom /\ Moved(v, "right").x = v.x + 1
      /\ Moved(v, "left").zoom = v.zoom /\ Moved(v, "left").x = v.x - 1
      /\ Moved(v, "down").zoom = v.zoom /\ Moved(v, "down").y = v.y + 1
      /\ Moved(v, "up").zoom = v.zoom /\ Moved(v, "up").y = v.y - 1
  BY DEF Moved, View
<1> HIDE DEF chin, eyes, hairline, centre
<1>4. ToOutput(a, v) = [chin |-> chin + v.y, eyes |-> eyes + v.y, hairline |-> hairline + v.y,
                        centre |-> centre + v.x]
  BY <1>2
<1>5. ToOutput(a, v) \in Anchors
  BY <1>1, <1>4 DEF Anchors
<1>6. /\ ToOutput(a, Moved(v, "right")).centre = centre + (v.x + 1)
      /\ ToOutput(a, Moved(v, "left")).centre = centre + (v.x - 1)
  BY <1>2, <1>3
<1>7. /\ ToOutput(a, Moved(v, "down")).chin = chin + (v.y + 1)
      /\ ToOutput(a, Moved(v, "down")).eyes = eyes + (v.y + 1)
      /\ ToOutput(a, Moved(v, "up")).chin = chin + (v.y - 1)
      /\ ToOutput(a, Moved(v, "up")).eyes = eyes + (v.y - 1)
  BY <1>2, <1>3
<1> QED BY <1>1, <1>4, <1>5, <1>6, <1>7

(* Cropping tighter makes a head longer.                                   *)
LEMMA TighterIsLonger ==
  ASSUME NEW a \in Anchors, NEW v \in View, a # None,
         ToOutput(a, v).chin - ToOutput(a, v).hairline > 0
  PROVE  LET g == ToOutput(a, Moved(v, "tighter"))
         IN  g.chin - g.hairline > ToOutput(a, v).chin - ToOutput(a, v).hairline
<1> DEFINE c == a.chin
           h == a.hairline
           z == v.zoom
           g == ToOutput(a, Moved(v, "tighter"))
<1>1. c \in Int /\ h \in Int /\ z \in Nat /\ v.y \in Int
  BY DEF Anchors, View
<1>2. ToOutput(a, v).chin = c * z + v.y /\ ToOutput(a, v).hairline = h * z + v.y
  BY DEF ToOutput
<1>3. Moved(v, "tighter").zoom = z + 1 /\ Moved(v, "tighter").y = v.y
  BY DEF Moved, View
<1>4. g.chin = c * (z + 1) + v.y /\ g.hairline = h * (z + 1) + v.y
  BY <1>3 DEF ToOutput
<1>5. c * (z + 1) = c * z + c /\ h * (z + 1) = h * z + h /\ c * z \in Int /\ h * z \in Int
  <2>1. \A i, j \in Int : i * (j + 1) = i * j + i /\ i * j \in Int
    OBVIOUS
  <2> HIDE DEF c, h, z
  <2> QED BY <1>1, <2>1
<1>6. c * z > h * z
  BY <1>1, <1>2, <1>5
<1>7. c > h
  <2>1. SUFFICES ASSUME c <= h PROVE c * z <= h * z
    BY <1>1, <1>5, <1>6
  <2> QED BY <1>1, <2>1
<1> HIDE DEF c, h, z, g
<1> QED BY <1>1, <1>2, <1>4, <1>5, <1>7 DEF g

(* The lines that overlay.ts draws and the verdicts of geometry-checks.ts  *)
(* are about the same band, for every rule with its bounds in order, every *)
(* output size and every face: an anchor on the canvas passes exactly      *)
(* between its two lines, and a head is warned of only when it is longer   *)
(* than both rulers.  The advice brings the anchor nearer to its band,     *)
(* unless it is the face's offset's and lies beside the photo's centre     *)
(* line; a head that is too long it makes longer still.                    *)
THEOREM ChecksAgree == Spec => []ChecksAgreeWithGuides
<1>1. Inv => ChecksAgreeWithGuides
  <2> SUFFICES ASSUME Inv, checks # None, face # None,
                      NEW r \in DOMAIN checks.rules, Guide(r, Physical, Out) # None, InOrder(r)
               PROVE  LET lines == DrawnLines(Guide(r, Physical, Out), Out)
                          edges == {IF r.metric = "face_center_offset_x" THEN l.from.x ELSE l.from.y : l \in lines}
                          check == checks.rules[r]
                          f == ToOutput(face, view)
                          v == Anchor(r, f)
                      IN  IF r.metric = "head_height"
                          THEN check.status = "warn" =>
                                 LET g == ToOutput(face, Moved(view, check.fix)) IN
                                 /\ \A l \in lines : f.chin - f.hairline > l.to.y - l.from.y
                                 /\ g.chin - g.hairline > f.chin - f.hairline
                          ELSE /\ v \in 0 .. Edge(r) => (check.status = "pass" <=> Gap(v, edges) = 0)
                               /\ check.status = "warn" /\ ~OffCentre(r) =>
                                    Gap(Anchor(r, ToOutput(face, Moved(view, check.fix))), edges) < Gap(v, edges)
    BY DEF ChecksAgreeWithGuides
  <2> DEFINE min == MinPx(r, Physical, Out)
             max == MaxPx(r, Physical, Out)
             lines == DrawnLines(Guide(r, Physical, Out), Out)
             edges == {IF r.metric = "face_center_offset_x" THEN l.from.x ELSE l.from.y : l \in lines}
             check == checks.rules[r]
             f == ToOutput(face, view)
  <2>1. Out \in Rect /\ template \in Template /\ Physical \in BOOLEAN /\ None \notin Int
    BY OutIs, FinalAssumption DEF Inv, GivenInv, Physical
  <2>2. artifact = Made /\ checks = BuildChecks(artifact)
    BY DEF Inv, ShownInv
  <2>3. checks.rules = GeometryChecks(Out)
    BY <2>2 DEF BuildChecks, Made
  <2>4. r \in template.rules /\ r \in Rule /\ r.metric \in Handled
    BY <2>1, <2>3 DEF GeometryChecks, Template
  <2>5. face \in Anchors /\ view \in View
    BY FinalAssumption DEF Inv, GivenInv, face
  <2>6. f \in Anchors /\ f # None
    BY <2>5, ProjectionIs, FinalAssumption
  <2>7. min \in Int \cup {None} /\ max \in Int \cup {None}
    BY <2>1, <2>4, BoundsAre
  <2>8. (min # None \/ max # None) /\ ~Unbounded(r, Physical, Out)
    BY DEF Guide, Unbounded
  <2>9. check = GeometryCheck(r, Physical, Out, f)
    BY <2>3, <2>4 DEF GeometryChecks
  <2>10. lines = DrawnLines(SpanFor(r.metric, min, max, Out), Out)
    BY <2>8 DEF Guide
  <2>11. CASE r.metric = "head_height"
    <3>1. check = HeadHeightCheck(f, max)
      BY <2>6, <2>8, <2>9, <2>11 DEF GeometryCheck
    <3>2. Or(min, 0) \in Int /\ Or(max, Out.height) \in Int /\ Or(min, 0) <= Or(max, Out.height)
      BY <2>1, <2>7, <2>11 DEF Or, Rect, InOrder
    <3>3. lines = DrawnLines(Span("size-y", Or(min, 0), Or(max, Out.height)), Out)
      BY <2>10, <2>11 DEF SpanFor
    <3>4. ASSUME check.status = "warn", NEW l \in lines PROVE f.chin - f.hairline > l.to.y - l.from.y
      <4>1. max # None /\ f.chin - f.hairline > max
        BY <3>1, <3>4 DEF HeadHeightCheck, Unmeasured, Warned
      <4>2. l.to.y - l.from.y \in {Or(min, 0), Or(max, Out.height)}
        BY <2>1, <3>2, <3>3, <3>4, RulersAre
      <4>3. Or(max, Out.height) = max /\ max \in Int /\ f.chin - f.hairline \in Int
        BY <2>6, <2>7, <4>1 DEF Or, Anchors
      <4> QED BY <3>2, <4>1, <4>2, <4>3
    <3>5. ASSUME check.status = "warn"
          PROVE  LET g == ToOutput(face, Moved(view, check.fix)) IN g.chin - g.hairline > f.chin - f.hairline
      <4>1. check.fix = "tighter" /\ f.chin - f.hairline > 0
        BY <3>1, <3>5 DEF HeadHeightCheck, Unmeasured, Warned
      <4>2. face # None
        OBVIOUS
      <4> QED BY <2>5, <4>1, <4>2, TighterIsLonger
    <3> QED BY <2>11, <3>4, <3>5
  <2>12. CASE r.metric = "face_center_offset_x"
    <3>1. min \in Int /\ max \in Int /\ min <= max
      BY <2>7, <2>12 DEF InOrder
    <3> DEFINE v == f.centre
               mid == Out.width \div 2
               a == mid + min
               b == mid + max
    <3>2. mid \in Int /\ a \in Int /\ b \in Int /\ a <= b /\ v \in Int
          /\ (0 \in min .. max => mid \in a .. b)
      <4>1. mid \in Int
        BY <2>1 DEF Rect
      <4> HIDE DEF mid, min, max, f
      <4> QED BY <2>6, <3>1, <4>1 DEF Anchors
    <3>3. check = OffsetVerdict(v, mid, a, b)
      <4>1. check = IF Within(v - mid, min, max) THEN Passed
                    ELSE Warned(IF v - mid < 0 THEN "right" ELSE "left")
        BY <2>6, <2>8, <2>9, <2>12 DEF GeometryCheck, FaceCenterOffsetCheck
      <4>2. Within(v - mid, min, max) <=> a <= v /\ v <= b
        BY <2>1, <3>1, <3>2 DEF Within
      <4>3. v - mid < 0 <=> v < mid
        BY <3>2
      <4> HIDE DEF mid, min, max, v, a, b, check
      <4> QED BY <4>1, <4>2, <4>3 DEF OffsetVerdict
    <3>9. /\ check.status = "pass" <=> Gap(v, {a, b}) = 0
          /\ check.status = "warn" /\ mid \in a .. b =>
               \/ check.fix = "right" /\ Gap(v + 1, {a, b}) < Gap(v, {a, b})
               \/ check.fix = "left" /\ Gap(v - 1, {a, b}) < Gap(v, {a, b})
      <4> HIDE DEF mid, v, a, b, check
      <4> QED BY <3>2, <3>3, OffsetsAgree
    <3>4. lines = DrawnLines(Span("vertical", a, b), Out)
      <4>1. Or(min, 0) = min /\ Or(max, 0) = max
        BY <2>1, <3>1 DEF Or
      <4> QED BY <2>10, <2>12, <4>1 DEF SpanFor
    <3>5. edges = {a, b}
      <4>1. edges = {IF "vertical" = "vertical" THEN l.from.x ELSE l.from.y : l \in lines}
        BY <2>12
      <4> HIDE DEF a, b, lines, edges
      <4> QED BY <2>1, <3>2, <3>4, <4>1, EdgesAre
    <3>6. Anchor(r, f) = v
      BY <2>12 DEF Anchor
    <3>7. ~OffCentre(r) => 0 \in min .. max
      BY <2>12 DEF OffCentre
    <3>8. ASSUME NEW fix \in {"left", "right"}
          PROVE  Anchor(r, ToOutput(face, Moved(view, fix))) = IF fix = "right" THEN v + 1 ELSE v - 1
      <4>1. ToOutput(face, Moved(view, fix)).centre = IF fix = "right" THEN f.centre + 1 ELSE f.centre - 1
        BY <2>5, <2>6, ProjectionIs DEF Anchors
      <4> QED BY <2>12, <4>1 DEF Anchor
    <3> HIDE DEF mid, min, max, lines, edges, check, f, a, b, v
    <3> QED BY <2>12, <3>2, <3>5, <3>6, <3>7, <3>8, <3>9 DEF edges, lines, check, f
  <2>13. CASE r.metric \in {"chin_bottom_margin", "eye_line_from_bottom"}
    <3> DEFINE y == Anchor(r, f)
               a == Out.height - Or(max, Out.height)
               b == Out.height - Or(min, 0)
    <3>1. y \in Int /\ check = MarginFromBottomCheck(y, min, max, Out)
      BY <2>6, <2>8, <2>9, <2>13 DEF GeometryCheck, Anchor, Anchors
    <3>2. /\ a \in Int /\ b \in Int /\ a <= b
          /\ y \in 0 .. Out.height => (check.status = "pass" <=> Gap(y, {a, b}) = 0)
          /\ check.status = "warn" =>
               \/ check.fix = "up" /\ Gap(y - 1, {a, b}) < Gap(y, {a, b})
               \/ check.fix = "down" /\ Gap(y + 1, {a, b}) < Gap(y, {a, b})
      <4>1. Or(min, 0) <= Or(max, Out.height)
        BY <2>13 DEF InOrder
      <4>2. MarginAgrees(y, min, max, Out)
        <5>1. /\ Out \in Rect /\ y \in Int /\ min \in Int \cup {None} /\ max \in Int \cup {None}
              /\ min # None \/ max # None
          BY <2>1, <2>7, <2>8, <3>1
        <5> HIDE DEF min, max, y
        <5> QED BY <4>1, <5>1, MarginsAgree
      <4>3. check = MarginFromBottomCheck(y, min, max, Out)
        BY <3>1
      <4> HIDE DEF min, max, check, y
      <4> QED BY <4>2, <4>3 DEF MarginAgrees
    <3>3. lines = DrawnLines(Span("horizontal", a, b), Out)
      BY <2>10, <2>13 DEF SpanFor
    <3>4. edges = {a, b}
      <4>1. edges = {IF "horizontal" = "vertical" THEN l.from.x ELSE l.from.y : l \in lines}
        BY <2>13
      <4> HIDE DEF a, b, lines, edges
      <4> QED BY <2>1, <3>2, <3>3, <4>1, EdgesAre
    <3>5. ASSUME NEW fix \in {"up", "down"}
          PROVE  Anchor(r, ToOutput(face, Moved(view, fix))) = IF fix = "up" THEN y - 1 ELSE y + 1
      <4>1. /\ ToOutput(face, Moved(view, fix)).chin = IF fix = "up" THEN f.chin - 1 ELSE f.chin + 1
            /\ ToOutput(face, Moved(view, fix)).eyes = IF fix = "up" THEN f.eyes - 1 ELSE f.eyes + 1
        BY <2>5, <2>6, ProjectionIs DEF Anchors
      <4> QED BY <2>13, <4>1 DEF Anchor
    <3>6. Edge(r) = Out.height
      BY <2>13 DEF Edge
    <3> HIDE DEF min, max, lines, edges, check, f, a, b
    <3> QED BY <2>13, <3>2, <3>4, <3>5, <3>6 DEF edges, lines, check, f
  <2> QED BY <2>4, <2>11, <2>12, <2>13 DEF Handled
<1> QED BY <1>1, Always, PTL
=============================================================================

-------------------------------- MODULE Guide --------------------------------
(***************************************************************************)
(* Live pose guidance (frontend/src/pose/pose-guide.tsx) on the shared     *)
(* face landmarkers (pose/landmarker.ts): the guide comes and goes with    *)
(* the camera, creating a landmarker takes a while and may fail, and a     *)
(* landmarker that is released before it is there is closed when it is.    *)
(* Static rechecks of photos use a landmarker of their own; each result    *)
(* stays with its photo.                                                   *)
(*                                                                         *)
(* One guide is mounted at a time (create/capture-step.tsx:250).  Camera   *)
(* frames come at gaps of Gaps milliseconds.                               *)
(***************************************************************************)
EXTENDS PoseTracking

CONSTANTS
  Frames,       (* what the model may find: sequences of faces             *)
  Photos,       (* photos that are rechecked ...                           *)
  Picture,      (* ... and what is in them                                 *)
  Gaps,
  MinInterval,  (* MIN_INTERVAL_MS                                         *)
  Landmarkers   (* bound on the landmarkers ever created                   *)

(* A face in a frame; its centre lies on the image, or near it.            *)
Turn == [Axes -> Int]
Place == [width : Nat, x : -70 .. 70, y : -70 .. 70]
FrameFace == [turn : Turn \cup {None}, place : Place \cup {None}]

ASSUME GuideAssumption ==
  /\ Gaps \subseteq Nat \ {0} /\ MinInterval \in Nat
  /\ Frames \subseteq Seq(FrameFace)
  /\ None \notin Landmarkers \cup Nat

VARIABLES
  model,        (* landmarker -> "none", "loading", "open", "closed"       *)
  videoSlot, imageSlot,        (* videoInstance, imageInstance             *)
  doomed,       (* released while loading: closeWhenSettled                *)
  mounted, awaits, client, available,
  looping,      (* the frame callback is still rescheduled                 *)
  sinceInfer,   (* age of lastInferAt; None: no frame was inferred         *)
  tracker, shown,
  rechecks,     (* rechecks that wait for the image landmarker             *)
  rechecked,    (* the last that was done, of which photo and whether with *)
                (* a landmarker: its result is their StaticCheck           *)
  strayed       (* history: time since a usable frame had no face, or the  *)
                (* primary one out of reach even for one that was ready    *)

slots == <<model, videoSlot, imageSlot, doomed>>
guide == <<mounted, awaits, client, available, looping>>
pose == <<sinceInfer, tracker, shown, strayed>>
checking == <<rechecks, rechecked>>
vars == <<slots, guide, pose, checking>>

Init ==
  /\ model = [l \in Landmarkers |-> "none"]
  /\ videoSlot = None /\ imageSlot = None /\ doomed = {}
  /\ mounted = FALSE /\ awaits = None /\ client = None /\ available = None /\ looping = FALSE
  /\ sinceInfer = None /\ tracker = Fresh /\ shown = None /\ strayed = 0
  /\ rechecks = {} /\ rechecked = None

-----------------------------------------------------------------------------
(* landmarker.ts.                                                          *)

(* The slot's landmarker, or a new one that starts to load.                *)
Acquired(slot, l) ==
  IF slot # None THEN l = slot /\ UNCHANGED model
  ELSE model[l] = "none" /\ model' = [model EXCEPT ![l] = "loading"]

(* Those who wait for it run first, then the close of a released one.      *)
Loaded(l) ==
  /\ model[l] = "loading"
  /\ model' = [model EXCEPT ![l] = IF l \in doomed THEN "closed" ELSE "open"]
  /\ doomed' = doomed \ {l}
  /\ IF awaits = l THEN client' = l /\ available' = TRUE /\ awaits' = None
     ELSE UNCHANGED <<client, available, awaits>>
  /\ \/ l # imageSlot /\ UNCHANGED checking
     \/ /\ l = imageSlot /\ rechecks' = {}
        /\ IF rechecks = {} THEN UNCHANGED rechecked
           ELSE \E photo \in rechecks : rechecked' = [photo |-> photo, available |-> TRUE]
  /\ UNCHANGED <<videoSlot, imageSlot, mounted, looping, pose>>

(* Mutant: a failure empties the slot, whoever is in it.                   *)
LoadFailsForAll(l) ==
  /\ model[l] = "loading"
  /\ model' = [model EXCEPT ![l] = "closed"] /\ doomed' = doomed \ {l}
  /\ videoSlot' = None /\ imageSlot' = imageSlot
  /\ IF awaits = l THEN available' = FALSE /\ awaits' = None
     ELSE UNCHANGED <<available, awaits>>
  /\ rechecks' = {} /\ UNCHANGED <<mounted, client, looping, pose, rechecked>>

(* Only its own slot is cleared by a creation that fails.                  *)
LoadFails(l) ==
  /\ model[l] = "loading"
  /\ model' = [model EXCEPT ![l] = "closed"]
  /\ doomed' = doomed \ {l}
  /\ videoSlot' = IF videoSlot = l THEN None ELSE videoSlot
  /\ imageSlot' = IF imageSlot = l THEN None ELSE imageSlot
  /\ IF awaits = l THEN available' = FALSE /\ awaits' = None
     ELSE UNCHANGED <<available, awaits>>
  /\ \/ l # imageSlot /\ UNCHANGED checking
     \/ /\ l = imageSlot /\ rechecks' = {}
        /\ IF rechecks = {} THEN UNCHANGED rechecked
           ELSE \E photo \in rechecks : rechecked' = [photo |-> photo, available |-> FALSE]
  /\ UNCHANGED <<mounted, client, looping, pose>>

(* releaseVideoLandmarker: closed at once, or when it has settled.         *)
ReleaseVideo ==
  /\ videoSlot' = None
  /\ CASE videoSlot = None -> UNCHANGED <<model, doomed>>
       [] videoSlot # None /\ model[videoSlot] = "loading" ->
            doomed' = doomed \union {videoSlot} /\ UNCHANGED model
       [] OTHER -> model' = [model EXCEPT ![videoSlot] = "closed"] /\ UNCHANGED doomed

-----------------------------------------------------------------------------
(* pose-guide.tsx.                                                         *)

(* What the guide tells the user, who sees nothing before the first frame. *)
Says ==
  CASE available = None -> "loading"
    [] available = FALSE -> "unavailable"
    [] available = TRUE /\ shown = None -> "nothing"
    [] OTHER -> IF shown.shootable THEN "ready to shoot" ELSE shown.status

(* The last guide has released the slot: a new one finds it empty.         *)
Mount(l) ==
  /\ ~mounted /\ mounted' = TRUE /\ looping' = TRUE
  /\ Acquired(videoSlot, l) /\ videoSlot' = l
  /\ awaits' = l /\ client' = None /\ available' = None
  /\ tracker' = Fresh /\ shown' = None /\ sinceInfer' = None /\ strayed' = 0
  /\ UNCHANGED <<imageSlot, doomed, checking>>

(* The loop is cancelled and the landmarker of the slot released.          *)
Unmount ==
  /\ mounted /\ mounted' = FALSE /\ looping' = FALSE
  /\ awaits' = None /\ client' = None /\ available' = None
  /\ tracker' = Fresh /\ shown' = None /\ sinceInfer' = None /\ strayed' = 0
  /\ ReleaseVideo
  /\ UNCHANGED <<imageSlot, checking>>

(* Time passes until the next frame callback; a frame within MinInterval   *)
(* of the last inference is skipped.                                       *)
Passes(gap) ==
  /\ looping /\ client # None
  /\ strayed' = Aged(strayed, gap)

Due(gap) == IF sinceInfer = None THEN TRUE ELSE sinceInfer + gap >= MinInterval

FrameSkipped(gap) ==
  /\ Passes(gap) /\ ~Due(gap)
  /\ sinceInfer' = sinceInfer + gap
  /\ tracker' = [tracker EXCEPT !.stableFor = Aged(@, gap)]
  /\ UNCHANGED <<slots, guide, shown, checking>>

Usable(faces) == faces = <<>> \/ Primary(faces, tracker.last).turn # None

InReach(faces) ==
  /\ faces # <<>>
  /\ LET face == Primary(faces, tracker.last)
     IN  face.place # None /\ InPosition(face.place, Exit)

FrameInferred(gap, faces) ==
  /\ looping /\ client # None /\ Due(gap) /\ sinceInfer' = 0
  /\ tracker' = Update([tracker EXCEPT !.stableFor = Aged(@, gap)], faces)
  /\ shown' = PoseState(tracker')
  /\ strayed' = IF Usable(faces) /\ ~InReach(faces) THEN 0 ELSE Aged(strayed, gap)
  /\ UNCHANGED <<slots, guide, checking>>

(* The model throws: the callback ends before it asks for another frame.   *)
InferenceFails(gap) ==
  /\ Passes(gap) /\ Due(gap) /\ sinceInfer' = 0 /\ looping' = FALSE
  /\ UNCHANGED <<slots, mounted, awaits, client, available, tracker, shown, checking>>

-----------------------------------------------------------------------------
(* static-check.ts, for a photo taken or uploaded.                         *)

Recheck(photo, l) ==
  /\ Acquired(imageSlot, l) /\ imageSlot' = l
  /\ \/ model[l] # "open" /\ rechecks' = rechecks \union {photo} /\ UNCHANGED rechecked
     \/ model[l] = "open" /\ rechecked' = [photo |-> photo, available |-> TRUE] /\ UNCHANGED rechecks
  /\ UNCHANGED <<videoSlot, doomed, guide, pose>>

Next ==
  \/ \E l \in Landmarkers : Loaded(l) \/ LoadFails(l) \/ Mount(l)
  \/ \E l \in Landmarkers, photo \in Photos : Recheck(photo, l)
  \/ \E gap \in Gaps : FrameSkipped(gap) \/ InferenceFails(gap)
  \/ \E gap \in Gaps, faces \in Frames : FrameInferred(gap, faces)
  \/ Unmount

(* A creation settles, one way or the other.                               *)
Spec == Init /\ [][Next]_vars

-----------------------------------------------------------------------------
(* No landmarker is lost: one that is open (with its wasm heap and GL      *)
(* context) is in one of the two slots, and once no guide is mounted it is *)
(* the recheck's; a slow creation that fails late, or is released before   *)
(* it is there, must not leave one behind (landmarker.ts:115-122, 178-183).*)
LandmarkersAccounted ==
  \A l \in Landmarkers : model[l] = "open" =>
    l = imageSlot \/ (l = videoSlot /\ mounted)

(* The page says ready to shoot only after a face was held in reach for    *)
(* StableMs: every frame of that time that could be judged had one, and    *)
(* the primary one was within what hysteresis allows (tracking.ts:207-293).*)
ShootableMeansStable == Says = "ready to shoot" => strayed >= StableMs

(* Pixels that the face does not reach into.                               *)
Behind(photo) ==
  LET picture == Picture[photo]
      box == Primary(picture.faces, None).box
      W == Width(picture)  H == Height(picture)
  IN  {p \in Pixels(picture) :
         \/ 100 * p[1] >= box.right * W \/ 100 * (p[1] + 1) <= box.left * W
         \/ 100 * p[2] >= box.bottom * H \/ 100 * (p[2] + 1) <= box.top * H}

(* The photos whose background is judged, those that are even behind the   *)
(* face, and those that differ in the face only.                           *)
Verdicts ==
  {[photo |-> photo, problems |-> AnalyzeQuality(Picture[photo], RoiFound(Picture[photo])).background] :
     photo \in Photos}
Seen == {v.photo : v \in {u \in Verdicts : u.problems # None}}

EvenBehind ==
  {photo \in Seen :
     Cardinality({Luma(Picture[photo], p[1], p[2]) : p \in Behind(photo)}) = 1}

AlikeBehind ==
  {pair \in Seen \X Seen :
     LET one == Picture[pair[1]]  other == Picture[pair[2]] IN
     /\ one.faces = other.faces /\ Pixels(one) = Pixels(other)
     /\ \A p \in Behind(pair[1]) : Luma(one, p[1], p[2]) = Luma(other, p[1], p[2])}

(* What a recheck says of the background is said of the background: two    *)
(* photos that differ in the face only, skin, hair or clothes of the       *)
(* lightest or the darkest, get the same verdict, and one that is even     *)
(* behind the face is found to be; rounding the face's region to pixels    *)
(* leaves none of them to the background (quality.ts:177-181).             *)
BackgroundIsOutsideFace ==
  rechecked # None /\ rechecked.available =>
    \A v, w \in Verdicts :
      v.photo = rechecked.photo =>
        /\ <<v.photo, w.photo>> \in AlikeBehind => v.problems = w.problems
        /\ v.photo \in EvenBehind => v.problems = {}

(* The confirm page warns of all that the final page will, "rather than    *)
(* first appearing at the final page" (review-step.tsx:5-7).               *)
ConfirmPageWarnsOfAll ==
  rechecked # None =>
    LET result == StaticCheck(Picture[rechecked.photo], rechecked.available)
    IN  result.quality.background \notin {None, {}} => Warnings(result) # {}

(* Guidance that has stopped is said to be unavailable (pose-guide.tsx:3   *)
(* "on model failure it only says guidance is unavailable").               *)
FailureIsSaid == mounted /\ ~looping => Says = "unavailable"
=============================================================================

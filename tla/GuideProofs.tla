----------------------------- MODULE GuideProofs -----------------------------
(***************************************************************************)
(* Proofs about the camera step: its pose guidance (Guide), for every      *)
(* number of landmarkers, all thresholds and gaps between frames, and any  *)
(* faces in them; and the camera itself (Capture), for any number of       *)
(* startCamera and shoot calls. The two share no state but the step they   *)
(* belong to.                                                              *)
(***************************************************************************)
EXTENDS Guide, Capture, FiniteSetTheorems, WellFoundedInduction, TLAPS

(* A set of natural numbers has a least one.                               *)
LEMMA MinIs ==
  ASSUME NEW T, T \subseteq Nat, T # {}
  PROVE  Min(T) \in T /\ \A y \in T : Min(T) <= y
<1>1. PICK x \in T : \A y \in T : ~(<<y, x>> \in OpToRel(<, Nat))
  BY NatLessThanWellFounded, WFMin
<1>2. ASSUME NEW y \in T PROVE x <= y
  <2>1. x \in Nat /\ y \in Nat
    OBVIOUS
  <2>2. ~(y < x)
    BY <1>1, <2>1 DEF OpToRel
  <2> QED BY <2>1, <2>2
<1> QED BY <1>2 DEF Min

(* A finite set of integers has a greatest one: the one that the fewest    *)
(* exceed.                                                                 *)
LEMMA MaxIs ==
  ASSUME NEW S, S \subseteq Int, IsFiniteSet(S), S # {}
  PROVE  Max(S) \in S /\ \A y \in S : y <= Max(S)
<1> DEFINE Above(x) == {y \in S : y > x}
           T == {Cardinality(Above(x)) : x \in S}
<1>1. \A x \in S : IsFiniteSet(Above(x)) /\ Cardinality(Above(x)) \in Nat
  BY FS_Subset, FS_CardinalityType
<1>2. Min(T) \in T /\ \A n \in T : Min(T) <= n
  <2>1. T \subseteq Nat /\ T # {}
    BY <1>1
  <2> HIDE DEF T
  <2> QED BY <2>1, MinIs
<1>3. PICK x \in S : \A y \in S : Cardinality(Above(x)) <= Cardinality(Above(y))
  BY <1>2
<1>4. ASSUME NEW y \in S PROVE y <= x
  <2> SUFFICES ASSUME y > x PROVE FALSE
    OBVIOUS
  <2>1. Above(y) \subseteq Above(x) /\ Above(y) # Above(x)
    <3>1. y \in Above(x) /\ y \notin Above(y) /\ \A z \in S : z > y => z > x
      OBVIOUS
    <3> QED BY <3>1
  <2>2. Cardinality(Above(y)) < Cardinality(Above(x))
    BY <1>1, <2>1, FS_Subset
  <2> QED BY <1>1, <1>3, <2>2
<1> QED BY <1>4 DEF Max

(* The lesser of two numbers.                                              *)
LEMMA MinOfTwo ==
  ASSUME NEW a \in Int, NEW b \in Int
  PROVE  Min({a, b}) = IF a <= b THEN a ELSE b
BY DEF Min

-----------------------------------------------------------------------------
(* The landmarkers.                                                        *)

(* A slot holds a landmarker that is loaded, or one that is loading and    *)
(* wanted; no landmarker is in both, the guide's is there for as long as   *)
(* the guide, and whoever is open is in one of them.                       *)
SlotInv ==
  /\ model \in [Landmarkers -> {"none", "loading", "open", "closed"}]
  /\ doomed \subseteq Landmarkers /\ available \in BOOLEAN \cup {None}
  /\ videoSlot # None => videoSlot \in Landmarkers /\ mounted
  /\ imageSlot # None => imageSlot \in Landmarkers /\ imageSlot # videoSlot
  /\ \A l \in Landmarkers :
       /\ l \in {videoSlot, imageSlot} => model[l] \in {"loading", "open"} /\ l \notin doomed
       /\ model[l] = "open" => l \in {videoSlot, imageSlot}
       /\ model[l] = "loading" => l \in {videoSlot, imageSlot} \cup doomed
       /\ l \in doomed => model[l] = "loading"

(* At first there is no landmarker.                                        *)
LEMMA SlotInit == Init => SlotInv
BY GuideAssumption DEF Init, SlotInv

(* Mounting, unmounting, and every answer keep the slots in order.         *)
LEMMA SlotStep == SlotInv /\ [Next]_vars => SlotInv'
<1> SUFFICES ASSUME SlotInv, [Next]_vars PROVE SlotInv'
  OBVIOUS
<1> USE GuideAssumption DEF SlotInv
<1>1. ASSUME NEW l \in Landmarkers, Loaded(l) PROVE SlotInv'
  <2>1. /\ model[l] = "loading" /\ doomed' = doomed \ {l}
        /\ \A x \in Landmarkers : x # l => model'[x] = model[x]
        /\ model'[l] = IF l \in doomed THEN "closed" ELSE "open"
        /\ model' \in [Landmarkers -> {"none", "loading", "open", "closed"}]
        /\ UNCHANGED <<videoSlot, imageSlot, mounted>> /\ available' \in BOOLEAN \cup {None}
    BY <1>1 DEF Loaded
  <2> QED BY <2>1
<1>2. ASSUME NEW l \in Landmarkers, LoadFails(l) PROVE SlotInv'
  <2>1. /\ model[l] = "loading" /\ doomed' = doomed \ {l} /\ mounted' = mounted
        /\ \A x \in Landmarkers : model'[x] = IF x = l THEN "closed" ELSE model[x]
        /\ model' \in [Landmarkers -> {"none", "loading", "open", "closed"}]
        /\ videoSlot' = IF videoSlot = l THEN None ELSE videoSlot
        /\ imageSlot' = IF imageSlot = l THEN None ELSE imageSlot
        /\ available' \in BOOLEAN \cup {None}
    BY <1>2 DEF LoadFails
  <2> QED BY <2>1
<1>3. ASSUME NEW l \in Landmarkers, Mount(l) PROVE SlotInv'
  BY <1>3 DEF Mount, Acquired
<1>4. ASSUME NEW l \in Landmarkers, NEW p \in Photos, Recheck(p, l) PROVE SlotInv'
  BY <1>4 DEF Recheck, Acquired, guide
<1>5. CASE Unmount
  <2>1. /\ mounted' = FALSE /\ videoSlot' = None /\ imageSlot' = imageSlot
        /\ available' = None
    BY <1>5 DEF Unmount, ReleaseVideo
  <2>2. CASE videoSlot = None
    BY <1>5, <2>1, <2>2 DEF Unmount, ReleaseVideo
  <2>3. CASE videoSlot # None /\ model[videoSlot] = "loading"
    BY <1>5, <2>1, <2>3 DEF Unmount, ReleaseVideo
  <2>4. CASE videoSlot # None /\ model[videoSlot] = "open"
    BY <1>5, <2>1, <2>4 DEF Unmount, ReleaseVideo
  <2> QED BY <2>2, <2>3, <2>4
<1>6. ASSUME UNCHANGED <<slots, mounted, available>> PROVE SlotInv'
  BY <1>6 DEF slots
<1>7. ASSUME NEW gap \in Gaps, FrameSkipped(gap) \/ InferenceFails(gap) PROVE SlotInv'
  BY <1>6, <1>7 DEF FrameSkipped, InferenceFails, guide
<1>8. ASSUME NEW gap \in Gaps, NEW faces \in Frames, FrameInferred(gap, faces) PROVE SlotInv'
  BY <1>6, <1>8 DEF FrameInferred, guide
<1>9. CASE UNCHANGED vars
  BY <1>6, <1>9 DEF vars, guide
<1> QED BY <1>1, <1>2, <1>3, <1>4, <1>5, <1>7, <1>8, <1>9 DEF Next

(* No face landmarker is lost: one that is open is the recheck's, or the   *)
(* guide's while there is a guide, in whatever order mounts, unmounts,     *)
(* releases and the answers of slow creations come.                        *)
THEOREM NoLandmarkerIsLost == Spec => []LandmarkersAccounted
<1>1. SlotInv => LandmarkersAccounted
  BY GuideAssumption DEF SlotInv, LandmarkersAccounted
<1> QED BY <1>1, SlotInit, SlotStep, PTL DEF Spec

-----------------------------------------------------------------------------
(* The tracker.                                                            *)

(* What the tracker remembers: the statuses, where a face was last, and    *)
(* the whole of it.                                                        *)
Statuses == {"no-face", "multi-face", "out-of-position", "unstable", "ready"}
Spot == [x : -70 .. 70, y : -70 .. 70]
Tracker ==
  [smoothed : Turn \cup {None}, status : Statuses, computed : Statuses,
   stableFor : Nat \cup {None}, turn : Turn, place : Place, last : Spot \cup {None}]

(* The square of an offset.                                                *)
LEMMA SquareIs ==
  ASSUME NEW a \in Int, -140 <= a, a <= 140
  PROVE  a * a \in Nat /\ a * a <= 19600
<1>1. (140 - a) * (140 + a) >= 0
  <2>1. \A m, n \in Nat : m * n >= 0
    OBVIOUS
  <2>2. 140 - a \in Nat /\ 140 + a \in Nat
    OBVIOUS
  <2> QED BY <2>1, <2>2
<1>2. (140 - a) * (140 + a) = 19600 - a * a
  OBVIOUS
<1>3. a * a \in Int /\ a * a >= 0
  OBVIOUS
<1> QED BY <1>1, <1>2, <1>3

(* Distances on the screen are whole numbers: the largest one whose square *)
(* is not too much.                                                        *)
LEMMA DistanceIs ==
  ASSUME NEW dx \in Int, NEW dy \in Int, -140 <= dx, dx <= 140, -140 <= dy, dy <= 140
  PROVE  Distance(dx, dy) \in 0 .. 200
<1> DEFINE n == dx * dx + dy * dy
           T == {k \in Nat : n < k * k}
           r == Min(T) - 1
<1>1. n \in Nat /\ n <= 39200
  BY SquareIs
<1> HIDE DEF n
<1>2. 201 \in T
  BY <1>1
<1>3. T \subseteq Nat
  OBVIOUS
<1> HIDE DEF T
<1>4. Min(T) \in T /\ \A k \in T : Min(T) <= k
  BY <1>2, <1>3, MinIs
<1>5. Min(T) \in Nat /\ Min(T) <= 201
  BY <1>2, <1>3, <1>4
<1>6. n < Min(T) * Min(T)
  BY <1>4 DEF T
<1>7. Min(T) # 0
  BY <1>1, <1>6
<1>8. r \in 0 .. 200 /\ r + 1 = Min(T) /\ r < Min(T)
  BY <1>5, <1>7
<1>9. r * r <= n
  <2>1. r \notin T /\ r \in Nat
    BY <1>4, <1>5, <1>8
  <2>2. ~(n < r * r)
    BY <2>1 DEF T
  <2> QED BY <1>1, <2>1, <2>2
<1>10. n < (r + 1) * (r + 1)
  BY <1>6, <1>8
<1> HIDE DEF r
<1>11. \E k \in 0 .. 200 : k * k <= n /\ n < (k + 1) * (k + 1)
  BY <1>8, <1>9, <1>10
<1> QED BY <1>11 DEF Distance, n

(* A score is a number.                                                    *)
LEMMA ScoreIs ==
  ASSUME NEW place \in Place, NEW last \in Spot \cup {None}
  PROVE  Score(place, last) \in Int
<1> DEFINE off == Distance(place.x, place.y)
           centring == 100 - Min({100, 2 * off})
           drift == IF last = None THEN 0 ELSE Distance(place.x - last.x, place.y - last.y)
<1>1. off \in 0 .. 200
  <2>1. /\ place.x \in Int /\ -140 <= place.x /\ place.x <= 140
        /\ place.y \in Int /\ -140 <= place.y /\ place.y <= 140
    BY DEF Place
  <2> QED BY <2>1, DistanceIs
<1> HIDE DEF off
<1>2. centring \in Int
  BY <1>1, MinOfTwo
<1>3. drift \in 0 .. 200
  <2> SUFFICES ASSUME last # None PROVE Distance(place.x - last.x, place.y - last.y) \in 0 .. 200
    OBVIOUS
  <2> DEFINE dx == place.x - last.x
             dy == place.y - last.y
  <2>1. place.x \in -70 .. 70 /\ place.y \in -70 .. 70
    BY DEF Place
  <2>2. last.x \in -70 .. 70 /\ last.y \in -70 .. 70
    BY DEF Spot
  <2>3. dx \in Int /\ -140 <= dx /\ dx <= 140 /\ dy \in Int /\ -140 <= dy /\ dy <= 140
    <3>1. \A a, b \in -70 .. 70 : a - b \in Int /\ -140 <= a - b /\ a - b <= 140
      OBVIOUS
    <3> QED BY <2>1, <2>2, <3>1
  <2> QED BY <2>3, DistanceIs
<1>4. place.width \in Nat
  BY DEF Place
<1> HIDE DEF centring, drift
<1>5. 1000 * place.width * (100 + centring) \in Int /\ 100 + 4 * drift \in Nat \ {0}
  BY <1>2, <1>3, <1>4
<1>6. (1000 * place.width * (100 + centring)) \div (100 + 4 * drift) \in Int
  BY <1>5
<1> QED BY <1>6 DEF Score, centring, drift, off

(* The primary face is one of the faces.                                   *)
LEMMA PrimaryIs ==
  ASSUME NEW faces \in Seq(FrameFace), faces # <<>>, NEW last \in Spot \cup {None}
  PROVE  Primary(faces, last) \in FrameFace
<1> DEFINE measured == {i \in DOMAIN faces : faces[i].place # None}
           score(i) == Score(faces[i].place, last)
           scores == {score(i) : i \in measured}
           best == Max(scores)
           first == {i \in measured : score(i) = best}
<1>1. /\ Len(faces) \in Nat \ {0} /\ DOMAIN faces = 1 .. Len(faces)
      /\ \A i \in DOMAIN faces : faces[i] \in FrameFace
  OBVIOUS
<1>2. CASE Len(faces) = 1 \/ measured = {}
  BY <1>1, <1>2 DEF Primary
<1>3. CASE ~(Len(faces) = 1 \/ measured = {})
  <2>1. \A i \in measured : score(i) \in Int
    BY <1>1, ScoreIs DEF FrameFace
  <2>2. IsFiniteSet(measured)
    <3>1. IsFiniteSet(1 .. Len(faces)) /\ measured \subseteq 1 .. Len(faces)
      BY <1>1, FS_Interval
    <3> HIDE DEF measured
    <3> QED BY <3>1, FS_Subset
  <2> HIDE DEF score
  <2>3. IsFiniteSet(scores)
    <3> DEFINE f == [i \in measured |-> score(i)]
    <3>1. f \in Surjection(measured, scores)
      BY DEF Surjection
    <3> QED BY <2>2, <3>1, FS_Surjection
  <2>4. best \in scores
    <3>1. scores \subseteq Int /\ scores # {}
      BY <1>3, <2>1
    <3> HIDE DEF scores
    <3> QED BY <2>3, <3>1, MaxIs
  <2>5. first \subseteq Nat /\ first # {} /\ first \subseteq measured
    <3>1. measured \subseteq Nat
      BY <1>1
    <3>2. PICK i \in measured : best = score(i)
      BY <2>4
    <3> HIDE DEF best, measured
    <3> QED BY <3>1, <3>2
  <2> HIDE DEF first
  <2>6. Min(first) \in measured
    BY <2>5, MinIs
  <2>7. faces[Min(first)] \in FrameFace
    BY <1>1, <2>6
  <2> QED BY <1>3, <2>7 DEF Primary, first, score
<1> QED BY <1>2, <1>3

(* A face that counts as ready is within what hysteresis allows.           *)
LEMMA InPositionWidens ==
  ASSUME NEW place \in Place, NEW factor \in {10, Exit}, InPosition(place, factor)
  PROVE  InPosition(place, Exit)
<1>1. \A a \in Nat : a * 10 <= a * Exit
  BY TrackingAssumption
<1>2. /\ place.width \in Nat /\ place.width * 10 <= place.width * Exit
      /\ 10 * FaceWidthMax <= Exit * FaceWidthMax
      /\ 10 * FaceOffsetMax <= Exit * FaceOffsetMax
  BY <1>1, TrackingAssumption DEF Place
<1>3. Magnitude(place.x) \in Nat /\ Magnitude(place.y) \in Nat
  BY DEF Place, Magnitude
<1>4. CASE factor = Exit
  BY <1>4
<1>5. CASE factor = 10
  BY <1>2, <1>3, <1>5, TrackingAssumption DEF InPosition
<1> QED BY <1>4, <1>5

(* Judging the primary face of a frame keeps the tracker well formed, and  *)
(* keeps its clock only for a face that is in reach of one that was ready. *)
LEMMA JudgedIs ==
  ASSUME NEW t \in Tracker, NEW face \in FrameFace, face.turn # None, NEW alone \in BOOLEAN
  PROVE  /\ Judged(t, face, alone) \in Tracker
         /\ Judged(t, face, alone).stableFor \in {None, 0, t.stableFor}
         /\ Judged(t, face, alone).stableFor # None =>
              face.place # None /\ InPosition(face.place, Exit)
<1> DEFINE turn == Smooth(t.smoothed, face.turn)
           place == IF face.place = None THEN Nowhere ELSE face.place
           factor == IF t.computed = "ready" THEN Exit ELSE 10
           computed == IF ~InPosition(place, factor) THEN "out-of-position"
                       ELSE IF ~WithinAngles(turn, factor) THEN "unstable" ELSE "ready"
           last == IF face.place = None THEN None ELSE [x |-> place.x, y |-> place.y]
           judged == IF alone THEN computed ELSE "multi-face"
<1>1. turn \in Turn
  <2>1. \A a, b \in Int : (a + b) \div 2 \in Int
    OBVIOUS
  <2> QED BY <2>1 DEF Smooth, Turn, FrameFace, Tracker
<1>2. place \in Place /\ last \in Spot \cup {None}
  BY DEF FrameFace, Place, Spot, Nowhere
<1>3. computed \in Statuses /\ judged \in Statuses
  BY DEF Statuses
<1>4. StableFor(t, computed) \in {None, 0, t.stableFor}
  BY DEF StableFor
<1>5. t.stableFor \in Nat \cup {None}
  BY DEF Tracker
<1>6. computed = "ready" => face.place # None /\ InPosition(face.place, Exit)
  <2> SUFFICES ASSUME computed = "ready" PROVE face.place # None /\ InPosition(face.place, Exit)
    OBVIOUS
  <2>1. InPosition(place, factor)
    OBVIOUS
  <2>2. InPosition(place, Exit)
    BY <1>2, <2>1, InPositionWidens
  <2>3. ~InPosition(Nowhere, Exit)
    BY TrackingAssumption DEF InPosition, Nowhere
  <2> QED BY <2>2, <2>3
<1>7. StableFor(t, computed) # None => computed = "ready"
  BY DEF StableFor
<1> HIDE DEF turn, place, computed, last, judged
<1>8. Judged(t, face, alone) =
        [smoothed |-> turn, turn |-> turn, place |-> place, computed |-> computed,
         last |-> last, status |-> judged, stableFor |-> StableFor(t, computed)]
  BY DEF Judged, turn, place, computed, last, judged
<1> QED BY <1>1, <1>2, <1>3, <1>4, <1>5, <1>6, <1>7, <1>8 DEF Tracker

(* A frame: the tracker goes on, or its face is not in reach.              *)
LEMMA UpdateIs ==
  ASSUME NEW t \in Tracker, NEW faces \in Seq(FrameFace)
  PROVE  /\ Update(t, faces) \in Tracker
         /\ Update(t, faces).stableFor \in {None, 0, t.stableFor}
         /\ faces = <<>> => Update(t, faces).stableFor = None
         /\ faces # <<>> /\ Primary(faces, t.last).turn # None
              /\ Update(t, faces).stableFor # None =>
              /\ Primary(faces, t.last).place # None
              /\ InPosition(Primary(faces, t.last).place, Exit)
<1>1. CASE faces = <<>>
  <2>1. Update(t, faces) \in Tracker /\ Update(t, faces).stableFor = None
    BY <1>1 DEF Update, Tracker, Statuses
  <2> QED BY <1>1, <2>1
<1>2. CASE faces # <<>>
  <2> DEFINE face == Primary(faces, t.last)
             alone == Len(faces) = 1
  <2>1. face \in FrameFace /\ alone \in BOOLEAN
    <3>1. t.last \in Spot \cup {None}
      BY DEF Tracker
    <3> QED BY <1>2, <3>1, PrimaryIs
  <2>2. Update(t, faces) = IF face.turn = None THEN t ELSE Judged(t, face, alone)
    BY <1>2 DEF Update
  <2> HIDE DEF face, alone
  <2>3. CASE face.turn = None
    BY <1>2, <2>2, <2>3 DEF face
  <2>4. CASE face.turn # None
    BY <1>2, <2>1, <2>2, <2>4, JudgedIs DEF face
  <2> QED BY <2>3, <2>4
<1> QED BY <1>1, <1>2

(* What has waited, waits on, and no longer than StableMs.                 *)
LEMMA AgedIs ==
  ASSUME NEW age \in Nat, NEW gap \in Nat
  PROVE  Aged(age, gap) = IF age + gap <= StableMs THEN age + gap ELSE StableMs
<1>1. age # None
  BY GuideAssumption
<1>2. age + gap \in Int /\ StableMs \in Int
  BY TrackingAssumption
<1>3. Min({StableMs, age + gap}) = IF StableMs <= age + gap THEN StableMs ELSE age + gap
  BY <1>2, MinOfTwo
<1> QED BY <1>1, <1>2, <1>3 DEF Aged

(* A face has been stable for no longer than it was in reach, and the page *)
(* shows what is true of the tracker's last frame.                         *)
PoseInv ==
  /\ tracker \in Tracker /\ strayed \in 0 .. StableMs
  /\ tracker.stableFor # None => tracker.stableFor <= strayed
  /\ shown # None => shown.status \in Statuses /\ (shown.shootable => strayed >= StableMs)

(* Before the first frame nothing is stable.                               *)
LEMMA PoseInit == Init => PoseInv
<1>1. Fresh \in Tracker
  BY DEF Fresh, Tracker, Turn, Place, Nowhere, Statuses
<1>2. Fresh.stableFor = None
  BY DEF Fresh
<1> QED BY <1>1, <1>2, TrackingAssumption DEF Init, PoseInv

(* Time passes.                                                            *)
LEMMA Ageing ==
  ASSUME PoseInv, NEW gap \in Gaps
  PROVE  LET aged == [tracker EXCEPT !.stableFor = Aged(@, gap)] IN
         /\ aged \in Tracker /\ aged.last = tracker.last
         /\ Aged(strayed, gap) \in 0 .. StableMs /\ strayed <= Aged(strayed, gap)
         /\ aged.stableFor # None => aged.stableFor <= Aged(strayed, gap)
<1> DEFINE aged == [tracker EXCEPT !.stableFor = Aged(@, gap)]
<1>1. gap \in Nat /\ strayed \in 0 .. StableMs /\ tracker \in Tracker /\ StableMs \in Nat
  BY GuideAssumption, TrackingAssumption DEF PoseInv
<1>2. /\ Aged(strayed, gap) = IF strayed + gap <= StableMs THEN strayed + gap ELSE StableMs
      /\ Aged(strayed, gap) \in 0 .. StableMs /\ strayed <= Aged(strayed, gap)
  BY <1>1, AgedIs DEF PoseInv
<1>3. CASE tracker.stableFor = None
  <2>1. aged \in Tracker /\ aged.last = tracker.last /\ aged.stableFor = None
    BY <1>1, <1>3 DEF Aged, Tracker
  <2> QED BY <1>1, <1>2, <2>1
<1>4. CASE tracker.stableFor # None
  <2>1. tracker.stableFor \in Nat /\ tracker.stableFor <= strayed
    BY <1>1, <1>4 DEF Tracker, PoseInv
  <2>2. Aged(tracker.stableFor, gap) =
          IF tracker.stableFor + gap <= StableMs THEN tracker.stableFor + gap ELSE StableMs
    BY <1>1, <2>1, AgedIs
  <2>3. Aged(tracker.stableFor, gap) \in Nat /\ Aged(tracker.stableFor, gap) <= Aged(strayed, gap)
    BY <1>1, <1>2, <2>1, <2>2
  <2>4. aged \in Tracker /\ aged.last = tracker.last /\ aged.stableFor = Aged(tracker.stableFor, gap)
    BY <1>1, <2>3 DEF Tracker
  <2> QED BY <1>1, <1>2, <2>3, <2>4
<1> QED BY <1>3, <1>4

(* Every frame, mount and unmount keeps what is known of the tracker.      *)
LEMMA PoseStep == PoseInv /\ [Next]_vars => PoseInv'
<1> SUFFICES ASSUME PoseInv, [Next]_vars PROVE PoseInv'
  OBVIOUS
<1>1. ASSUME UNCHANGED pose PROVE PoseInv'
  BY <1>1 DEF pose, PoseInv
<1>2. ASSUME NEW l \in Landmarkers, Loaded(l) \/ LoadFails(l) PROVE PoseInv'
  BY <1>1, <1>2 DEF Loaded, LoadFails
<1>3. ASSUME NEW l \in Landmarkers, NEW p \in Photos, Recheck(p, l) PROVE PoseInv'
  BY <1>1, <1>3 DEF Recheck
<1>4. ASSUME tracker' = Fresh, shown' = None, strayed' = 0 PROVE PoseInv'
  <2>1. (Init => PoseInv) /\ Fresh \in Tracker /\ Fresh.stableFor = None
    BY PoseInit DEF Fresh, Tracker, Turn, Place, Nowhere, Statuses
  <2> QED BY <1>4, <2>1, TrackingAssumption DEF PoseInv
<1>5. CASE Unmount \/ (\E l \in Landmarkers : Mount(l))
  BY <1>4, <1>5 DEF Unmount, Mount
<1>6. ASSUME NEW gap \in Gaps, FrameSkipped(gap) PROVE PoseInv'
  <2>1. /\ strayed' = Aged(strayed, gap) /\ shown' = shown
        /\ tracker' = [tracker EXCEPT !.stableFor = Aged(@, gap)]
    BY <1>6 DEF FrameSkipped, Passes
  <2>2. strayed' \in 0 .. StableMs /\ strayed <= strayed' /\ strayed \in Nat
    BY <2>1, Ageing DEF PoseInv
  <2> QED BY <2>1, <2>2, Ageing, TrackingAssumption DEF PoseInv
<1>7. ASSUME NEW gap \in Gaps, InferenceFails(gap) PROVE PoseInv'
  <2>1. strayed' = Aged(strayed, gap) /\ UNCHANGED <<tracker, shown>>
    BY <1>7 DEF InferenceFails, Passes
  <2>2. strayed' \in 0 .. StableMs /\ strayed <= strayed'
    BY <2>1, Ageing
  <2>3. tracker \in Tracker /\ tracker.stableFor \in Nat \cup {None} /\ strayed \in Nat
    BY DEF PoseInv, Tracker
  <2> QED BY <2>1, <2>2, <2>3, TrackingAssumption DEF PoseInv
<1>8. ASSUME NEW gap \in Gaps, NEW faces \in Frames, FrameInferred(gap, faces) PROVE PoseInv'
  <2> DEFINE aged == [tracker EXCEPT !.stableFor = Aged(@, gap)]
             face == Primary(faces, tracker.last)
  <2>1. /\ aged \in Tracker /\ aged.last = tracker.last /\ Aged(strayed, gap) \in 0 .. StableMs
        /\ aged.stableFor # None => aged.stableFor <= Aged(strayed, gap)
    BY Ageing
  <2>2. /\ tracker' = Update(aged, faces) /\ shown' = PoseState(tracker')
        /\ strayed' = IF Usable(faces) /\ ~InReach(faces) THEN 0 ELSE Aged(strayed, gap)
    BY <1>8 DEF FrameInferred
  <2>3. faces \in Seq(FrameFace)
    BY GuideAssumption
  <2> HIDE DEF aged
  <2>4. /\ tracker' \in Tracker
        /\ tracker'.stableFor \in {None, 0, aged.stableFor}
        /\ faces = <<>> => tracker'.stableFor = None
        /\ faces # <<>> /\ face.turn # None /\ tracker'.stableFor # None =>
             face.place # None /\ InPosition(face.place, Exit)
    BY <2>1, <2>2, <2>3, UpdateIs
  <2>5. Usable(faces) /\ ~InReach(faces) => tracker'.stableFor = None
    BY <2>4 DEF Usable, InReach
  <2>6. strayed' \in 0 .. StableMs /\ (tracker'.stableFor # None => tracker'.stableFor <= strayed')
    BY <2>1, <2>2, <2>4, <2>5, TrackingAssumption
  <2>7. shown'.status \in Statuses /\ (shown'.shootable => strayed' >= StableMs)
    <3>1. tracker'.status \in Statuses /\ tracker'.stableFor \in Nat \cup {None}
      BY <2>4 DEF Tracker
    <3>2. shown'.shootable =>
            (IF tracker'.stableFor = None THEN 0 ELSE tracker'.stableFor) >= StableMs
      BY <2>2 DEF PoseState
    <3> QED BY <2>2, <2>6, <3>1, <3>2, TrackingAssumption DEF PoseState
  <2> QED BY <2>4, <2>6, <2>7 DEF PoseInv
<1>9. CASE UNCHANGED vars
  BY <1>1, <1>9 DEF vars
<1> QED BY <1>2, <1>3, <1>5, <1>6, <1>7, <1>8, <1>9 DEF Next

(* The page says ready to shoot only after a face was held in reach for    *)
(* STABLE_MS: neither hysteresis, the smoothing, a change of the primary   *)
(* face nor a frame that cannot be judged shortens the wait.               *)
THEOREM ReadyMeansHeld == Spec => []ShootableMeansStable
<1>1. SlotInv /\ PoseInv => ShootableMeansStable
  BY DEF SlotInv, PoseInv, ShootableMeansStable, Says, Statuses
<1> QED BY <1>1, SlotInit, SlotStep, PoseInit, PoseStep, PTL DEF Spec

-----------------------------------------------------------------------------
(* The camera: what Capture is about.                                      *)
(* A generation is never younger than genRef, and after the step has gone  *)
(* every call that was under way is older.                                 *)
GenInv ==
  /\ \A o \in Opens : open[o].gen <= gen
  /\ \A s \in Shots : shot[s].gen <= gen
  /\ ~onScreen =>
       /\ ~counting /\ ~armed /\ ~leaving
       /\ \A o \in Opens : open[o].pc = "opening" => open[o].gen # gen
       /\ \A s \in Shots : shot[s].pc \in {"still", "decode", "check"} => shot[s].gen # gen

(* The only tracks that may run are those of streamRef's stream.           *)
TrackInv == on \subseteq {stream} /\ (~onScreen => on = {})

(* The page's photo was taken by a shot that has ended.                    *)
SourceInv == source # Unset => shot[source].pc = "done"

CameraInv == TypeOK /\ GenInv /\ TrackInv /\ SourceInv /\ PhotosAccounted

(* No camera, no photo.                                                    *)
LEMMA CameraInitInv == CaptureInit => CameraInv
<1> SUFFICES ASSUME CaptureInit PROVE CameraInv
  OBVIOUS
<1>1. TypeOK
  BY DEF CaptureInit, TypeOK
<1>2. GenInv /\ TrackInv /\ SourceInv
  BY DEF CaptureInit, GenInv, TrackInv, SourceInv
<1>3. PhotosAccounted
  BY DEF CaptureInit, PhotosAccounted
<1> QED BY <1>1, <1>2, <1>3 DEF CameraInv

(* A call that moves on keeps its generation.                              *)
LEMMA OpenMoves ==
  ASSUME TypeOK, NEW o \in Opens, NEW from, NEW to \in {"idle", "opening", "playing", "done"},
         OpenGoto(o, from, to)
  PROVE  /\ open[o].pc = from
         /\ open' \in [Opens -> [pc : {"idle", "opening", "playing", "done"}, gen : Nat]]
         /\ \A x \in Opens : /\ open'[x].gen = open[x].gen
                             /\ open'[x].pc = IF x = o THEN to ELSE open[x].pc
BY DEF TypeOK, OpenGoto

(* ... and so does a shot.                                                 *)
LEMMA ShotMoves ==
  ASSUME TypeOK, NEW s \in Shots, NEW from,
         NEW to \in {"idle", "still", "decode", "check", "done"}, ShotGoto(s, from, to)
  PROVE  /\ shot[s].pc = from
         /\ shot' \in [Shots -> [pc : {"idle", "still", "decode", "check", "done"}, gen : Nat]]
         /\ \A x \in Shots : /\ shot'[x].gen = shot[x].gen
                             /\ shot'[x].pc = IF x = s THEN to ELSE shot[x].pc
BY DEF TypeOK, ShotGoto

(* A shot begins with the present generation.                              *)
LEMMA ShotBegins ==
  ASSUME TypeOK, NEW s \in Shots, BeginShot(s)
  PROVE  /\ shot[s].pc = "idle"
         /\ shot' \in [Shots -> [pc : {"idle", "still", "decode", "check", "done"}, gen : Nat]]
         /\ \A x \in Shots : shot'[x] = IF x = s THEN [pc |-> "still", gen |-> gen] ELSE shot[x]
BY DEF TypeOK, BeginShot

(* What only moves the camera calls keeps what is known of the shots, and  *)
(* the other way round.                                                    *)
LEMMA StatusTypes ==
  ASSUME TypeOK, NEW t \in {"idle", "requesting", "live", "capturing"}, SetStatus(t)
  PROVE  /\ status' \in {"idle", "requesting", "live", "capturing"} /\ armed' \in BOOLEAN
         /\ armed' => armed
         /\ ~onScreen => armed' = armed
BY DEF TypeOK, SetStatus

(* Every handler and continuation keeps the invariant.                     *)
LEMMA CameraStep == CameraInv /\ [CaptureNext]_captureVars => CameraInv'
<1> SUFFICES ASSUME CameraInv, [CaptureNext]_captureVars PROVE CameraInv'
  OBVIOUS
<1> USE CaptureAssumption DEF CameraInv, camera, photo
<1>0. TypeOK
  OBVIOUS
<1> DEFINE Rest == TypeOK' /\ GenInv' /\ TrackInv'
(* Steps of a camera call leave the photos alone.                          *)
<1>1. ASSUME UNCHANGED <<shot, photo>> PROVE SourceInv' /\ PhotosAccounted'
  BY <1>1 DEF SourceInv, PhotosAccounted
<1>2. ASSUME NEW o \in Opens, StartCamera(o) PROVE CameraInv'
  <2>1. /\ onScreen /\ gen' = gen + 1 /\ gen' \in Nat
        /\ open' \in [Opens -> [pc : {"idle", "opening", "playing", "done"}, gen : Nat]]
        /\ \A x \in Opens : open'[x] = IF x = o THEN [pc |-> "opening", gen |-> gen + 1] ELSE open[x]
    BY <1>2 DEF StartCamera, TypeOK
  <2>2. TypeOK'
    BY <1>2, <2>1, StatusTypes DEF StartCamera, TypeOK
  <2>3. GenInv' /\ TrackInv'
    BY <1>2, <2>1 DEF StartCamera, TypeOK, GenInv, TrackInv
  <2> QED BY <1>1, <1>2, <2>2, <2>3 DEF StartCamera
<1>3. ASSUME NEW o \in Opens, OpenedLate(o) \/ Played(o) \/ OpenFails(o) PROVE CameraInv'
  <2>1. /\ open' \in [Opens -> [pc : {"idle", "opening", "playing", "done"}, gen : Nat]]
        /\ \A x \in Opens : /\ open'[x].gen = open[x].gen
                            /\ open'[x].pc \in {open[x].pc, "done"}
    BY <1>3, OpenMoves DEF OpenedLate, Played, OpenFails
  <2>2. /\ status' \in {"idle", "requesting", "live", "capturing"} /\ armed' \in BOOLEAN
        /\ ~onScreen => armed' = armed
    BY <1>3, StatusTypes DEF OpenedLate, Played, OpenFails, TypeOK
  <2>3. UNCHANGED <<onScreen, leaving, gen, camera, shot, counting, hidden, photo>>
    BY <1>3 DEF OpenedLate, Played, OpenFails
  <2>4. TypeOK'
    BY <2>1, <2>2, <2>3 DEF TypeOK
  <2>5. GenInv' /\ TrackInv'
    BY <2>1, <2>2, <2>3 DEF GenInv, TrackInv
  <2> QED BY <1>1, <2>3, <2>4, <2>5
<1>4. ASSUME NEW o \in Opens, Opened(o) PROVE CameraInv'
  <2>1. /\ open[o].pc = "opening" /\ open[o].gen = gen
        /\ open' \in [Opens -> [pc : {"idle", "opening", "playing", "done"}, gen : Nat]]
        /\ \A x \in Opens : /\ open'[x].gen = open[x].gen
                            /\ open'[x].pc \in {open[x].pc, "playing"}
    BY <1>4, OpenMoves DEF Opened, Superseded
  <2>2. onScreen
    BY <2>1 DEF GenInv, TypeOK
  <2>3. stream' = o /\ on' = {o}
    BY <1>4 DEF Opened, TrackInv
  <2>4. TypeOK'
    BY <1>4, <2>1, <2>3 DEF Opened, TypeOK
  <2>5. GenInv' /\ TrackInv'
    BY <1>4, <2>1, <2>2, <2>3 DEF Opened, GenInv, TrackInv
  <2> QED BY <1>1, <1>4, <2>4, <2>5 DEF Opened
<1>5. ASSUME NEW s \in Shots, BeginShot(s), onScreen,
             UNCHANGED <<onScreen, leaving, gen, camera, open, hidden, photo>>,
             counting' \in {counting, FALSE}
      PROVE  CameraInv'
  <2>1. /\ shot[s].pc = "idle"
        /\ shot' \in [Shots -> [pc : {"idle", "still", "decode", "check", "done"}, gen : Nat]]
        /\ \A x \in Shots : shot'[x] = IF x = s THEN [pc |-> "still", gen |-> gen] ELSE shot[x]
    BY <1>5, ShotBegins
  <2>2. TypeOK'
    BY <1>5, <2>1, StatusTypes DEF BeginShot, TypeOK
  <2>3. GenInv' /\ TrackInv'
    BY <1>5, <2>1 DEF TypeOK, GenInv, TrackInv
  <2>4. SourceInv' /\ PhotosAccounted'
    BY <1>5, <2>1 DEF TypeOK, SourceInv, PhotosAccounted
  <2> QED BY <2>2, <2>3, <2>4
<1>6. ASSUME NEW s \in Shots, Shoot(s) PROVE CameraInv'
  BY <1>5, <1>6 DEF Shoot
<1>7. CASE CountdownFires
  <2>1. counting /\ counting' = FALSE /\ onScreen
    BY <1>7 DEF CountdownFires, GenInv
  <2>2. CASE UNCHANGED <<status, armed, shot>>
    BY <1>1, <1>7, <2>1, <2>2 DEF CountdownFires, TypeOK, GenInv, TrackInv
  <2>3. CASE \E s \in Shots : BeginShot(s)
    BY <1>5, <1>7, <2>1, <2>3 DEF CountdownFires
  <2> QED BY <1>7, <2>2, <2>3 DEF CountdownFires
<1>8. CASE StartCountdown \/ CancelCountdown \/ Hide \/ Show
  <2>1. TypeOK'
    BY <1>8 DEF StartCountdown, CancelCountdown, Hide, Show, TypeOK
  <2>2. GenInv' /\ TrackInv'
    BY <1>8 DEF StartCountdown, CancelCountdown, Hide, Show, GenInv, TrackInv
  <2> QED BY <1>1, <1>8, <2>1, <2>2 DEF StartCountdown, CancelCountdown, Hide, Show
(* A shot under way.                                                       *)
<1>9. ASSUME NEW s \in Shots,
             StillTaken(s) \/ ShotFails(s) \/ Decoded(s) \/ CheckedLate(s) \/ Deliver(s)
      PROVE  CameraInv'
  <2>0. source \in Shots \cup {Unset} /\ bitmaps \subseteq Shots
    BY DEF TypeOK
  <2>1. /\ shot[s].pc \in {"still", "decode", "check"}
        /\ shot'[s].pc \in {"decode", "check", "done"}
        /\ shot' \in [Shots -> [pc : {"idle", "still", "decode", "check", "done"}, gen : Nat]]
        /\ \A x \in Shots : /\ shot'[x].gen = shot[x].gen
                            /\ x # s => shot'[x].pc = shot[x].pc
    BY <1>9, ShotMoves DEF StillTaken, ShotFails, Decoded, CheckedLate, Deliver
  <2>2. /\ status' \in {"idle", "requesting", "live", "capturing"} /\ armed' \in BOOLEAN
        /\ ~onScreen => armed' = armed
    BY <1>9, StatusTypes DEF StillTaken, ShotFails, Decoded, CheckedLate, Deliver, TypeOK
  <2>3. UNCHANGED <<onScreen, gen, camera, open, counting, hidden>>
    BY <1>9 DEF StillTaken, ShotFails, Decoded, CheckedLate, Deliver
  <2>4. leaving' \in BOOLEAN /\ (~onScreen => leaving' = leaving)
    BY <1>9 DEF StillTaken, ShotFails, Decoded, CheckedLate, Deliver, Stale, ShotGoto, TypeOK, GenInv
  <2>5. source' \in Shots \cup {Unset} /\ bitmaps' \subseteq Shots
    BY <1>9 DEF StillTaken, ShotFails, Decoded, CheckedLate, Deliver, TypeOK
  <2>6. TypeOK'
    BY <2>1, <2>2, <2>3, <2>4, <2>5 DEF TypeOK
  <2>7. GenInv' /\ TrackInv'
    BY <2>1, <2>2, <2>3, <2>4 DEF GenInv, TrackInv
  <2>8. source # s
    BY <2>1 DEF SourceInv
  <2>9. CASE StillTaken(s) \/ ShotFails(s)
    <3>1. UNCHANGED <<source, bitmaps>> /\ (shot[s].pc = "check" <=> shot'[s].pc = "check")
      BY <2>9, ShotMoves DEF StillTaken, ShotFails
    <3>2. SourceInv'
      BY <2>0, <2>1, <2>8, <3>1 DEF SourceInv
    <3>3. PhotosAccounted'
      BY <2>0, <2>1, <2>8, <3>1 DEF PhotosAccounted, SourceInv
    <3> QED BY <2>6, <2>7, <3>2, <3>3
  <2>10. CASE Decoded(s)
    <3>1. /\ shot[s].pc = "decode"
          /\ \/ shot'[s].pc = "done" /\ bitmaps' = bitmaps
             \/ shot'[s].pc = "check" /\ bitmaps' = bitmaps \cup {s}
          /\ source' = source
      BY <2>10, ShotMoves DEF Decoded
    <3>2. SourceInv'
      BY <2>0, <2>1, <2>8, <3>1 DEF SourceInv
    <3>3. PhotosAccounted'
      BY <2>0, <2>1, <2>8, <3>1 DEF PhotosAccounted, SourceInv
    <3> QED BY <2>6, <2>7, <3>2, <3>3
  <2>11. CASE CheckedLate(s)
    <3>1. /\ shot[s].pc = "check" /\ shot'[s].pc = "done"
          /\ bitmaps' = bitmaps \ {s} /\ source' = source
      BY <2>11, ShotMoves DEF CheckedLate
    <3>2. SourceInv'
      BY <2>0, <2>1, <2>8, <3>1 DEF SourceInv
    <3>3. PhotosAccounted'
      BY <2>0, <2>1, <2>8, <3>1 DEF PhotosAccounted, SourceInv
    <3> QED BY <2>6, <2>7, <3>2, <3>3
  <2>12. CASE Deliver(s)
    <3>1. /\ shot[s].pc = "check" /\ shot'[s].pc = "done"
          /\ bitmaps' = bitmaps \ {source} /\ source' = s
      BY <2>12, ShotMoves DEF Deliver
    <3>2. \A x \in Shots : x \in bitmaps' <=> x = s \/ shot'[x].pc = "check"
      BY <2>1, <2>8, <3>1 DEF SourceInv, PhotosAccounted, TypeOK
    <3> QED BY <2>1, <2>5, <2>6, <2>7, <3>1, <3>2 DEF SourceInv, PhotosAccounted
  <2> QED BY <1>9, <2>9, <2>10, <2>11, <2>12
<1>10. CASE HiddenTooLong
  <2>1. TypeOK'
    <3>1. status' \in {"idle", "requesting", "live", "capturing"} /\ armed' \in BOOLEAN
      BY <1>10, StatusTypes DEF HiddenTooLong
    <3>2. gen' \in Nat /\ stream' \in Opens \cup {Unset} /\ on' \subseteq Opens
      BY <1>10 DEF HiddenTooLong, TypeOK
    <3>3. UNCHANGED <<onScreen, leaving, open, shot, counting, hidden, source, bitmaps>>
      BY <1>10 DEF HiddenTooLong
    <3> QED BY <3>1, <3>2, <3>3 DEF TypeOK
  <2>2. GenInv'
    BY <1>10 DEF HiddenTooLong, TypeOK, GenInv
  <2>3. TrackInv'
    BY <1>10 DEF HiddenTooLong, TrackInv
  <2> QED BY <1>1, <1>10, <2>1, <2>2, <2>3 DEF HiddenTooLong
<1>11. ASSUME StepUnmounts, source' \in Shots \cup {Unset}, bitmaps' \subseteq Shots PROVE Rest
  <2>1. TypeOK'
    <3>1. gen' \in Nat /\ stream' \in Opens \cup {Unset} /\ on' \subseteq Opens
      BY <1>11 DEF StepUnmounts, TypeOK
    <3>2. /\ onScreen' \in BOOLEAN /\ leaving' \in BOOLEAN /\ counting' \in BOOLEAN
          /\ armed' \in BOOLEAN /\ UNCHANGED <<status, open, shot, hidden>>
      BY <1>11 DEF StepUnmounts
    <3> QED BY <1>11, <3>1, <3>2 DEF TypeOK
  <2>2. GenInv'
    BY <1>11 DEF StepUnmounts, TypeOK, GenInv
  <2>3. TrackInv'
    BY <1>11 DEF StepUnmounts, TrackInv
  <2> QED BY <2>1, <2>2, <2>3
<1>12. CASE Back \/ GoOn
  BY <1>1, <1>11, <1>12 DEF Back, GoOn, StepUnmounts, TypeOK
<1>13. CASE LeavePage
  <2>1. SourceInv' /\ PhotosAccounted'
    BY <1>13 DEF LeavePage, StepUnmounts, SourceInv, PhotosAccounted, TypeOK
  <2> QED BY <1>11, <1>13, <2>1 DEF LeavePage, TypeOK
<1>14. CASE UNCHANGED captureVars
  BY <1>14 DEF captureVars, TypeOK, GenInv, TrackInv, SourceInv, PhotosAccounted
<1> QED
  BY <1>2, <1>3, <1>4, <1>6, <1>7, <1>8, <1>9, <1>10, <1>12, <1>13, <1>14
  DEF CaptureNext, Continuation, User

(* The invariant holds throughout.                                         *)
LEMMA CameraAlways == CaptureSpec => []CameraInv
BY CameraInitInv, CameraStep, PTL DEF CaptureSpec

(* After the step has gone no camera track runs, whatever permission       *)
(* prompts, play() calls and timers were pending: each finds its           *)
(* generation superseded.                                                  *)
THEOREM CameraIsReleased == CaptureSpec => []CameraOffAfterLeaving
<1>1. CameraInv => CameraOffAfterLeaving
  BY DEF CameraInv, TrackInv, CameraOffAfterLeaving
<1> QED BY <1>1, CameraAlways, PTL

(* No decoded photo leaks and none is disposed twice, or while the page    *)
(* holds it: the undisposed ones are the page's and those being rechecked. *)
THEOREM NoPhotoLeaks == CaptureSpec => []PhotosAccounted
<1>1. CameraInv => PhotosAccounted
  BY DEF CameraInv
<1> QED BY <1>1, CameraAlways, PTL

(* A shot that finishes after the step has gone does not move the page.    *)
THEOREM LateShotsAreDropped == CaptureSpec => LateShotIsDropped
<1>1. CameraInv /\ [CaptureNext]_captureVars => [source' \in Shots /\ source' # source => onScreen]_captureVars
  <2> SUFFICES ASSUME CameraInv, CaptureNext, source' \in Shots, source' # source PROVE onScreen
    OBVIOUS
  <2>1. PICK s \in Shots : Deliver(s)
    BY CaptureAssumption
    DEF CaptureNext, Continuation, User, OpenedLate, Opened, Played, OpenFails, StillTaken, ShotFails,
        Decoded, CheckedLate, StartCamera, Shoot, StartCountdown, CancelCountdown, Hide, Show,
        Back, LeavePage, CountdownFires, HiddenTooLong, GoOn, photo
  <2> QED BY <2>1 DEF Deliver, Stale, ShotGoto, CameraInv, GenInv
<1> QED BY <1>1, CameraAlways, PTL DEF CaptureSpec, LateShotIsDropped
=============================================================================

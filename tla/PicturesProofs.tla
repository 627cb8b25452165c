--------------------------- MODULE PicturesProofs ---------------------------
(***************************************************************************)
(* Proofs about what becomes of a picture: in the browser and on the       *)
(* server (Pictures), for any photo files, uploads, templates and limits;  *)
(* and under which lease it is saved (SaveLease), for every number of      *)
(* requests, idempotency keys, contents, event loops, crashes and ticks.   *)
(* The lease and the picture share no state: the handler that holds the    *)
(* lease calls validate_and_reencode between acquiring and committing.     *)
(***************************************************************************)
EXTENDS Pictures, SaveLease, SequenceTheorems, WellFoundedInduction, TLAPS

(* The qualities that the server tries: in steps of 4, from 92 down.       *)
Tried == {q \in Qualities : (MaxReencodeQuality - q) % 4 = 0}

(* What is saved is one of the pictures and revisions; every quality above *)
(* the one being tried was too long; and what has become of it.            *)
ServerInv ==
  /\ stage \in {"none", "sent", "encoding", "stored", "refused"}
  /\ stage # "none" => upload \in Uploads /\ revision \in Revisions
  /\ stage \in {"none", "sent"} => quality = MaxReencodeQuality
  /\ quality \in Tried
  /\ stage \in {"encoding", "stored"} =>
       /\ revision.output.kind \notin {"portal", "guidance"}
       /\ Complaint(upload, revision) = Unset
       /\ \A q \in Tried : q > quality => TooLong(q)
  /\ stage = "stored" =>
       /\ ~TooLong(quality)
       /\ outcome = [size |-> Transposed(upload), bytes |-> upload.length[quality],
                     ppi |-> IF revision.output.kind = "physical" THEN revision.output.ppi ELSE Unset]
  /\ stage = "refused" =>
       \/ revision.output.kind \in {"portal", "guidance"} /\ outcome = "TEMPLATE_UNAVAILABLE"
       \/ Complaint(upload, revision) # Unset /\ outcome = Complaint(upload, revision)
       \/ /\ Complaint(upload, revision) = Unset /\ outcome = "PHOTO_TOO_LARGE"
          /\ \A q \in Tried : TooLong(q)

(* What the page sends is one of its artifacts, for a template with a size *)
PageInv ==
  /\ fromPage => stage # "none"
  /\ fromPage => upload \in Artifacts(revision) /\ revision.output.kind \notin {"portal", "guidance"}

(* A photo that is loaded is the normalized file.                          *)
PhotoInv ==
  /\ phase \in {"chosen", "checked"} => file \in Samples
  /\ phase = "loaded" => file \in Samples /\ LoadError(file) = None /\ picture = Normalize(file)

(* The whole invariant of the pictures.                                    *)
Inv == ServerInv /\ PageInv /\ PhotoInv

-----------------------------------------------------------------------------
(* The search comes down to the floor, and leaves out none that is tried.  *)
LEMMA Steps ==
  ASSUME NEW q \in Tried
  PROVE  /\ q \in Nat /\ q >= MinReencodeQuality
         /\ q > MinReencodeQuality => q - 4 >= MinReencodeQuality /\ q - 4 \in Tried
         /\ \A p \in Tried : p > q - 4 => p >= q
         /\ \A p \in Tried : p >= MinReencodeQuality
<1> USE DEF Tried, Qualities, MinReencodeQuality, MaxReencodeQuality
<1>2. ASSUME NEW p \in Tried PROVE \E j \in Int : p = 92 - 4 * j
  <2>1. p \in Int /\ (92 - p) % 4 = 0
    OBVIOUS
  <2>2. p = 92 - 4 * ((92 - p) \div 4) /\ (92 - p) \div 4 \in Int
    BY <2>1
  <2> QED BY <2>2
<1>1. PICK k \in Int : q = 92 - 4 * k
  BY <1>2
<1>4. q - 4 = 92 - 4 * (k + 1)
  BY <1>1
<1>5. q > 40 => q - 4 >= 40
  BY <1>1
<1>6. \A p \in Tried : p > q - 4 => p >= q
  BY <1>1, <1>2
<1>7. q > 40 => (92 - (q - 4)) % 4 = 0
  BY <1>4
<1> QED BY <1>5, <1>6, <1>7

(* The search begins and ends at a quality that it tries.                  *)
LEMMA LowestTried == MinReencodeQuality \in Tried /\ MaxReencodeQuality \in Tried
BY DEF Tried, Qualities, MinReencodeQuality, MaxReencodeQuality

(* Nothing has been sent.                                                  *)
LEMMA ServerInit1 == ServerInit => ServerInv
BY LowestTried DEF ServerInit, ServerInv

(* A request to save any upload under any revision.                        *)
LEMMA ReceiveStep ==
  ASSUME ServerInv, NEW u \in Uploads, NEW rev \in Revisions, Receive(u, rev)
  PROVE  ServerInv'
BY DEF Receive, ServerInv

(* Every step of validate_and_reencode.                                    *)
LEMMA ServerStep == ServerInv /\ (ServerNext \/ UNCHANGED server) => ServerInv'
<1> SUFFICES ASSUME ServerInv, ServerNext \/ UNCHANGED server PROVE ServerInv'
  OBVIOUS
<1>1. UNCHANGED <<revision, upload>> => /\ Complaint(upload, revision)' = Complaint(upload, revision)
                                        /\ Transposed(upload)' = Transposed(upload)
                                        /\ \A q : TooLong(q)' = TooLong(q)
  BY DEF Complaint, Transposed, TooLong, EffectiveMax, Takes, InRange, HasAspect
<1>2. CASE Validate
  <2>1. stage = "sent" /\ UNCHANGED <<revision, upload, quality>> /\ quality = MaxReencodeQuality
    BY <1>2 DEF Validate, Refuse, ServerInv
  <2>2. \A q \in Tried : ~(q > quality)
    BY <2>1 DEF Tried, Qualities, MinReencodeQuality, MaxReencodeQuality
  <2>3. CASE revision.output.kind \in {"portal", "guidance"}
    BY <1>1, <1>2, <2>1, <2>3 DEF Validate, Refuse, ServerInv
  <2>4. CASE revision.output.kind \notin {"portal", "guidance"} /\ Complaint(upload, revision) # Unset
    BY <1>1, <1>2, <2>1, <2>4 DEF Validate, Refuse, ServerInv
  <2>5. CASE revision.output.kind \notin {"portal", "guidance"} /\ Complaint(upload, revision) = Unset
    BY <1>1, <1>2, <2>1, <2>2, <2>5 DEF Validate, Refuse, ServerInv
  <2> QED BY <2>3, <2>4, <2>5
<1>3. CASE TryLower
  <2>1. /\ stage = "encoding" /\ TooLong(quality) /\ quality > MinReencodeQuality
        /\ UNCHANGED <<revision, upload, stage, outcome>> /\ quality \in Tried
    BY <1>3 DEF TryLower, ServerInv
  <2>2. quality' = quality - 4 /\ quality' \in Tried
    BY <1>3, <2>1, Steps DEF TryLower
  <2>3. \A q \in Tried : q > quality' => TooLong(q)
    <3>1. \A q \in Tried : q > quality' => q >= quality /\ q \in Nat
      BY <2>1, <2>2, Steps
    <3>2. \A q \in Tried : q > quality => TooLong(q)
      BY <2>1 DEF ServerInv
    <3> QED BY <2>1, <3>1, <3>2, Steps
  <2> QED BY <1>1, <2>1, <2>2, <2>3 DEF ServerInv
<1>4. CASE GiveUp
  <2>1. /\ stage = "encoding" /\ TooLong(quality) /\ quality <= MinReencodeQuality /\ stage' = "refused"
        /\ outcome' = "PHOTO_TOO_LARGE" /\ UNCHANGED <<revision, upload, quality>> /\ quality \in Tried
    BY <1>4 DEF GiveUp, Refuse, ServerInv
  <2>2. \A q \in Tried : TooLong(q)
    <3>1. \A q \in Tried : q > quality \/ q = quality
      BY <2>1, Steps DEF MinReencodeQuality
    <3> QED BY <2>1, <3>1 DEF ServerInv
  <2> QED BY <1>1, <2>1, <2>2 DEF ServerInv
<1>5. CASE Keep
  BY <1>1, <1>5 DEF Keep, ServerInv
<1>6. CASE UNCHANGED server
  BY <1>1, <1>6 DEF server, ServerInv
<1> QED BY <1>2, <1>3, <1>4, <1>5, <1>6 DEF ServerNext

(* Nothing is loaded or sent at first.                                     *)
LEMMA InvInit == PicturesInit => Inv
<1> SUFFICES ASSUME PicturesInit PROVE Inv
  OBVIOUS
<1> QED BY ServerInit1 DEF PicturesInit, Init, ServerInit, Inv, PageInv, PhotoInv

(* Every step of the browser and of the server keeps the invariant.        *)
LEMMA InvStep == Inv /\ [PicturesNext]_<<browser, server, fromPage>> => Inv'
<1> SUFFICES ASSUME Inv, [PicturesNext]_<<browser, server, fromPage>> PROVE Inv'
  OBVIOUS
<1>1. CASE (Check \/ Decode) /\ UNCHANGED <<server, fromPage>>
  <2>1. ServerInv' /\ PageInv'
    BY <1>1, ServerStep DEF Inv, PageInv, server, Artifacts
  <2>2. PhotoInv'
    BY <1>1 DEF Inv, PhotoInv, Check, Decode
  <2> QED BY <2>1, <2>2 DEF Inv
<1>2. CASE ServerNext /\ UNCHANGED <<browser, fromPage>>
  <2>1. ServerInv'
    BY <1>2, ServerStep DEF Inv
  <2>2. stage' # "none" /\ UNCHANGED <<upload, revision>>
    BY <1>2 DEF ServerNext, Validate, TryLower, GiveUp, Keep, Refuse
  <2>3. PageInv' /\ PhotoInv'
    BY <1>2, <2>2 DEF Inv, PageInv, PhotoInv, browser
  <2> QED BY <2>1, <2>3 DEF Inv
<1>3. CASE Stage
  <2>1. PICK rev \in Revisions : \E u \in Artifacts(rev) :
          rev.output.kind \notin {"portal", "guidance"} /\ Receive(u, rev)
    BY <1>3 DEF Stage
  <2>2. PICK u \in Artifacts(rev) : rev.output.kind \notin {"portal", "guidance"} /\ Receive(u, rev)
    BY <2>1
  <2>3. u \in Uploads /\ upload' = u /\ revision' = rev /\ stage' = "sent"
    BY <2>2 DEF Artifacts, Receive
  <2>4. ServerInv'
    BY <2>2, <2>3, ReceiveStep DEF Inv
  <2>5. PageInv' /\ PhotoInv'
    BY <1>3, <2>2, <2>3 DEF Stage, PageInv, PhotoInv
  <2> QED BY <2>4, <2>5 DEF Inv
<1>4. CASE Send
  <2>1. PICK rev \in Revisions, u \in Uploads : Receive(u, rev)
    BY <1>4 DEF Send
  <2>2. ServerInv'
    BY <2>1, ReceiveStep DEF Inv
  <2>3. fromPage' = FALSE
    BY <1>4, <2>1 DEF Send, Receive, Inv, PageInv
  <2>4. PhotoInv'
    BY <1>4 DEF Send, PhotoInv
  <2> QED BY <2>2, <2>3, <2>4 DEF Inv, PageInv
<1>5. CASE UNCHANGED <<browser, server, fromPage>>
  BY <1>5, ServerStep DEF Inv, PageInv, PhotoInv, browser, server
<1> QED BY <1>1, <1>2, <1>3, <1>4, <1>5 DEF PicturesNext

(* The invariant holds throughout.                                         *)
LEMMA PicturesAlways == PicturesSpec => []Inv
BY InvInit, InvStep, PTL DEF PicturesSpec

-----------------------------------------------------------------------------
(* The server's limit is the template's or its own, whichever is less.     *)
LEMMA EffectiveMaxIs ==
  ASSUME NEW rev \in Revisions
  PROVE  /\ EffectiveMax(rev) \in Nat /\ EffectiveMax(rev) <= MaxUpload
         /\ rev.maxBytes # Unset => EffectiveMax(rev) <= rev.maxBytes /\ rev.maxBytes \in Nat
         /\ EffectiveMax(rev) = MaxUpload \/ (rev.maxBytes # Unset /\ EffectiveMax(rev) = rev.maxBytes)
<1>1. MaxUpload \in Nat /\ rev.maxBytes \in Nat \cup {Unset}
  BY SaveImageAssumption
<1>2. rev.maxBytes # Unset => Min({rev.maxBytes, MaxUpload}) = IF rev.maxBytes <= MaxUpload THEN rev.maxBytes ELSE MaxUpload
  BY <1>1 DEF Min
<1> QED BY <1>1, <1>2 DEF EffectiveMax

(* A picture without complaint is taken as it is turned.                   *)
LEMMA NoComplaint ==
  ASSUME NEW u, NEW rev, Complaint(u, rev) = Unset
  PROVE  Takes(rev.output, Transposed(u))
BY SaveImageAssumption DEF Complaint, ImageErrors

(* What the server stores has the template's size once it is turned        *)
(* upright, keeps to both limits on its bytes and has the template's       *)
(* density; every better quality it tries was too long, and it gives up    *)
(* only when all it tries were.                                            *)
THEOREM StoredComply == PicturesSpec => []StoredPhotosComply
<1>1. Inv => StoredPhotosComply
  <2> SUFFICES ASSUME ServerInv PROVE StoredPhotosComply
    BY DEF Inv
  <2>1. ASSUME stage = "stored"
        PROVE  /\ IF revision.output.kind = "ranged"
                  THEN InRange(outcome.size, revision.output) /\ HasAspect(outcome.size, revision.output)
                  ELSE outcome.size = revision.output.default
               /\ upload.turned => outcome.size.width = upload.size.height
               /\ outcome.bytes <= MaxUpload
               /\ revision.maxBytes # Unset => outcome.bytes <= revision.maxBytes
               /\ revision.output.kind = "physical" => outcome.ppi = revision.output.ppi
               /\ \A q \in Tried : q > quality => TooLong(q)
    <3>1. /\ outcome.size = Transposed(upload) /\ outcome.bytes = upload.length[quality]
          /\ revision.output.kind = "physical" => outcome.ppi = revision.output.ppi
          /\ \A q \in Tried : q > quality => TooLong(q)
      BY <2>1 DEF ServerInv
    <3>2. Takes(revision.output, Transposed(upload))
      BY <2>1, NoComplaint DEF ServerInv
    <3>3. upload.length[quality] \in Nat /\ upload.length[quality] <= EffectiveMax(revision)
      <4>1. upload.length \in [Qualities -> Nat] /\ quality \in Qualities /\ ~TooLong(quality)
        BY <2>1, SaveImageAssumption DEF ServerInv, Upload, Tried
      <4>2. upload.length[quality] \in Nat
        BY <4>1
      <4> QED BY <2>1, <4>1, <4>2, EffectiveMaxIs DEF ServerInv, TooLong
    <3>4. outcome.bytes <= MaxUpload /\ (revision.maxBytes # Unset => outcome.bytes <= revision.maxBytes)
      <4>1. MaxUpload \in Nat /\ revision \in Revisions
        BY <2>1, SaveImageAssumption DEF ServerInv
      <4> QED BY <3>1, <3>3, <4>1, EffectiveMaxIs
    <3> QED BY <3>1, <3>2, <3>4 DEF Takes, Transposed
  <2>2. ASSUME stage = "refused", outcome = "PHOTO_TOO_LARGE", Complaint(upload, revision) = Unset
        PROVE  \A q \in Tried : TooLong(q)
    BY <2>2 DEF ServerInv
  <2> QED BY <2>1, <2>2 DEF StoredPhotosComply, Tried
<1> QED BY <1>1, PicturesAlways, PTL

(* A picture the page made in a size it offers is refused for its bytes    *)
(* only, for every consistent template within the limits of the service:   *)
(* the sizes of the browser and of the server agree.                       *)
THEOREM PageSizesTaken == PicturesSpec => []PageSizesAreTaken
<1>1. Inv => PageSizesAreTaken
  <2> SUFFICES ASSUME Inv, fromPage, stage = "refused", Consistent(revision.output),
                      WithinLimits(revision.output)
               PROVE  /\ outcome = "PHOTO_TOO_LARGE"
                      /\ upload.bytes > MaxUpload \/ TooLong(MinReencodeQuality)
    BY DEF PageSizesAreTaken
  <2> DEFINE o == revision.output
             s == upload.size
  <2>1. /\ upload \in Uploads /\ upload \in Upload /\ revision \in Revisions /\ o \in Output
        /\ upload.format = "jpeg" /\ upload.frames = 1 /\ ~upload.turned /\ s \in Offered(o)
        /\ revision.maxBytes # Unset => upload.bytes <= revision.maxBytes
        /\ o.kind \notin {"portal", "guidance"}
    BY SaveImageAssumption DEF Inv, ServerInv, PageInv, Artifacts
  <2>2. upload.bytes \in Nat /\ MaxUpload \in Nat
    BY <2>1, SaveImageAssumption DEF Upload
  <2>3. upload.bytes > EffectiveMax(revision) => upload.bytes > MaxUpload
    BY <2>1, <2>2, EffectiveMaxIs
  <2>4. ~(s.width * s.height > UploadPixels) /\ ~(Max({s.width, s.height}) > UploadEdge)
    <3>1. s.width \in Nat /\ s.height \in Nat /\ s.width * s.height \in Nat /\ UploadPixels \in Nat /\ UploadEdge \in Nat
      BY <2>1, SaveImageAssumption DEF Upload, Area
    <3>2. Max({s.width, s.height}) \in Nat
      <4>1. \A a, b \in Nat : Max({a, b}) \in Nat
        BY DEF Max
      <4> QED BY <3>1, <4>1
    <3>3. s.width * s.height <= UploadPixels /\ Max({s.width, s.height}) <= UploadEdge
      BY <2>1 DEF WithinLimits
    <3> QED BY <3>1, <3>2, <3>3
  <2>5. Takes(o, s)
    <3>1. CASE o.kind # "ranged"
      BY <2>1, <3>1 DEF Offered, Takes
    <3>2. CASE o.kind = "ranged" /\ o.listed # {}
      BY <2>1, <3>2 DEF Offered, Takes, Consistent
    <3>3. CASE o.kind = "ranged" /\ o.listed = {}
      <4>1. s \in {o.default, o.max} /\ HasAspect(s, o)
        BY <2>1, <3>3 DEF Offered, Consistent
      <4>2. InRange(o.default, o) /\ o.min \in Area /\ o.max \in Area
        BY <2>1, <3>3 DEF Consistent, Output
      <4>3. InRange(o.max, o)
        BY <4>2 DEF InRange, Area
      <4> QED BY <3>3, <4>1, <4>2, <4>3 DEF Takes
    <3> QED BY <3>1, <3>2, <3>3
  <2>6. Transposed(upload) = s
    BY <2>1 DEF Transposed
  <2>7. Complaint(upload, revision) # Unset =>
          Complaint(upload, revision) = "PHOTO_TOO_LARGE" /\ upload.bytes > MaxUpload
    BY <2>1, <2>3, <2>4, <2>5, <2>6 DEF Complaint
  <2>8. TooLong(MinReencodeQuality) \/ Complaint(upload, revision) # Unset
    BY <2>1, LowestTried DEF Inv, ServerInv
  <2> QED BY <2>1, <2>7, <2>8 DEF Inv, ServerInv
<1> QED BY <1>1, PicturesAlways, PTL
-----------------------------------------------------------------------------
(* The working bitmap.                                                     *)

(* A set of natural numbers has a least one.                               *)
LEMMA LeastIs ==
  ASSUME NEW T, T \subseteq Nat, T # {}
  PROVE  Min(T) \in T /\ \A y \in T : Min(T) <= y
<1>1. PICK x \in T : \A y \in T : ~(<<y, x>> \in OpToRel(<, Nat))
  BY NatLessThanWellFounded, WFMin
<1>2. ASSUME NEW y \in T PROVE x <= y
  <2>1. x \in Nat /\ y \in Nat
    OBVIOUS
  <2>2. ~(y < x)
    BY <1>1, <2>1 DEF OpToRel
  <2> QED BY <2>1, <2>2
<1> QED BY <1>2 DEF Min

(* What grows with both factors.                                           *)
LEMMA Grows ==
  ASSUME NEW a \in Nat, NEW b \in Nat, NEW c \in Nat, a <= b
  PROVE  a * c <= b * c
OBVIOUS

(* There is a rounded root below the top: the least number whose next half *)
(* is beyond it.                                                           *)
LEMMA RootIs ==
  ASSUME NEW n \in Nat, NEW d \in Nat \ {0}, NEW top \in Nat,
         4 * n < (2 * top + 1) * (2 * top + 1) * d
  PROVE  LET r == RoundedRoot(n, d, top) IN
         /\ r \in 0 .. top
         /\ r = 0 \/ (2 * r - 1) * (2 * r - 1) * d <= 4 * n
         /\ 4 * n < (2 * r + 1) * (2 * r + 1) * d
<1> DEFINE Beyond(r) == 4 * n < (2 * r + 1) * (2 * r + 1) * d
           T == {r \in Nat : Beyond(r)}
           m == Min(T)
<1>1. T \subseteq Nat /\ top \in T
  OBVIOUS
<1>2. m \in T /\ \A y \in T : m <= y
  <2> HIDE DEF T
  <2> QED BY <1>1, LeastIs
<1>3. m \in 0 .. top /\ Beyond(m)
  BY <1>1, <1>2
<1>4. m = 0 \/ (2 * m - 1) * (2 * m - 1) * d <= 4 * n
  <2> SUFFICES ASSUME m # 0 PROVE (2 * m - 1) * (2 * m - 1) * d <= 4 * n
    OBVIOUS
  <2>1. m - 1 \in Nat /\ m \in Nat
    BY <1>3
  <2>2. ~Beyond(m - 1)
    <3>1. m - 1 \in T => FALSE
      BY <1>2, <2>1
    <3> QED BY <2>1, <3>1
  <2>3. 2 * (m - 1) + 1 = 2 * m - 1
    BY <2>1
  <2>4. (2 * m - 1) * (2 * m - 1) * d \in Int
    BY <2>1
  <2> HIDE DEF m
  <2>5. ~(4 * n < (2 * m - 1) * (2 * m - 1) * d)
    BY <2>2, <2>3
  <2> QED BY <2>4, <2>5
<1>5. \E r \in 0 .. top : /\ r = 0 \/ (2 * r - 1) * (2 * r - 1) * d <= 4 * n
                          /\ 4 * n < (2 * r + 1) * (2 * r + 1) * d
  <2> HIDE DEF m
  <2> QED BY <1>3, <1>4
<1> QED BY <1>5 DEF RoundedRoot

(* One edge of a picture beyond the budget: it shrinks to at least one     *)
(* pixel, and the square of its half-way mark to its share of the budget.  *)
LEMMA EdgeIs ==
  ASSUME NEW w \in Nat \ {0}, NEW h \in Nat \ {0}, NEW M \in Nat \ {0}, w * h > M, h <= 4 * M
  PROVE  LET c == Max({1, RoundedRoot(w * M, h, w)}) IN
         c \in Nat \ {0} /\ (2 * c - 1) * (2 * c - 1) * h <= 4 * (w * M)
<1> DEFINE n == w * M
           r == RoundedRoot(n, h, w)
<1>1. n \in Nat /\ n >= M
  BY Grows
<1>2. 4 * n < (2 * w + 1) * (2 * w + 1) * h
  <2>1. n <= w * (w * h)
    BY Grows
  <2>2. (2 * w + 1) * (2 * w + 1) * h = 4 * (w * (w * h)) + 4 * (w * h) + h
    OBVIOUS
  <2>3. w * h \in Nat /\ w * (w * h) \in Nat
    OBVIOUS
  <2> HIDE DEF n
  <2> QED BY <1>1, <2>1, <2>2, <2>3
<1>3. /\ r \in 0 .. w
      /\ r = 0 \/ (2 * r - 1) * (2 * r - 1) * h <= 4 * n
  <2> HIDE DEF n
  <2> QED BY <1>1, <1>2, RootIs
<1> HIDE DEF r
<1>4. Max({1, r}) = IF r = 0 THEN 1 ELSE r
  BY <1>3 DEF Max
<1>5. CASE r = 0
  <2>1. Max({1, r}) = 1 /\ (2 * 1 - 1) * (2 * 1 - 1) * h = h
    BY <1>4, <1>5
  <2>2. h <= 4 * n
    BY <1>1
  <2> HIDE DEF n
  <2> QED BY <2>1, <2>2 DEF r, n
<1>6. CASE r # 0
  BY <1>3, <1>4, <1>6 DEF r
<1> QED BY <1>5, <1>6

(* What both edges say together.                                           *)
LEMMA AreaIs ==
  ASSUME NEW x \in Nat, NEW y \in Nat, NEW w \in Nat \ {0}, NEW h \in Nat \ {0}, NEW M \in Nat,
         x * x * h <= 4 * (w * M), y * y * w <= 4 * (h * M)
  PROVE  x * y <= 4 * M
<1> DEFINE k == w * h
           p == x * y
           b == 4 * M
<1>1. k \in Nat /\ k >= 1 /\ p \in Nat /\ b \in Nat
  <2>1. 1 * h <= w * h
    BY Grows
  <2> QED BY <2>1
<1>2. (x * x * h) * (y * y * w) <= (4 * (w * M)) * (4 * (h * M))
  <2> DEFINE e == x * x * h
             f == y * y * w
             g == 4 * (w * M)
             i == 4 * (h * M)
  <2>1. e \in Nat /\ f \in Nat /\ g \in Nat /\ i \in Nat /\ e <= g /\ f <= i
    OBVIOUS
  <2> HIDE DEF e, f, g, i
  <2>2. e * f <= g * f /\ f * g <= i * g
    BY <2>1, Grows
  <2>3. e * f \in Nat /\ g * f = f * g /\ i * g = g * i /\ g * f \in Nat /\ g * i \in Nat
    BY <2>1
  <2>4. e * f <= g * i
    BY <2>2, <2>3
  <2> QED BY <2>4 DEF e, f, g, i
<1>3. (p * p) * k <= (b * b) * k
  <2>1. (x * x * h) * (y * y * w) = (p * p) * k
    OBVIOUS
  <2>2. (4 * (w * M)) * (4 * (h * M)) = (b * b) * k
    OBVIOUS
  <2> QED BY <1>2, <2>1, <2>2
<1> HIDE DEF p, b, k
<1>4. ASSUME p > b PROVE FALSE
  <2>1. b * b <= p * b /\ (b + 1) * p <= p * p
    <3>1. b <= p /\ b + 1 <= p
      BY <1>1, <1>4
    <3> QED BY <1>1, <3>1, Grows
  <2>2. (b + 1) * p = p * b + p /\ p > 0
    BY <1>1, <1>4
  <2>3. b * b \in Nat /\ p * p \in Nat /\ p * b \in Nat
    BY <1>1
  <2> DEFINE B == b * b
             P == p * p
  <2>4. B \in Nat /\ P \in Nat /\ B + 1 <= P /\ P * k <= B * k
    BY <1>1, <1>3, <2>1, <2>2, <2>3
  <2> HIDE DEF B, P
  <2>5. (B + 1) * k <= P * k
    BY <1>1, <2>4, Grows
  <2>6. (B + 1) * k = B * k + k /\ B * k \in Nat /\ P * k \in Nat
    BY <1>1, <2>4
  <2> QED BY <1>1, <2>4, <2>5, <2>6
<1>5. p <= b
  BY <1>1, <1>4
<1> QED BY <1>5 DEF p, b

(* The canvas keeps to the budget.                                         *)
LEMMA CanvasIs ==
  ASSUME NEW w \in Nat \ {0}, NEW h \in Nat \ {0}, w <= 4 * MaxWorkPixels, h <= 4 * MaxWorkPixels
  PROVE  LET c == WorkingSize(Size(w, h)) IN
         \/ c = Size(w, h) /\ c.width * c.height <= MaxWorkPixels
         \/ (2 * c.width - 1) * (2 * c.height - 1) <= 4 * MaxWorkPixels
<1> DEFINE M == MaxWorkPixels
<1>1. M \in Nat \ {0}
  BY SourceAssumption
<1>2. CASE w * h <= M
  BY <1>2 DEF WorkingSize, Size
<1>3. CASE ~(w * h <= M)
  <2> DEFINE cw == Max({1, RoundedRoot(w * M, h, w)})
             ch == Max({1, RoundedRoot(h * M, w, h)})
  <2>1. WorkingSize(Size(w, h)) = Size(cw, ch)
    BY <1>3 DEF WorkingSize, Size
  <2>2. w * h > M /\ h * w > M
    BY <1>1, <1>3
  <2>3. cw \in Nat \ {0} /\ (2 * cw - 1) * (2 * cw - 1) * h <= 4 * (w * M)
    BY <1>1, <2>2, EdgeIs
  <2>4. ch \in Nat \ {0} /\ (2 * ch - 1) * (2 * ch - 1) * w <= 4 * (h * M)
    BY <1>1, <2>2, EdgeIs
  <2> HIDE DEF cw, ch
  <2>5. 2 * cw - 1 \in Nat /\ 2 * ch - 1 \in Nat
    BY <2>3, <2>4
  <2>6. (2 * cw - 1) * (2 * ch - 1) <= 4 * M
    BY <1>1, <2>3, <2>4, <2>5, AreaIs
  <2> QED BY <2>1, <2>6 DEF Size
<1> QED BY <1>2, <1>3

(* The corners are drawn on the corners.                                   *)
LEMMA DrawnOnCorners ==
  ASSUME NEW w \in Nat, NEW h \in Nat, NEW o
  PROVE  {Oriented(o, Size(w, h), p) : p \in Corners(Size(w, h))} = Corners(NormalizedSize(Size(w, h), o))
<1> DEFINE raw == Size(w, h)
           all == {Point(0, 0), Point(w, 0), Point(0, h), Point(w, h)}
           swapped == {Point(0, 0), Point(h, 0), Point(0, w), Point(h, w)}
<1>1. \A a, b : Corners(Size(a, b)) = {Point(0, 0), Point(a, 0), Point(0, b), Point(a, b)}
  <2> SUFFICES ASSUME NEW a, NEW b
               PROVE  [x : {0, a}, y : {0, b}] =
                        {Point(0, 0), Point(a, 0), Point(0, b), Point(a, b)}
    BY DEF Corners, Size
  <2>1. ASSUME NEW p \in [x : {0, a}, y : {0, b}]
        PROVE  p \in {Point(0, 0), Point(a, 0), Point(0, b), Point(a, b)}
    <3>1. p = [x |-> p.x, y |-> p.y] /\ p.x \in {0, a} /\ p.y \in {0, b}
      OBVIOUS
    <3> QED BY <3>1 DEF Point
  <2>2. ASSUME NEW p \in {Point(0, 0), Point(a, 0), Point(0, b), Point(a, b)}
        PROVE  p \in [x : {0, a}, y : {0, b}]
    BY DEF Point
  <2> QED BY <2>1, <2>2
<1>2. Corners(raw) = all
  BY <1>1
<1>3. {Oriented(o, raw, p) : p \in all} =
        {Oriented(o, raw, Point(0, 0)), Oriented(o, raw, Point(w, 0)),
         Oriented(o, raw, Point(0, h)), Oriented(o, raw, Point(w, h))}
  OBVIOUS
<1>4. w - w = 0 /\ h - h = 0 /\ w - 0 = w /\ h - 0 = h
  OBVIOUS
<1>5. CASE o \in 5 .. 8
  <2>1. Corners(NormalizedSize(raw, o)) = swapped
    BY <1>1, <1>5 DEF NormalizedSize, Size
  <2>2. {Oriented(o, raw, Point(0, 0)), Oriented(o, raw, Point(w, 0)),
         Oriented(o, raw, Point(0, h)), Oriented(o, raw, Point(w, h))} = swapped
    <3>1. CASE o = 5
      BY <3>1, <1>4 DEF Oriented, Point, Size
    <3>2. CASE o = 6
      BY <3>2, <1>4 DEF Oriented, Point, Size
    <3>3. CASE o = 7
      BY <3>3, <1>4 DEF Oriented, Point, Size
    <3>4. CASE o = 8
      BY <3>4, <1>4 DEF Oriented, Point, Size
    <3> QED BY <1>5, <3>1, <3>2, <3>3, <3>4
  <2> QED BY <1>2, <1>3, <2>1, <2>2
<1>6. CASE o \notin 5 .. 8
  <2>1. Corners(NormalizedSize(raw, o)) = all
    BY <1>2, <1>6 DEF NormalizedSize
  <2>2. {Oriented(o, raw, Point(0, 0)), Oriented(o, raw, Point(w, 0)),
         Oriented(o, raw, Point(0, h)), Oriented(o, raw, Point(w, h))} = all
    <3>1. CASE o = 2
      BY <3>1, <1>4 DEF Oriented, Point, Size
    <3>2. CASE o = 3
      BY <3>2, <1>4 DEF Oriented, Point, Size
    <3>3. CASE o = 4
      BY <3>3, <1>4 DEF Oriented, Point, Size
    <3>4. CASE o \notin 2 .. 8
      BY <3>4 DEF Oriented
    <3> QED BY <1>6, <3>1, <3>2, <3>3, <3>4
  <2> QED BY <1>2, <1>3, <2>1, <2>2
<1> QED BY <1>5, <1>6

-----------------------------------------------------------------------------
(* The metadata.                                                           *)

(* The metadata of a file, given once and before anything that ends the    *)
(* walk, are what the walk finds last.                                     *)
LEMMA WalkFinds ==
  ASSUME NEW f \in File, f.inWindow <= Len(f.parts), NEW stops,
         \A i \in DOMAIN f.parts : f.parts[i].kind = "exif" =>
           /\ {j \in DOMAIN f.parts : f.parts[j].kind = "exif"} = {i} /\ i <= f.inWindow
           /\ \A j \in 1 .. i - 1 : f.parts[j].kind \notin stops \ {"exif"}
  PROVE  LastOf(Walk(f, stops), {"exif"}) = LastOf(f.parts, {"exif"})
<1> DEFINE s == f.parts
           n == f.inWindow
           seen == SubSeq(s, 1, n)
           at == {i \in DOMAIN seen : seen[i].kind \in stops}
           walk == Walk(f, stops)
           Exifs(t) == {i \in DOMAIN t : t[i].kind \in {"exif"}}
<1>1. s \in Seq(FilePart) /\ n \in Nat /\ n <= Len(s) /\ Len(s) \in Nat /\ DOMAIN s = 1 .. Len(s)
  BY DEF File
<1>2. seen \in Seq(FilePart) /\ Len(seen) = n /\ DOMAIN seen = 1 .. n /\ \A i \in 1 .. n : seen[i] = s[i]
  <2>1. \A i \in 1 .. n : s[i] \in FilePart
    BY <1>1
  <2>2. /\ seen \in Seq(FilePart) /\ Len(seen) = IF 1 <= n THEN n - 1 + 1 ELSE 0
        /\ \A i \in 1 .. n - 1 + 1 : seen[i] = s[1 + i - 1]
    BY <1>1, <2>1, SubSeqProperties
  <2>3. Len(seen) = n
    BY <1>1, <2>2
  <2>4. \A i \in 1 .. n : i \in 1 .. n - 1 + 1 /\ 1 + i - 1 = i
    BY <1>1
  <2> HIDE DEF seen
  <2> QED BY <2>2, <2>3, <2>4
<1> HIDE DEF seen
<1>3. PICK m \in 0 .. n : /\ DOMAIN walk = 1 .. m /\ \A i \in 1 .. m : walk[i] = s[i]
                         /\ \A i \in DOMAIN s : s[i].kind = "exif" => i <= m
  <2>1. CASE at = {}
    <3>1. walk = seen
      BY <2>1 DEF Walk, seen
    <3> QED BY <1>1, <1>2, <3>1
  <2>2. CASE at # {}
    <3>1. Min(at) \in at /\ at \subseteq 1 .. n
      <4>1. at \subseteq 1 .. n /\ at \subseteq Nat
        BY <1>1, <1>2
      <4> HIDE DEF at
      <4> QED BY <2>2, <4>1, LeastIs
    <3>2. walk = SubSeq(seen, 1, Min(at))
      BY <2>2 DEF Walk, seen
    <3> DEFINE m == Min(at)
    <3>3. m \in 1 .. n
      BY <3>1
    <3>4. s[m].kind \in stops
      BY <1>2, <3>1, <3>3
    <3> HIDE DEF m, at
    <3>5. DOMAIN walk = 1 .. m /\ \A i \in 1 .. m : walk[i] = s[i]
      <4>1. \A i \in 1 .. m : seen[i] \in FilePart /\ seen[i] = s[i]
        BY <1>1, <1>2, <3>3
      <4>2. /\ SubSeq(seen, 1, m) \in Seq(FilePart) /\ Len(SubSeq(seen, 1, m)) = m - 1 + 1
            /\ \A i \in 1 .. m - 1 + 1 : SubSeq(seen, 1, m)[i] = seen[1 + i - 1]
        BY <3>3, <4>1, SubSeqProperties
      <4>3. Len(SubSeq(seen, 1, m)) = m /\ \A i \in 1 .. m : i \in 1 .. m - 1 + 1 /\ 1 + i - 1 = i
        BY <3>3, <4>2
      <4>4. walk = SubSeq(seen, 1, m)
        BY <3>2 DEF m
      <4> HIDE DEF walk
      <4> QED BY <4>1, <4>2, <4>3, <4>4
    <3>6. ASSUME NEW i \in DOMAIN s, s[i].kind = "exif", ~(i <= m) PROVE FALSE
      <4>1. m \in 1 .. i - 1 /\ m \in DOMAIN s
        BY <1>1, <3>3, <3>6
      <4>2. s[m].kind = "exif"
        BY <3>4, <3>6, <4>1
      <4>3. m = i
        BY <3>6, <4>1, <4>2
      <4> QED BY <1>1, <4>1, <4>3
    <3> QED BY <1>1, <3>3, <3>5, <3>6
  <2> QED BY <2>1, <2>2
<1> HIDE DEF walk
<1>4. Exifs(walk) = Exifs(s)
  BY <1>1, <1>3
<1>5. CASE Exifs(s) = {}
  BY <1>4, <1>5 DEF LastOf, walk
<1>6. CASE Exifs(s) # {}
  <2>1. PICK i \in DOMAIN s : s[i].kind = "exif"
    BY <1>6
  <2>2. Exifs(s) = {i} /\ i \in Int
    BY <1>1, <2>1
  <2>3. Max({i}) = i
    BY <2>2 DEF Max
  <2>4. walk[i] = s[i]
    BY <1>1, <1>3, <2>1
  <2>5. LastOf(walk, {"exif"}) = walk[Max({i})] /\ LastOf(s, {"exif"}) = s[Max({i})]
    BY <1>4, <2>2 DEF LastOf
  <2> QED BY <2>3, <2>4, <2>5 DEF walk
<1> QED BY <1>5, <1>6

(* What the header says of the orientation of a photo whose metadata can   *)
(* be read is what a decoder that honours them turns it by.                *)
LEMMA HeaderIs ==
  ASSUME file \in Samples, LoadError(file) = None, Readable
  PROVE  ParseHeader(file).orientation = Tag(file)
<1> DEFINE s == file.parts
           at == {i \in DOMAIN s : s[i].kind = "exif"}
           found == LastOf(s, {"exif"})
           Finds(stops) == LastOf(Walk(file, stops), {"exif"}) = found
<1>1. file \in File /\ file.inWindow <= Len(s) /\ s \in Seq(FilePart) /\ None \notin FilePart /\ None \notin LoadErrors
  BY LoadingAssumption DEF File
<1>2. \A i \in at : /\ at = {i} /\ s[i].order = "little" /\ i <= file.inWindow
                    /\ \A j \in 1 .. i - 1 : s[j].kind \notin {"frame", "lossy", "data"}
  BY DEF Readable
<1>3. Finds({"frame", "data"})
  <2>1. \A i \in DOMAIN s : s[i].kind = "exif" =>
          /\ at = {i} /\ i <= file.inWindow
          /\ \A j \in 1 .. i - 1 : s[j].kind \notin {"frame", "data"} \ {"exif"}
    BY <1>2
  <2> QED BY <1>1, <2>1, WalkFinds
<1>4. Finds({"exif", "data"})
  <2>1. \A i \in DOMAIN s : s[i].kind = "exif" =>
          /\ at = {i} /\ i <= file.inWindow
          /\ \A j \in 1 .. i - 1 : s[j].kind \notin {"exif", "data"} \ {"exif"}
    BY <1>2
  <2> QED BY <1>1, <2>1, WalkFinds
<1>5. Finds({"exif", "lossy", "frame"})
  <2>1. \A i \in DOMAIN s : s[i].kind = "exif" =>
          /\ at = {i} /\ i <= file.inWindow
          /\ \A j \in 1 .. i - 1 : s[j].kind \notin {"exif", "lossy", "frame"} \ {"exif"}
    BY <1>2
  <2> QED BY <1>1, <2>1, WalkFinds
<1>6. TiffOrientation(found) = Tag(file)
  <2>1. CASE at = {}
    <3>1. found = None
      BY <2>1 DEF LastOf
    <3> QED BY <3>1 DEF TiffOrientation, Tag
  <2>2. CASE at # {}
    <3>1. PICK i \in at : TRUE
      BY <2>2
    <3>2. i \in Int /\ s[i] \in FilePart /\ at = {i}
      BY <1>1, <1>2, <3>1
    <3>3. Max({i}) = i
      BY <3>2 DEF Max
    <3>4. {j \in DOMAIN s : s[j].kind \in {"exif"}} = {i}
      BY <3>2
    <3>5. found = s[i]
      BY <3>3, <3>4 DEF LastOf
    <3>6. found # None /\ found.order = "little"
      BY <1>1, <1>2, <3>1, <3>2, <3>5
    <3> HIDE DEF found
    <3> QED BY <3>6 DEF TiffOrientation, Tag, found
  <2> QED BY <2>1, <2>2
<1>7. ParseHeader(file) # None
  BY <1>1 DEF LoadError, LoadErrors
<1> HIDE DEF found
<1>8. CASE file.format = "jpeg"
  BY <1>3, <1>6, <1>7, <1>8 DEF ParseHeader, found
<1>9. CASE file.format = "png"
  BY <1>4, <1>6, <1>7, <1>9 DEF ParseHeader, found
<1>10. CASE file.format = "webp"
  BY <1>5, <1>6, <1>7, <1>10 DEF ParseHeader, found
<1>11. CASE file.format \notin {"jpeg", "png", "webp"}
  BY <1>7, <1>11 DEF ParseHeader
<1> QED BY <1>8, <1>9, <1>10, <1>11

(* Where the first pixel and the last one of the first row are drawn, for  *)
(* every orientation but the quarter turns.                                *)
LEMMA PlacesAre ==
  ASSUME NEW w \in Nat, NEW h \in Nat, NEW o, o \notin {6, 8}
  PROVE  LET raw == Size(w, h) IN
         <<Oriented(o, raw, Point(0, 0)), Oriented(o, raw, Point(w, 0))>>
           = ExifPlaces(o, NormalizedSize(raw, o))
<1>1. w - w = 0 /\ h - h = 0 /\ w - 0 = w /\ h - 0 = h
  OBVIOUS
<1>2. CASE o = 2
  BY <1>1, <1>2 DEF Oriented, ExifPlaces, NormalizedSize, Point, Size
<1>3. CASE o = 3
  BY <1>1, <1>3 DEF Oriented, ExifPlaces, NormalizedSize, Point, Size
<1>4. CASE o = 4
  BY <1>1, <1>4 DEF Oriented, ExifPlaces, NormalizedSize, Point, Size
<1>5. CASE o = 5
  BY <1>1, <1>5 DEF Oriented, ExifPlaces, NormalizedSize, Point, Size
<1>6. CASE o = 7
  BY <1>1, <1>6 DEF Oriented, ExifPlaces, NormalizedSize, Point, Size
<1>7. CASE o \notin 2 .. 8
  BY <1>1, <1>7 DEF Oriented, ExifPlaces, NormalizedSize, Point, Size
<1> QED BY <1>2, <1>3, <1>4, <1>5, <1>6, <1>7

(* Every photo that loads covers its working bitmap, corner on corner, and *)
(* the bitmap keeps to its budget; and one with readable metadata is       *)
(* upright, quarter turns aside, whichever decoder took it and wherever in *)
(* the file its metadata stand.                                            *)
THEOREM PhotosAreUpright == PicturesSpec => []PhotosUpright
<1>1. Inv => PhotosUpright
  <2> SUFFICES ASSUME Inv, phase = "loaded"
               PROVE  FillsCanvas /\ (Readable /\ TurnLeft \notin {6, 8} => Upright)
    BY DEF PhotosUpright
  <2> DEFINE o == AppliedOrientation(file)
             raw == Decoded(file)
             normalized == NormalizedSize(raw, o)
             M == MaxWorkPixels
  <2>1. file \in Samples /\ LoadError(file) = None /\ picture = Normalize(file)
    BY DEF Inv, PhotoInv
  <2>2. file \in File /\ file.pixels.width <= 4 * M /\ file.pixels.height <= 4 * M
    BY <2>1, LoadingAssumption
  <2>3. PICK w \in Nat \ {0}, h \in Nat \ {0} : raw = Size(w, h) /\ w <= 4 * M /\ h <= 4 * M
    <3>1. /\ file.pixels.width \in Nat \ {0} /\ file.pixels.height \in Nat \ {0}
          /\ file.pixels = Size(file.pixels.width, file.pixels.height)
      BY <2>2 DEF File, Size
    <3>2. \/ raw = Size(file.pixels.width, file.pixels.height)
          \/ raw = Size(file.pixels.height, file.pixels.width)
      BY <3>1 DEF Decoded, NormalizedSize
    <3> QED BY <2>2, <3>1, <3>2
  <2>4. normalized = Size(w, h) \/ normalized = Size(h, w)
    BY <2>3 DEF NormalizedSize, Size
  <2>5. /\ picture.normalized = normalized /\ picture.canvas = WorkingSize(normalized)
        /\ picture.drawn = [p \in Corners(raw) |-> Oriented(o, raw, p)]
    BY <2>1 DEF Normalize
  <2> HIDE DEF o, raw, normalized
  <2>6. FillsCanvas
    <3>1. {picture.drawn[p] : p \in DOMAIN picture.drawn} = {Oriented(o, raw, p) : p \in Corners(raw)}
      BY <2>5
    <3>2. {Oriented(o, raw, p) : p \in Corners(raw)} = Corners(normalized)
      BY <2>3, DrawnOnCorners DEF normalized
    <3>3. LET c == WorkingSize(normalized) IN
          \/ c = normalized /\ c.width * c.height <= M
          \/ (2 * c.width - 1) * (2 * c.height - 1) <= 4 * M
      BY <2>3, <2>4, CanvasIs
    <3> QED BY <2>5, <3>1, <3>2, <3>3 DEF FillsCanvas
  <2>7. ASSUME Readable, TurnLeft \notin {6, 8} PROVE Upright
    <3>1. o = TurnLeft
      BY <2>1, <2>7, HeaderIs DEF AppliedOrientation, TurnLeft, o
    <3>2. Point(0, 0) \in Corners(raw) /\ Point(w, 0) \in Corners(raw) /\ raw.width = w
      BY <2>3 DEF Corners, Point, Size
    <3>3. /\ picture.drawn[Point(0, 0)] = Oriented(o, raw, Point(0, 0))
          /\ picture.drawn[Point(raw.width, 0)] = Oriented(o, raw, Point(w, 0))
      BY <2>5, <3>2
    <3>4. <<Oriented(o, raw, Point(0, 0)), Oriented(o, raw, Point(w, 0))>> = ExifPlaces(o, normalized)
      BY <2>3, <2>7, <3>1, PlacesAre DEF normalized
    <3> QED BY <2>5, <3>1, <3>3, <3>4 DEF Upright, raw
  <2> QED BY <2>6, <2>7
<1> QED BY <1>1, PicturesAlways, PTL

-----------------------------------------------------------------------------
(* The lease: what SaveLease is about.                                     *)

(* The process the image runs: one event loop serves every save.           *)
SingleLoop == \A q, r \in Requests : SameLoop(q, r)

-----------------------------------------------------------------------------
(* Types.                                                                  *)

(* Every step keeps the types.                                             *)
LEMMA LeaseTypeStep == TypeOK /\ [SaveNext]_saveVars => TypeOK'
<1> SUFFICES ASSUME TypeOK, [SaveNext]_saveVars PROVE TypeOK'
  OBVIOUS
<1> USE NoRecAssumption, TimesAssumption DEF TypeOK, Key, Digest, Goto, Reply, Running, Refusals
<1>1. ASSUME NEW r \in Requests, Arrive(r) PROVE TypeOK'
  BY <1>1 DEF Arrive
<1>2. ASSUME NEW r \in Requests, Begin(r) PROVE TypeOK'
  BY <1>2 DEF Begin
<1>3. ASSUME NEW r \in Requests, InsertLease(r) PROVE TypeOK'
  BY <1>3 DEF InsertLease, Record
<1>4. ASSUME NEW r \in Requests, InsertConflict(r) PROVE TypeOK'
  BY <1>4 DEF InsertConflict
<1>5. ASSUME NEW r \in Requests, RowGone(r) \/ RefuseConflict(r) \/ RefuseInProgress(r)
      PROVE TypeOK'
  BY <1>5 DEF RowGone, RefuseConflict, RefuseInProgress
<1>6. ASSUME NEW r \in Requests, Replay(r) PROVE TypeOK'
  <2>1. PICK p \in rec[Key(r)].photo : Reply(r, "select", p)
    BY <1>6 DEF Replay
  <2>2. p \in Requests
    BY <1>6, <2>1 DEF Replay, Record
  <2> QED BY <1>6, <2>1, <2>2 DEF Replay
<1>7. ASSUME NEW r \in Requests, Claim(r) PROVE TypeOK'
  BY <1>7 DEF Claim
<1>8. ASSUME NEW r \in Requests, TakeOver(r) PROVE TypeOK'
  <2>1. Key(r) \in Keys /\ Digest(r) \in Digests /\ start[r] \in Nat
    OBVIOUS
  <2>2. CASE rec[Key(r)] # NoRec
    <3>1. rec[Key(r)] \in Record
      BY <2>1, <2>2
    <3>2. [rec[Key(r)] EXCEPT !.status = "processing", !.digest = Digest(r),
                              !.updated = start[r]] \in Record
      BY <2>1, <3>1 DEF Record
    <3>3. rec' = [rec EXCEPT ![Key(r)] = [rec[Key(r)] EXCEPT
                    !.status = "processing", !.digest = Digest(r), !.updated = start[r]]]
      BY <1>8, <2>1, <2>2 DEF TakeOver
    <3> QED BY <1>8, <2>1, <3>2, <3>3 DEF TakeOver
  <2>3. CASE rec[Key(r)] = NoRec
    BY <1>8, <2>3 DEF TakeOver
  <2> QED BY <2>2, <2>3
<1>9. ASSUME NEW r \in Requests, LeaseError(r) PROVE TypeOK'
  BY <1>9 DEF LeaseError
<1>10. ASSUME NEW r \in Requests, Reject(r) \/ StoreObject(r) \/ CommitFails(r) PROVE TypeOK'
  BY <1>10 DEF Reject, StoreObject, CommitFails, Unlink
<1>11. ASSUME NEW r \in Requests, Commit(r) PROVE TypeOK'
  <2>1. rec' \in [Keys -> Record \cup {NoRec}]
    BY <1>11 DEF Commit, Record
  <2> QED BY <1>11, <2>1 DEF Commit
<1>12. ASSUME NEW r \in Requests, MarkFailed(r) PROVE TypeOK'
  <2>1. Key(r) \in Keys /\ start[r] \in Nat
    OBVIOUS
  <2>2. CASE rec[Key(r)] # NoRec /\ rec[Key(r)].status = "processing"
    <3>1. rec[Key(r)] \in Record
      BY <2>1, <2>2
    <3>2. [rec[Key(r)] EXCEPT !.status = "failed", !.updated = start[r]] \in Record
      BY <2>1, <3>1 DEF Record
    <3>3. rec' = [rec EXCEPT ![Key(r)] =
                    [rec[Key(r)] EXCEPT !.status = "failed", !.updated = start[r]]]
      BY <1>12, <2>1, <2>2 DEF MarkFailed
    <3> QED BY <1>12, <2>1, <3>2, <3>3 DEF MarkFailed
  <2>3. CASE ~(rec[Key(r)] # NoRec /\ rec[Key(r)].status = "processing")
    BY <1>12, <2>3 DEF MarkFailed
  <2> QED BY <2>2, <2>3
<1>13. ASSUME NEW r \in Requests, MarkFailedError(r) PROVE TypeOK'
  BY <1>13 DEF MarkFailedError
<1>14. CASE PurgeIdempotency
  BY <1>14 DEF PurgeIdempotency
<1>15. CASE Tick
  BY <1>15 DEF Tick
<1>16. ASSUME NEW l \in Loops, Crash(l) PROVE TypeOK'
  BY <1>16 DEF Crash
<1>17. CASE UNCHANGED saveVars
  BY <1>17 DEF saveVars
<1> QED
  BY <1>1, <1>2, <1>3, <1>4, <1>5, <1>6, <1>7, <1>8, <1>9, <1>10, <1>11, <1>12, <1>13,
     <1>14, <1>15, <1>16, <1>17 DEF SaveNext, Handler, Proceed

(* Every behaviour keeps the tables and the requests well formed.          *)
THEOREM LeaseTypeCorrect == SaveSpec => []TypeOK
<1>1. SaveInit => TypeOK
  BY TimesAssumption DEF SaveInit, TypeOK, Refusals, Running
<1> QED BY <1>1, LeaseTypeStep, PTL DEF SaveSpec

-----------------------------------------------------------------------------
(* What holds on any number of loops.  Each part is inductive with TypeOK  *)
(* and the parts before it.                                                *)

(* A loop runs one save at a time.                                         *)
OneAtATime ==
  \A q, r \in Requests :
    SameLoop(q, r) /\ pc[q] \in Running /\ pc[r] \in Running => q = r

PhotosAreDone == \A p \in photos : pc[p] = "done"

(* The object of a request that was not answered.                          *)
ObjectFollowsRequest ==
  \A r \in Requests :
    /\ pc[r] \in {"idle", "reading", "insert", "select", "takeover", "work"} =>
         r \notin objects \cup littered
    /\ pc[r] = "stored" => r \in objects /\ r \notin littered
    /\ pc[r] = "failing" => (r \in objects <=> r \in littered)

(* A completed row is the work of the photo in its envelope.               *)
RowOfPhoto(k, p) ==
  Key(p) = k /\ Digest(p) = rec[k].digest /\ rec[k].photo = {p} /\ rec[k].updated = start[p]

CompletedRows ==
  \A k \in Keys : rec[k] # NoRec /\ rec[k].status = "completed" =>
    \E p \in photos : RowOfPhoto(k, p)

AnyLoopInv == TypeOK /\ OneAtATime /\ PhotosAreDone /\ ObjectFollowsRequest /\ CompletedRows

(* What holds on a single loop: nobody who may still commit has a photo of *)
(* its key that is in its window.                                          *)
NoFreshRival ==
  \A r \in Requests : pc[r] \in Holding \cup {"takeover"} =>
    \A p \in photos : Key(p) = Key(r) => ~Fresh(p)

SingleLoopInv == NoFreshRival /\ CommittedPhotoReplayable /\ NoSecondPhotoInWindow

-----------------------------------------------------------------------------
(* Preservation, any number of loops.                                      *)

(* A request that moves on was running; Begin alone starts one.            *)
LEMMA OneAtATimeStep == TypeOK /\ OneAtATime /\ [SaveNext]_saveVars => OneAtATime'
<1> SUFFICES ASSUME TypeOK, OneAtATime, [SaveNext]_saveVars PROVE OneAtATime'
  OBVIOUS
<1> USE DEF TypeOK, OneAtATime, SameLoop, Goto, Reply, Running
<1>1. ASSUME NEW r \in Requests, Begin(r) PROVE OneAtATime'
  BY <1>1 DEF Begin
<1>2. ASSUME NEW r \in Requests, Arrive(r) PROVE OneAtATime'
  BY <1>2 DEF Arrive
<1>3. ASSUME NEW r \in Requests, pc[r] \in Running, NEW to, pc' = [pc EXCEPT ![r] = to]
      PROVE OneAtATime'
  BY <1>3
<1>4. ASSUME NEW r \in Requests, Handler(r), ~Begin(r) PROVE OneAtATime'
  <2>1. pc[r] \in Running /\ \E to : pc' = [pc EXCEPT ![r] = to]
    BY <1>4 DEF Handler, Proceed, InsertLease, InsertConflict, RowGone, RefuseConflict, Replay,
       RefuseInProgress, Claim, TakeOver, LeaseError, Reject, StoreObject, Commit,
       CommitFails, MarkFailed, MarkFailedError
  <2> QED BY <2>1, <1>3
<1>5. ASSUME NEW l \in Loops, Crash(l) PROVE OneAtATime'
  BY <1>5 DEF Crash
<1>6. CASE PurgeIdempotency \/ Tick \/ UNCHANGED saveVars
  BY <1>6 DEF PurgeIdempotency, Tick, saveVars
<1> QED BY <1>1, <1>2, <1>4, <1>5, <1>6 DEF SaveNext

(* A committed photo's request is done and stays so.                       *)
LEMMA PhotosAreDoneStep == TypeOK /\ PhotosAreDone /\ [SaveNext]_saveVars => PhotosAreDone'
<1> SUFFICES ASSUME TypeOK, PhotosAreDone, [SaveNext]_saveVars PROVE PhotosAreDone'
  OBVIOUS
<1> USE DEF TypeOK, PhotosAreDone, Goto, Reply, Running
<1>1. ASSUME NEW r \in Requests, Commit(r) PROVE PhotosAreDone'
  BY <1>1 DEF Commit
<1>2. ASSUME NEW r \in Requests, Arrive(r) \/ Handler(r), ~Commit(r) PROVE PhotosAreDone'
  <2>1. pc[r] # "done" /\ photos' = photos /\ \E to : pc' = [pc EXCEPT ![r] = to]
    BY <1>2 DEF Arrive, Handler, Proceed, Begin, InsertLease, InsertConflict, RowGone, RefuseConflict,
       Replay, RefuseInProgress, Claim, TakeOver, LeaseError, Reject, StoreObject,
       CommitFails, MarkFailed, MarkFailedError
  <2> QED BY <2>1
<1>3. ASSUME NEW l \in Loops, Crash(l) PROVE PhotosAreDone'
  BY <1>3 DEF Crash
<1>4. CASE PurgeIdempotency \/ Tick \/ UNCHANGED saveVars
  BY <1>4 DEF PurgeIdempotency, Tick, saveVars
<1> QED BY <1>1, <1>2, <1>3, <1>4 DEF SaveNext

(* A request has an object once it has stored one, or could not remove it. *)
LEMMA ObjectStep == TypeOK /\ ObjectFollowsRequest /\ [SaveNext]_saveVars => ObjectFollowsRequest'
<1> SUFFICES ASSUME TypeOK, ObjectFollowsRequest, [SaveNext]_saveVars PROVE ObjectFollowsRequest'
  OBVIOUS
<1> USE DEF TypeOK, ObjectFollowsRequest, Goto, Reply, Running
<1>1. ASSUME NEW r \in Requests, StoreObject(r) PROVE ObjectFollowsRequest'
  BY <1>1 DEF StoreObject
<1>5. ASSUME NEW r \in Requests, Reject(r) \/ CommitFails(r) PROVE ObjectFollowsRequest'
  <2>1. pc' = [pc EXCEPT ![r] = "failing"] /\ Unlink(r)
    BY <1>5 DEF Reject, CommitFails
  <2>2. /\ \A q \in Requests : q # r => (q \in objects' <=> q \in objects)
        /\ \A q \in Requests : q # r => (q \in littered' <=> q \in littered)
        /\ pc[r] \in {"work", "stored"} /\ (r \in objects' <=> r \in littered')
    <3>1. pc[r] \in {"work", "stored"} /\ r \notin littered
      BY <1>5 DEF Reject, CommitFails
    <3> QED BY <2>1, <3>1 DEF Unlink
  <2> QED BY <2>1, <2>2
<1>2. ASSUME NEW r \in Requests, Arrive(r) \/ Handler(r), ~StoreObject(r), ~CommitFails(r),
             ~Reject(r)
      PROVE ObjectFollowsRequest'
  <2>1. objects' = objects /\ littered' = littered
    BY <1>2 DEF Arrive, Handler, Proceed, Begin, InsertLease, InsertConflict, RowGone, RefuseConflict,
       Replay, RefuseInProgress, Claim, TakeOver, LeaseError, Commit,
       MarkFailed, MarkFailedError
  <2>2. \/ /\ pc[r] \in {"idle", "reading", "insert", "select", "takeover", "work"}
           /\ \E to : to \notin {"stored", "failing"} /\ pc' = [pc EXCEPT ![r] = to]
        \/ pc' = [pc EXCEPT ![r] = "done"]
        \/ pc' = [pc EXCEPT ![r] = "stranded"]
    BY <1>2 DEF Arrive, Handler, Proceed, Begin, InsertLease, InsertConflict, RowGone, RefuseConflict,
       Replay, RefuseInProgress, Claim, TakeOver, LeaseError, Commit,
       MarkFailed, MarkFailedError
  <2> QED BY <2>1, <2>2
<1>3. ASSUME NEW l \in Loops, Crash(l) PROVE ObjectFollowsRequest'
  BY <1>3 DEF Crash
<1>4. CASE PurgeIdempotency \/ Tick \/ UNCHANGED saveVars
  BY <1>4 DEF PurgeIdempotency, Tick, saveVars
<1> QED BY <1>1, <1>2, <1>3, <1>4, <1>5 DEF SaveNext

(* The steps that leave rows, photos and start times alone.                *)
Quiet == UNCHANGED <<rec, photos, args, start>>

(* The steps that touch neither rows nor photos.                           *)
LEMMA QuietSteps ==
  ASSUME NEW r \in Requests,
         Arrive(r) \/ Handler(r), ~Begin(r), ~InsertLease(r), ~TakeOver(r), ~Commit(r),
         ~MarkFailed(r)
  PROVE  Quiet /\ UNCHANGED now
BY DEF Arrive, Handler, Proceed, InsertConflict, RowGone, RefuseConflict, Replay, RefuseInProgress,
   Claim, LeaseError, Reject, StoreObject, CommitFails, MarkFailedError, Quiet

(* A completed row stays the work of the photo in its envelope.            *)
LEMMA CompletedRowsStep ==
  TypeOK /\ PhotosAreDone /\ CompletedRows /\ [SaveNext]_saveVars => CompletedRows'
<1> SUFFICES ASSUME TypeOK, PhotosAreDone, CompletedRows, [SaveNext]_saveVars,
                    NEW k \in Keys, rec'[k] # NoRec, rec'[k].status = "completed"
             PROVE  \E p \in photos' : RowOfPhoto(k, p)'
  BY DEF CompletedRows
<1> USE DEF TypeOK, Key, Digest, Goto, Reply
<1>1. ASSUME rec'[k] = rec[k], photos \subseteq photos', args' = args,
             \A p \in photos : start'[p] = start[p]
      PROVE  \E p \in photos' : RowOfPhoto(k, p)'
  <2>1. PICK p \in photos : RowOfPhoto(k, p)
    BY <1>1 DEF CompletedRows
  <2> QED BY <1>1, <2>1 DEF RowOfPhoto
<1>2. ASSUME NEW r \in Requests, Begin(r) PROVE \E p \in photos' : RowOfPhoto(k, p)'
  <2>1. \A p \in photos : start'[p] = start[p]
    BY <1>2 DEF Begin, PhotosAreDone
  <2> QED BY <1>1, <1>2, <2>1 DEF Begin
<1>3. ASSUME NEW r \in Requests, Commit(r) PROVE \E p \in photos' : RowOfPhoto(k, p)'
  <2>1. CASE k = Key(r)
    <3>1. r \in photos' /\ RowOfPhoto(k, r)'
      BY <1>3, <2>1 DEF Commit, RowOfPhoto
    <3> QED BY <3>1
  <2>2. CASE k # Key(r)
    BY <1>1, <1>3, <2>2 DEF Commit
  <2> QED BY <2>1, <2>2
<1>4. ASSUME NEW r \in Requests, InsertLease(r) PROVE \E p \in photos' : RowOfPhoto(k, p)'
  <2>1. k # Key(r)
    BY <1>4 DEF InsertLease
  <2> QED BY <1>1, <1>4, <2>1 DEF InsertLease
<1>5. ASSUME NEW r \in Requests, TakeOver(r) PROVE \E p \in photos' : RowOfPhoto(k, p)'
  <2>1. rec'[k] = rec[k]
    BY <1>5, NoRecAssumption DEF TakeOver, Record
  <2> QED BY <1>1, <1>5, <2>1 DEF TakeOver
<1>6. ASSUME NEW r \in Requests, MarkFailed(r) PROVE \E p \in photos' : RowOfPhoto(k, p)'
  <2>1. rec'[k] = rec[k]
    BY <1>6, NoRecAssumption DEF MarkFailed, Record
  <2> QED BY <1>1, <1>6, <2>1 DEF MarkFailed
<1>7. CASE PurgeIdempotency
  BY <1>1, <1>7 DEF PurgeIdempotency
<1>8. CASE Quiet
  BY <1>1, <1>8 DEF Quiet
<1>9. CASE Tick \/ (\E l \in Loops : Crash(l)) \/ UNCHANGED saveVars
  BY <1>8, <1>9 DEF Tick, Crash, saveVars, Quiet
<1> QED BY <1>2, <1>3, <1>4, <1>5, <1>6, <1>7, <1>8, <1>9, QuietSteps DEF SaveNext, Handler, Proceed

(* This much holds on any number of loops.                                 *)
LEMMA AnyLoopInvariant == SaveSpec => []AnyLoopInv
<1>1. SaveInit => AnyLoopInv
  <2>1. SaveInit => TypeOK
    BY TimesAssumption DEF SaveInit, TypeOK, Refusals, Running
  <2>2. SaveInit => OneAtATime /\ PhotosAreDone /\ ObjectFollowsRequest /\ CompletedRows
    BY DEF SaveInit, OneAtATime, PhotosAreDone, ObjectFollowsRequest, CompletedRows, Running
  <2> QED BY <2>1, <2>2 DEF AnyLoopInv
<1>2. AnyLoopInv /\ [SaveNext]_saveVars => AnyLoopInv'
  BY LeaseTypeStep, OneAtATimeStep, PhotosAreDoneStep, ObjectStep, CompletedRowsStep DEF AnyLoopInv
<1> QED BY <1>1, <1>2, PTL DEF SaveSpec

-----------------------------------------------------------------------------
(* Theorems, any number of loops.                                          *)

(* No step gives an answer of other content.                               *)
LEMMA AnswerStep ==
  AnyLoopInv /\ AnswerMatchesContent /\ [SaveNext]_saveVars => AnswerMatchesContent'
<1> SUFFICES ASSUME AnyLoopInv, AnswerMatchesContent, [SaveNext]_saveVars PROVE AnswerMatchesContent'
  OBVIOUS
<1> USE DEF AnyLoopInv, TypeOK, AnswerMatchesContent, Goto, Reply
<1>1. ASSUME photos \subseteq photos', args' = args, NEW r \in Requests,
             NEW a, answer' = [answer EXCEPT ![r] = a],
             a \in Requests => a \in photos' /\ args[a] = args[r]
      PROVE  AnswerMatchesContent'
  BY <1>1
<1>2. ASSUME NEW r \in Requests, Replay(r) PROVE AnswerMatchesContent'
  <2>1. PICK p \in photos : RowOfPhoto(Key(r), p)
    BY <1>2 DEF Replay, CompletedRows, Key
  <2>2. answer' = [answer EXCEPT ![r] = p]
    BY <1>2, <2>1 DEF Replay, RowOfPhoto
  <2>3. args[p] = args[r]
    BY <1>2, <2>1 DEF Replay, RowOfPhoto, Conflicting, Key, Digest
  <2> QED BY <1>1, <1>2, <2>1, <2>2, <2>3 DEF Replay
<1>3. ASSUME NEW r \in Requests, Commit(r) PROVE AnswerMatchesContent'
  BY <1>1, <1>3 DEF Commit
<1>4. ASSUME NEW r \in Requests, RowGone(r) \/ RefuseConflict(r) \/ RefuseInProgress(r)
               \/ LeaseError(r) \/ MarkFailed(r) \/ MarkFailedError(r)
      PROVE  AnswerMatchesContent'
  <2>1. \E a \in Refusals : answer' = [answer EXCEPT ![r] = a]
    BY <1>4 DEF RowGone, RefuseConflict, RefuseInProgress, LeaseError, MarkFailed,
       MarkFailedError, Refusals
  <2>2. photos' = photos /\ args' = args
    BY <1>4 DEF RowGone, RefuseConflict, RefuseInProgress, LeaseError, MarkFailed,
       MarkFailedError
  <2> QED BY <1>1, <2>1, <2>2, AnswerAssumption
<1>5. CASE UNCHANGED <<photos, args, answer>>
  BY <1>5
<1>6. CASE PurgeIdempotency \/ Tick \/ (\E l \in Loops : Crash(l)) \/ UNCHANGED saveVars
  BY <1>5, <1>6 DEF PurgeIdempotency, Tick, Crash, saveVars
<1>7. ASSUME NEW r \in Requests,
             Arrive(r) \/ Begin(r) \/ InsertLease(r) \/ InsertConflict(r) \/ Claim(r)
               \/ TakeOver(r) \/ Reject(r) \/ StoreObject(r) \/ CommitFails(r)
      PROVE  AnswerMatchesContent'
  BY <1>5, <1>7 DEF Arrive, Begin, InsertLease, InsertConflict, Claim, TakeOver, Reject,
     StoreObject, CommitFails
<1> QED BY <1>2, <1>3, <1>4, <1>6, <1>7 DEF SaveNext, Handler, Proceed

(* Whoever is answered with a photo, by its own save or by a replay, gets  *)
(* a committed photo of exactly the content it sent.                       *)
THEOREM AnswersMatch == SaveSpec => []AnswerMatchesContent
<1>1. SaveInit => AnswerMatchesContent
  BY AnswerAssumption DEF SaveInit, AnswerMatchesContent
<1> QED BY <1>1, AnswerStep, AnyLoopInvariant, PTL DEF SaveSpec

(* No step answers a request and leaves its object behind.                 *)
LEMMA OrphanStep ==
  AnyLoopInv /\ AnsweredSaveLeavesNoOrphan /\ [SaveNext]_saveVars => AnsweredSaveLeavesNoOrphan'
<1> SUFFICES ASSUME AnyLoopInv, AnsweredSaveLeavesNoOrphan, [SaveNext]_saveVars
             PROVE  AnsweredSaveLeavesNoOrphan'
  OBVIOUS
<1> USE DEF AnyLoopInv, TypeOK, AnsweredSaveLeavesNoOrphan, ObjectFollowsRequest, PhotosAreDone,
            Goto, Reply, Running
<1>1. ASSUME NEW r \in Requests, Commit(r) PROVE AnsweredSaveLeavesNoOrphan'
  BY <1>1 DEF Commit
<1>2. ASSUME NEW r \in Requests, StoreObject(r) \/ CommitFails(r) \/ Reject(r)
      PROVE  AnsweredSaveLeavesNoOrphan'
  <2>1. /\ photos' = photos /\ \E to \in {"stored", "failing"} : pc' = [pc EXCEPT ![r] = to]
        /\ \A q \in Requests : q # r => (q \in objects' <=> q \in objects)
        /\ \A q \in Requests : q # r => (q \in littered' <=> q \in littered)
    BY <1>2 DEF StoreObject, CommitFails, Reject, Unlink
  <2> QED BY <2>1
<1>3. ASSUME NEW r \in Requests, Arrive(r) \/ Handler(r), ~Commit(r), ~StoreObject(r),
             ~CommitFails(r), ~Reject(r)
      PROVE  AnsweredSaveLeavesNoOrphan'
  <2>1. /\ objects' = objects /\ photos' = photos /\ littered' = littered
        /\ pc[r] \in {"idle", "reading", "insert", "select", "takeover", "work", "failing"}
        /\ \E to : pc' = [pc EXCEPT ![r] = to]
    BY <1>3 DEF Arrive, Handler, Proceed, Begin, InsertLease, InsertConflict, RowGone, RefuseConflict,
       Replay, RefuseInProgress, Claim, TakeOver, LeaseError, MarkFailed,
       MarkFailedError
  <2> QED BY <2>1
<1>4. ASSUME NEW l \in Loops, Crash(l) PROVE AnsweredSaveLeavesNoOrphan'
  BY <1>4 DEF Crash
<1>5. CASE PurgeIdempotency \/ Tick \/ UNCHANGED saveVars
  BY <1>5 DEF PurgeIdempotency, Tick, saveVars
<1> QED BY <1>1, <1>2, <1>3, <1>4, <1>5 DEF SaveNext

(* An answered save has an object exactly when it has a committed photo or *)
(* its removal of the object was refused.                                  *)
THEOREM NoOrphanOfAnsweredSave == SaveSpec => []AnsweredSaveLeavesNoOrphan
<1>1. SaveInit => AnsweredSaveLeavesNoOrphan
  BY DEF SaveInit, AnsweredSaveLeavesNoOrphan
<1> QED BY <1>1, OrphanStep, AnyLoopInvariant, PTL DEF SaveSpec

(* The owner of a row and the request that writes it.                      *)
LEMMA OwnerStep ==
  TypeOK /\ ProcessingHasOwner /\ [SaveNext]_saveVars => ProcessingHasOwner'
<1> DEFINE Owns(r) == pc[r] \in Holding \cup {"stranded", "lost"}
<1> SUFFICES ASSUME TypeOK, ProcessingHasOwner, [SaveNext]_saveVars,
                    NEW k \in Keys, rec'[k] # NoRec, rec'[k].status = "processing"
             PROVE  \E r \in Requests : Key(r)' = k /\ Owns(r)'
  BY DEF ProcessingHasOwner
<1> USE DEF TypeOK, Key, Goto, Reply, Holding, Running
<1>1. args' = args
  BY DEF SaveNext, Handler, Proceed, Arrive, Begin, InsertLease, InsertConflict, RowGone, RefuseConflict,
     Replay, RefuseInProgress, Claim, TakeOver, LeaseError, Reject, StoreObject, Commit,
     CommitFails, MarkFailed, MarkFailedError, PurgeIdempotency, Tick, Crash, saveVars
<1>2. ASSUME rec'[k] = rec[k], \A r \in Requests : Key(r) = k /\ Owns(r) => Owns(r)'
      PROVE  \E r \in Requests : Key(r)' = k /\ Owns(r)'
  BY <1>1, <1>2 DEF ProcessingHasOwner
<1>3. ASSUME NEW r \in Requests, InsertLease(r) \/ TakeOver(r)
      PROVE  \E q \in Requests : Key(q)' = k /\ Owns(q)'
  <2>1. Owns(r)'
    BY <1>3 DEF InsertLease, TakeOver
  <2>2. CASE k = Key(r)
    BY <1>1, <2>1, <2>2
  <2>3. CASE k # Key(r)
    <3>1. rec'[k] = rec[k] /\ \A q \in Requests : Owns(q) => Owns(q)'
      BY <1>3, <2>3 DEF InsertLease, TakeOver
    <3> QED BY <1>2, <3>1
  <2> QED BY <2>2, <2>3
<1>4. ASSUME NEW r \in Requests, Commit(r) \/ MarkFailed(r)
      PROVE  \E q \in Requests : Key(q)' = k /\ Owns(q)'
  <2>1. k # Key(r)
    BY <1>4, NoRecAssumption DEF Commit, MarkFailed, Record
  <2>2. rec'[k] = rec[k]
    BY <1>4, <2>1 DEF Commit, MarkFailed
  <2>3. \A q \in Requests : Key(q) = k /\ Owns(q) => Owns(q)'
    BY <1>4, <2>1 DEF Commit, MarkFailed
  <2> QED BY <1>2, <2>2, <2>3
<1>5. ASSUME NEW r \in Requests,
             Arrive(r) \/ Begin(r) \/ InsertConflict(r) \/ RowGone(r) \/ RefuseConflict(r)
               \/ Replay(r) \/ RefuseInProgress(r) \/ Claim(r) \/ LeaseError(r)
      PROVE  \E q \in Requests : Key(q)' = k /\ Owns(q)'
  <2>1. rec' = rec /\ \E to : pc' = [pc EXCEPT ![r] = to] /\ ~Owns(r)
    BY <1>5 DEF Arrive, Begin, InsertConflict, RowGone, RefuseConflict, Replay,
       RefuseInProgress, Claim, LeaseError
  <2> QED BY <1>2, <2>1
<1>6. ASSUME NEW r \in Requests,
             Reject(r) \/ StoreObject(r) \/ CommitFails(r) \/ MarkFailedError(r)
      PROVE  \E q \in Requests : Key(q)' = k /\ Owns(q)'
  <2>1. rec' = rec /\ \E to \in {"stored", "failing", "stranded"} : pc' = [pc EXCEPT ![r] = to]
    BY <1>6 DEF Reject, StoreObject, CommitFails, MarkFailedError
  <2> QED BY <1>2, <2>1
<1>7. CASE PurgeIdempotency
  BY <1>2, <1>7 DEF PurgeIdempotency
<1>8. ASSUME NEW l \in Loops, Crash(l) PROVE \E q \in Requests : Key(q)' = k /\ Owns(q)'
  BY <1>2, <1>8 DEF Crash
<1>9. CASE Tick \/ UNCHANGED saveVars
  BY <1>2, <1>9 DEF Tick, saveVars
<1> QED BY <1>3, <1>4, <1>5, <1>6, <1>7, <1>8, <1>9 DEF SaveNext, Handler, Proceed

(* No row says "processing" unless somebody works on it, crashed at it, or *)
(* failed to write its failure down.                                       *)
THEOREM LeaseHasOwner == SaveSpec => []ProcessingHasOwner
<1>1. SaveInit => ProcessingHasOwner
  BY DEF SaveInit, ProcessingHasOwner
<1> QED BY <1>1, OwnerStep, LeaseTypeCorrect, PTL DEF SaveSpec

-----------------------------------------------------------------------------
(* A single loop: nobody else commits while a request is running, so what  *)
(* it found out about the row of its key is still true when it commits.    *)

(* Time only makes photos less fresh.                                      *)
LEMMA FreshFades ==
  ASSUME TypeOK, now' \in {now, now + 1}, NEW p, start'[p] = start[p], start[p] \in Nat,
         Fresh(p)'
  PROVE  Fresh(p)
BY TimesAssumption DEF TypeOK, Fresh

(* On one loop, nobody who may commit has a fresh rival after a step either.*)
LEMMA SingleLoopStep ==
  ASSUME SingleLoop
  PROVE  AnyLoopInv /\ SingleLoopInv /\ [SaveNext]_saveVars => SingleLoopInv'
<1> SUFFICES ASSUME AnyLoopInv, SingleLoopInv, [SaveNext]_saveVars PROVE SingleLoopInv'
  OBVIOUS
<1> USE DEF AnyLoopInv, TypeOK, Goto, Reply, Key
<1>1. ASSUME UNCHANGED <<photos, args>>, now' \in {now, now + 1},
             \A p \in photos : start'[p] = start[p],
             \A r \in Requests : pc'[r] \in Holding \cup {"takeover"} =>
               pc[r] \in Holding \cup {"takeover"}
                 \/ \A p \in photos : Key(p) = Key(r) => ~Fresh(p),
             \A p \in photos : Fresh(p) => rec'[Key(p)] = rec[Key(p)]
      PROVE  SingleLoopInv'
  <2>1. \A p \in photos : p \in Requests /\ start[p] \in Nat /\ (Fresh(p)' => Fresh(p))
    BY <1>1, FreshFades
  <2>2. NoFreshRival'
    BY <1>1, <2>1 DEF SingleLoopInv, NoFreshRival
  <2>3. CommittedPhotoReplayable'
    BY <1>1, <2>1 DEF SingleLoopInv, CommittedPhotoReplayable
  <2>4. NoSecondPhotoInWindow'
    BY <1>1, <2>1 DEF SingleLoopInv, NoSecondPhotoInWindow
  <2> QED BY <2>2, <2>3, <2>4 DEF SingleLoopInv
<1>2. ASSUME NEW r \in Requests, Begin(r) PROVE SingleLoopInv'
  <2>1. \A p \in photos : start'[p] = start[p]
    BY <1>2 DEF Begin, PhotosAreDone
  <2> QED BY <1>1, <1>2, <2>1 DEF Begin, Holding
<1>3. ASSUME NEW r \in Requests, InsertLease(r) PROVE SingleLoopInv'
  <2>1. \A p \in photos : Key(p) = Key(r) => ~Fresh(p)
    BY <1>3 DEF InsertLease, SingleLoopInv, CommittedPhotoReplayable
  <2>2. \A p \in photos : Fresh(p) => rec'[Key(p)] = rec[Key(p)]
    BY <1>3, <2>1 DEF InsertLease
  <2> QED BY <1>1, <1>3, <2>1, <2>2 DEF InsertLease
<1>4. ASSUME NEW r \in Requests, Claim(r) PROVE SingleLoopInv'
  <2>1. \A p \in photos : Key(p) = Key(r) => ~Fresh(p)
    BY <1>4 DEF Claim, SingleLoopInv, CommittedPhotoReplayable
  <2> QED BY <1>1, <1>4, <2>1 DEF Claim
<1>5. ASSUME NEW r \in Requests, TakeOver(r) PROVE SingleLoopInv'
  <2>1. \A p \in photos : Key(p) = Key(r) => ~Fresh(p)
    BY <1>5 DEF TakeOver, SingleLoopInv, NoFreshRival
  <2>2. \A p \in photos : Fresh(p) => rec'[Key(p)] = rec[Key(p)]
    BY <1>5, <2>1 DEF TakeOver
  <2> QED BY <1>1, <1>5, <2>1, <2>2 DEF TakeOver
<1>6. ASSUME NEW r \in Requests, MarkFailed(r) PROVE SingleLoopInv'
  <2>1. \A p \in photos : Fresh(p) => rec'[Key(p)] = rec[Key(p)]
    BY <1>6 DEF MarkFailed, SingleLoopInv, CommittedPhotoReplayable
  <2> QED BY <1>1, <1>6, <2>1 DEF MarkFailed, Holding
<1>7. ASSUME NEW r \in Requests, Commit(r) PROVE SingleLoopInv'
  <2>1. r \notin photos /\ photos' = photos \cup {r} /\ UNCHANGED <<args, start, now>>
    BY <1>7 DEF Commit, PhotosAreDone
  <2>2. \A p \in photos : Key(p) = Key(r) => ~Fresh(p)
    BY <1>7 DEF Commit, SingleLoopInv, NoFreshRival, Holding
  <2>3. \A q \in Requests : pc'[q] \notin Holding \cup {"takeover"}
    BY <1>7 DEF Commit, OneAtATime, SingleLoop, Holding, Running
  <2>4. NoFreshRival'
    BY <2>3 DEF NoFreshRival
  <2>5. CommittedPhotoReplayable'
    <3> SUFFICES ASSUME NEW p \in photos', Fresh(p)'
                 PROVE  /\ rec'[Key(p)] # NoRec /\ rec'[Key(p)].status = "completed"
                        /\ rec'[Key(p)].photo = {p}
      BY <2>1 DEF CommittedPhotoReplayable
    <3>1. Fresh(p)
      BY <2>1 DEF Fresh
    <3>2. CASE p = r
      <4>1. rec'[Key(r)] \in Record /\ rec'[Key(r)].status = "completed"
              /\ rec'[Key(r)].photo = {r}
        BY <1>7 DEF Commit, Record, Digest
      <4> QED BY <3>2, <4>1, NoRecAssumption
    <3>3. CASE p \in photos
      <4>1. Key(p) # Key(r)
        BY <2>2, <3>1, <3>3
      <4>2. rec'[Key(p)] = rec[Key(p)]
        BY <1>7, <4>1 DEF Commit
      <4> QED BY <3>1, <3>3, <4>2 DEF SingleLoopInv, CommittedPhotoReplayable
    <3> QED BY <2>1, <3>2, <3>3
  <2>6. NoSecondPhotoInWindow'
    BY <2>1, <2>2 DEF SingleLoopInv, NoSecondPhotoInWindow, Fresh
  <2> QED BY <2>4, <2>5, <2>6 DEF SingleLoopInv
<1>8. CASE PurgeIdempotency
  <2>1. \A p \in photos : Fresh(p) => ~PastWindow(Key(p))
    <3> SUFFICES ASSUME NEW p \in photos, Fresh(p) PROVE ~PastWindow(Key(p))
      OBVIOUS
    <3>1. Key(p) \in Keys
      OBVIOUS
    <3>2. rec[Key(p)] # NoRec /\ rec[Key(p)].status = "completed" /\ rec[Key(p)].photo = {p}
      BY DEF SingleLoopInv, CommittedPhotoReplayable
    <3>3. rec[Key(p)].updated = start[p]
      <4>1. PICK q \in photos : RowOfPhoto(Key(p), q)
        BY <3>1, <3>2 DEF CompletedRows
      <4>2. p = q
        BY <3>2, <4>1 DEF RowOfPhoto
      <4> QED BY <4>1, <4>2 DEF RowOfPhoto
    <3>4. start[p] \in Nat /\ start[p] > now - Window
      BY TimesAssumption DEF Fresh
    <3> QED BY <3>3, <3>4, TimesAssumption DEF PastWindow
  <2>2. \A p \in photos : Fresh(p) => rec'[Key(p)] = rec[Key(p)]
    BY <1>8, <2>1 DEF PurgeIdempotency
  <2> QED BY <1>1, <1>8, <2>2 DEF PurgeIdempotency
<1>9. ASSUME NEW r \in Requests, Arrive(r) \/ Handler(r), ~Begin(r), ~InsertLease(r),
             ~TakeOver(r), ~Commit(r), ~MarkFailed(r), ~Claim(r)
      PROVE  SingleLoopInv'
  <2>1. Quiet /\ now' = now
    BY <1>9, QuietSteps
  <2>2. \E to : pc' = [pc EXCEPT ![r] = to]
          /\ (to \in Holding \cup {"takeover"} => pc[r] \in Holding \cup {"takeover"})
    BY <1>9 DEF Arrive, Handler, Proceed, InsertConflict, RowGone, RefuseConflict, Replay,
       RefuseInProgress, LeaseError, Reject, StoreObject, CommitFails, MarkFailedError, Holding
  <2> QED BY <1>1, <2>1, <2>2 DEF Quiet
<1>10. ASSUME NEW l \in Loops, Crash(l) PROVE SingleLoopInv'
  BY <1>1, <1>10 DEF Crash, Holding, Running
<1>11. CASE Tick \/ UNCHANGED saveVars
  BY <1>1, <1>11 DEF Tick, saveVars
<1> QED BY <1>2, <1>3, <1>4, <1>5, <1>6, <1>7, <1>8, <1>9, <1>10, <1>11 DEF SaveNext

(* On one loop, the whole holds always.                                    *)
LEMMA SingleLoopInvariant ==
  ASSUME SingleLoop
  PROVE  SaveSpec => []SingleLoopInv
<1>1. SaveInit => SingleLoopInv
  BY DEF SaveInit, SingleLoopInv, NoFreshRival, CommittedPhotoReplayable, NoSecondPhotoInWindow,
     Holding
<1>2. AnyLoopInv /\ SingleLoopInv /\ [SaveNext]_saveVars => SingleLoopInv'
  BY SingleLoopStep
<1> QED BY <1>1, <1>2, AnyLoopInvariant, PTL DEF SaveSpec

(* One process: a committed photo can be replayed for its whole window.    *)
THEOREM CommittedIsReplayable ==
  ASSUME SingleLoop
  PROVE  SaveSpec => []CommittedPhotoReplayable
<1>1. SingleLoopInv => CommittedPhotoReplayable
  BY DEF SingleLoopInv
<1> QED BY <1>1, SingleLoopInvariant, PTL

(* One process: an idempotency key makes one photo and one KEY per window. *)
THEOREM OnePhotoPerWindow ==
  ASSUME SingleLoop
  PROVE  SaveSpec => []NoSecondPhotoInWindow
<1>1. SingleLoopInv => NoSecondPhotoInWindow
  BY DEF SingleLoopInv
<1> QED BY <1>1, SingleLoopInvariant, PTL

=============================================================================

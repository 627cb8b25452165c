--------------------------- MODULE StagingProofs ---------------------------
(***************************************************************************)
(* Proofs about Staging, for any number of visits, contents, idempotency   *)
(* keys, sessions and restarts.                                            *)
(***************************************************************************)
EXTENDS Staging, TLAPS

Carries(v) == wire[v].state \in {"sent", "saved"} /\ wire[v].req.session # 0
Answered(v) == panel[v].stage \in {"done", "deleting"}
Unanswered(v) == panel[v].stage \in {"idle", "confirm", "uploading", "error"}

(* The session of the next request with a cookie is this one or a later one.*)
NextSession == IF cookie = 0 THEN sessions + 1 ELSE sessions

(* What the server has handled for visit v, or may yet handle.             *)
Asked(v) == {r \in photos \cup ghosts : r.key.visit = v}

(* A panel and its call are at the same point.                             *)
StageOk(v) ==
  /\ wire[v].state \in {"session", "session set", "sent", "saved", "no session"}
       => panel[v].stage = "uploading"
  /\ wire[v].state \in {"delete", "deleted"} => panel[v].stage = "deleting"
  /\ wire[v].state = "failed" => panel[v].stage \in {"uploading", "deleting"}
  /\ panel[v].stage = "absent" <=> v \notin visited
  /\ panel[v].stage # "absent" => panel[v].content \in Contents

(* The key of a panel that uploads is its own, and its call carries it;    *)
(* what a panel shows, and deletes, is a photo of the server.              *)
KeyOk(v) ==
  /\ panel[v].stage \in {"uploading", "error"} => panel[v].key # None
  /\ Unanswered(v) /\ panel[v].key # None =>
       panel[v].key.visit = v /\ panel[v].key.n <= panel[v].drawn
  /\ wire[v].state \in {"sent", "saved", "no session"} =>
       /\ wire[v].req \in Request
       /\ wire[v].req.key = panel[v].key /\ wire[v].req.content = panel[v].content
       /\ wire[v].req.session \leq sessions
  /\ wire[v].state = "no session" => wire[v].req.session = 0
  /\ wire[v].state = "saved" => wire[v].req.session # 0 /\ wire[v].req \in photos
  /\ Answered(v) => panel[v].photo \in photos /\ panel[v].photo.key = panel[v].key
  /\ wire[v].state = "deleted" => panel[v].photo \in deleted

(* A request is of a visit there was, with what its panel showed.          *)
Within(r) ==
  /\ r.session \leq sessions /\ r.key.visit \in visited
  /\ r.key.n \leq panel[r.key.visit].drawn
  /\ r.content = panel[r.key.visit].content

AskedInv == cookie \in {0, sessions} /\ \A r \in photos \cup ghosts : Within(r)

(* A key that may still be uploaded with names no photo that anybody       *)
(* refers to: not a deleted one, not the receipt's, not another panel's.   *)
FreshOk(v) ==
  Unanswered(v) /\ panel[v].key # None =>
    /\ \A r \in deleted : r.key # panel[v].key
    /\ staged # None => staged.photo.key # panel[v].key
    /\ \A u \in Visits : Answered(u) => panel[u].photo.key # panel[v].key

(* Sessions only grow, so a request with a key that was given up belongs   *)
(* to an earlier session than any that is still to come, unless its photo  *)
(* is deleted.                                                             *)
OrderAt(v, r) ==
  /\ Carries(v) => r.session \leq wire[v].req.session
  /\ Answered(v) /\ panel[v].photo.key.visit = v => r.session \leq panel[v].photo.session
  /\ r \notin deleted /\ r.key # panel[v].key =>
       r.session < NextSession /\ (Carries(v) => r.session < wire[v].req.session)
  /\ wire[v].state \in {"sent", "no session"} /\ wire[v].req.session = 0 =>
       r.session < NextSession
Apart(r, q) == r \notin deleted /\ q \notin deleted /\ r.key # q.key => r.session # q.session
OrderOk(v) ==
  /\ \A r \in Asked(v) : OrderAt(v, r)
  /\ \A r, q \in Asked(v) : Apart(r, q)

StageInv == \A v \in Visits : StageOk(v)
KeyInv == \A v \in Visits : KeyOk(v)
FreshInv == \A v \in Visits : FreshOk(v)
OrderInv == \A v \in Visits : OrderOk(v)

Inv ==
  /\ TypeOK /\ StageInv /\ KeyInv /\ AskedInv /\ FreshInv /\ OrderInv
  /\ ReceiptMatchesPhoto

-----------------------------------------------------------------------------
(* These are stages.                                                       *)
LEMMA AreStages ==
  /\ "idle" \in Stages /\ "confirm" \in Stages /\ "done" \in Stages
  /\ "deleting" \in Stages /\ "error" \in Stages
  BY DEF Stages

(* A panel and a call have their fields, each of its kind.                 *)
LEMMA Fields ==
  ASSUME TypeOK, NEW v \in Visits
  PROVE  /\ panel[v] \in PanelState /\ wire[v] \in Call
         /\ panel[v].stage \in Stages
         /\ panel[v].key \in IdemKey \cup {None}
         /\ panel[v].drawn \in Nat /\ panel[v].drawn <= MaxKeys
         /\ panel[v].photo \in Photo \cup {None}
         /\ panel[v].attempt \in 0 .. 1
         /\ wire[v].state \in {"none", "session", "session set", "sent", "saved",
                               "no session", "failed", "delete", "deleted"}
         /\ wire[v].req \in Request \cup {None}
<1>1. panel[v] \in PanelState /\ wire[v] \in Call
  BY DEF TypeOK
<1>2. panel[v].drawn \in 0 .. MaxKeys
  BY <1>1 DEF PanelState
<1>3. panel[v].drawn \in Nat /\ panel[v].drawn <= MaxKeys
  BY <1>2, StagingAssumption
<1>4. QED
  BY <1>1, <1>3 DEF PanelState, Call

(* The buttons are those of their stages.                                  *)
LEMMA Offered ==
  ASSUME TypeOK, NEW v \in Visits
  PROVE  /\ Clicks(v, "stage") => panel[v].stage = "idle"
         /\ Clicks(v, "cancel") => panel[v].stage = "confirm"
         /\ Clicks(v, "back") => panel[v].stage = "error"
         /\ Clicks(v, "confirm and upload") => panel[v].stage = "confirm"
         /\ Clicks(v, "retry") => panel[v].stage = "error"
         /\ Clicks(v, "delete") => panel[v].stage = "done"
<1>1. /\ Offers["absent"] = {} /\ Offers["uploading"] = {} /\ Offers["deleting"] = {}
      /\ Offers["idle"] = {"stage"} /\ Offers["confirm"] = {"confirm and upload", "cancel"}
      /\ Offers["done"] = {"delete"} /\ Offers["error"] = {"retry", "back"}
  BY DEF Offers
<1>2. panel[v].stage \in Stages
  BY Fields
<1>3. ASSUME NEW s \in Stages
      PROVE  /\ "stage" \in Offers[s] => s = "idle"
             /\ "cancel" \in Offers[s] => s = "confirm"
             /\ "back" \in Offers[s] => s = "error"
             /\ "confirm and upload" \in Offers[s] => s = "confirm"
             /\ "retry" \in Offers[s] => s = "error"
             /\ "delete" \in Offers[s] => s = "done"
  BY <1>1, <1>3 DEF Stages
<1>4. QED
  BY <1>2, <1>3 DEF Clicks

(* A request with a session is what a photo is stored as.                  *)
LEMMA StoredRequest ==
  ASSUME NEW r \in Request, r.session # 0
  PROVE  r \in Photo
  BY StagingAssumption DEF Request, Photo

(* Idempotency keys are drawn in order.                                    *)
LEMMA Drawn ==
  ASSUME NEW v \in Visits, TypeOK, CanDraw(v)
  PROVE  /\ NewKey(v) \in IdemKey /\ NewKey(v) # None
         /\ NewKey(v).visit = v /\ NewKey(v).n = panel[v].drawn + 1
         /\ panel[v].drawn + 1 \in 0 .. MaxKeys
<1>1. panel[v].drawn \in Nat
  BY Fields
<1>2. NewKey(v) \in IdemKey
  BY <1>1, StagingAssumption DEF NewKey, CanDraw, IdemKey
<1>3. QED
  BY <1>1, <1>2, StagingAssumption DEF NewKey, CanDraw

(* A stage, a photo or a key is set in a panel, and a state in a call.     *)
LEMMA StageIsPanel ==
  ASSUME NEW p \in PanelState,
         NEW s \in Stages
  PROVE  LET q == [p EXCEPT !.stage = s] IN
         /\ q \in PanelState /\ q.stage = s /\ q.key = p.key /\ q.drawn = p.drawn
         /\ q.photo = p.photo /\ q.content = p.content /\ q.attempt = p.attempt
  BY DEF PanelState

(* A photo is set.                                                         *)
LEMMA PhotoIsPanel ==
  ASSUME NEW p \in PanelState, NEW x \in Photo \cup {None}
  PROVE  LET q == [p EXCEPT !.photo = x] IN
         /\ q \in PanelState /\ q.photo = x /\ q.stage = p.stage /\ q.key = p.key
         /\ q.drawn = p.drawn /\ q.content = p.content /\ q.attempt = p.attempt
  BY DEF PanelState

(* A key is set.                                                           *)
LEMMA KeyIsPanel ==
  ASSUME NEW p \in PanelState, NEW k \in IdemKey \cup {None}
  PROVE  LET q == [p EXCEPT !.key = k] IN
         /\ q \in PanelState /\ q.key = k /\ q.stage = p.stage /\ q.photo = p.photo
         /\ q.drawn = p.drawn /\ q.content = p.content /\ q.attempt = p.attempt
  BY DEF PanelState

(* A state is set.                                                         *)
LEMMA StateIsCall ==
  ASSUME NEW c \in Call,
         NEW s \in {"none", "session", "session set", "sent", "saved", "no session",
                    "failed", "delete", "deleted"}
  PROVE  LET d == [c EXCEPT !.state = s] IN d \in Call /\ d.state = s /\ d.req = c.req
  BY DEF Call

(* No call is a call.                                                      *)
LEMMA QuietIsCall == Quiet \in Call /\ Quiet.state = "none"
  BY DEF Quiet, Call

(* A panel that starts an upload, with the key it had or with a new one.   *)
LEMMA StartedIsPanel ==
  ASSUME NEW p \in PanelState
  PROVE  [p EXCEPT !.stage = "uploading", !.attempt = 0] \in PanelState
<1> DEFINE q == [p EXCEPT !.stage = "uploading"]
<1>1. q \in PanelState
  BY DEF PanelState, Stages
<1>2. [q EXCEPT !.attempt = 0] \in PanelState
  <2> HIDE DEF q
  <2>1. 0 \in 0 .. 1
    OBVIOUS
  <2>2. QED
    BY <1>1, <2>1 DEF PanelState
<1>3. QED
  BY <1>2

(* ... and a drawn key.                                                    *)
LEMMA KeyedIsPanel ==
  ASSUME NEW p \in PanelState, NEW k \in IdemKey \cup {None}, NEW d \in 0 .. MaxKeys
  PROVE  [p EXCEPT !.key = k, !.drawn = d] \in PanelState
<1>1. [p EXCEPT !.key = k] \in PanelState
  BY DEF PanelState
<1>2. [[p EXCEPT !.key = k] EXCEPT !.drawn = d] \in PanelState
  BY <1>1 DEF PanelState
<1>3. QED
  BY <1>2

(* What a click on "Confirm and upload" or "Retry saving" does.            *)
LEMMA UploadEffect ==
  ASSUME Inv, NEW v \in Visits, Upload(v)
  PROVE  /\ \A w \in Visits : w # v => panel'[w] = panel[w] /\ wire'[w] = wire[w]
         /\ panel'[v] \in PanelState /\ wire'[v] \in Call
         /\ panel[v].stage \in {"confirm", "error"} /\ panel'[v].stage = "uploading"
         /\ panel'[v].photo = panel[v].photo /\ panel'[v].content = panel[v].content
         /\ \/ /\ panel[v].key # None /\ panel'[v].key = panel[v].key
               /\ panel'[v].drawn = panel[v].drawn
            \/ /\ panel[v].key = None /\ panel'[v].key # None
               /\ panel'[v].key \in IdemKey
               /\ panel'[v].key.visit = v /\ panel'[v].key.n = panel[v].drawn + 1
               /\ panel'[v].drawn = panel[v].drawn + 1
         /\ \/ wire'[v].state = "session"
            \/ /\ wire'[v].state = "sent" /\ wire'[v].req \in Request
               /\ wire'[v].req.session = cookie
               /\ wire'[v].req.key = panel'[v].key
               /\ wire'[v].req.content = panel[v].content
         /\ panel' \in [Visits -> PanelState] /\ wire' \in [Visits -> Call]
<1> USE DEF Inv
<1>1. /\ panel[v] \in PanelState /\ panel[v].drawn \in Nat /\ wire[v] \in Call
      /\ panel[v].stage \in {"confirm", "error"}
      /\ panel \in [Visits -> PanelState] /\ wire \in [Visits -> Call]
  BY Fields, Offered DEF Upload, TypeOK
<1>2. \A w \in Visits : w # v => panel'[w] = panel[w] /\ wire'[w] = wire[w]
  BY <1>1 DEF Upload, Begin
<1>3. \/ /\ panel[v].key # None /\ panel'[v] = Uploading(v, panel[v].key)
      \/ /\ panel[v].key = None /\ CanDraw(v) /\ panel'[v] = Uploading(v, NewKey(v))
  BY <1>1 DEF Upload
<1>4. /\ panel'[v] \in PanelState /\ panel'[v].stage = "uploading"
      /\ panel'[v].photo = panel[v].photo /\ panel'[v].content = panel[v].content
      /\ \/ /\ panel[v].key # None /\ panel'[v].key = panel[v].key
            /\ panel'[v].drawn = panel[v].drawn
         \/ /\ panel[v].key = None /\ panel'[v].key # None
            /\ panel'[v].key \in IdemKey
            /\ panel'[v].key.visit = v /\ panel'[v].key.n = panel[v].drawn + 1
            /\ panel'[v].drawn = panel[v].drawn + 1
  <2>1. CASE panel[v].key # None /\ panel'[v] = Uploading(v, panel[v].key)
    <3>1. panel[v].key.n <= panel[v].drawn
      BY <1>1, <2>1 DEF KeyInv, KeyOk, Unanswered
    <3>2. panel[v].key # NewKey(v)
      BY <3>1, <1>1 DEF NewKey
    <3>3. panel'[v] = [panel[v] EXCEPT !.stage = "uploading", !.attempt = 0]
      BY <2>1, <3>2, <1>1 DEF Uploading, PanelState
    <3>4. panel'[v] \in PanelState
      BY <3>3, <1>1, StartedIsPanel
    <3>5. QED
      BY <2>1, <3>3, <3>4, <1>1 DEF PanelState
  <2>2. CASE panel[v].key = None /\ CanDraw(v) /\ panel'[v] = Uploading(v, NewKey(v))
    <3>1. /\ NewKey(v) \in IdemKey /\ NewKey(v) # None
          /\ NewKey(v).visit = v /\ NewKey(v).n = panel[v].drawn + 1
          /\ panel[v].drawn + 1 \in 0 .. MaxKeys
      BY Drawn, <2>2
    <3>2. panel'[v] = [panel[v] EXCEPT !.stage = "uploading", !.attempt = 0,
                         !.key = NewKey(v), !.drawn = panel[v].drawn + 1]
      BY <2>2, <1>1 DEF Uploading, PanelState
    <3>3. panel'[v] \in PanelState
      <4> DEFINE q == [panel[v] EXCEPT !.stage = "uploading", !.attempt = 0]
      <4>1. q \in PanelState
        BY <1>1, StartedIsPanel
      <4>2. [q EXCEPT !.key = NewKey(v), !.drawn = panel[v].drawn + 1] \in PanelState
        <5> HIDE DEF q
        <5>1. QED
          BY <3>1, <4>1, KeyedIsPanel
      <4>3. QED
        BY <3>2, <4>2
    <3>4. QED
      BY <2>2, <3>1, <3>2, <3>3, <1>1 DEF PanelState
  <2>3. QED
    BY <1>3, <2>1, <2>2
<1>5. wire'[v] \in Call /\
      (\/ wire'[v].state = "session"
       \/ /\ wire'[v].state = "sent" /\ wire'[v].req \in Request
          /\ wire'[v].req.session = cookie
          /\ wire'[v].req.key = panel'[v].key
          /\ wire'[v].req.content = panel[v].content)
  <2>1. panel[v].content \in Contents
    BY <1>1 DEF StageInv, StageOk
  <2>2. panel'[v].key \in IdemKey
    BY <1>4, <1>1 DEF PanelState
  <2>3. cookie \in 0 .. MaxSessions
    BY DEF TypeOK
  <2>4. \/ wire'[v] = [state |-> "session", req |-> None]
        \/ wire'[v] = [state |-> "sent",
             req |-> [session |-> cookie, key |-> panel'[v].key, content |-> panel[v].content]]
    BY <1>1 DEF Upload, Begin
  <2>5. CASE wire'[v] = [state |-> "session", req |-> None]
    BY <2>5 DEF Call
  <2>6. CASE wire'[v] = [state |-> "sent",
             req |-> [session |-> cookie, key |-> panel'[v].key, content |-> panel[v].content]]
    <3>1. wire'[v].req \in Request
      BY <2>1, <2>2, <2>3, <2>6 DEF Request
    <3>2. QED
      BY <2>6, <3>1 DEF Call
  <2>7. QED
    BY <2>4, <2>5, <2>6
<1>6. panel' \in [Visits -> PanelState] /\ wire' \in [Visits -> Call]
  <2>1. panel' = [w \in Visits |-> panel'[w]] /\ wire' = [w \in Visits |-> wire'[w]]
    BY <1>1 DEF Upload, Begin
  <2>2. \A w \in Visits : panel'[w] \in PanelState /\ wire'[w] \in Call
    BY <1>1, <1>2, <1>4, <1>5
  <2>3. QED
    BY <2>1, <2>2
<1>7. QED
  BY <1>1, <1>2, <1>4, <1>5, <1>6

(* What a panel's own steps do, field by field.                            *)
Step(v) ==
  /\ \A w \in Visits : w # v => panel'[w] = panel[w] /\ wire'[w] = wire[w]
  /\ panel' \in [Visits -> PanelState] /\ wire' \in [Visits -> Call]

(* A step gives its own visit a panel and a call, and leaves the others'.  *)
LEMMA SetPanel ==
  ASSUME TypeOK, NEW v \in Visits, NEW p \in PanelState, NEW c \in Call,
         panel' = [panel EXCEPT ![v] = p], wire' = [wire EXCEPT ![v] = c]
  PROVE  Step(v) /\ panel'[v] = p /\ wire'[v] = c
  BY DEF TypeOK, Step

(* Only the call changes.                                                  *)
LEMMA SetCall ==
  ASSUME TypeOK, NEW v \in Visits, NEW c \in Call,
         UNCHANGED panel, wire' = [wire EXCEPT ![v] = c]
  PROVE  Step(v) /\ panel'[v] = panel[v] /\ wire'[v] = c
  BY DEF TypeOK, Step

(* A new panel is idle, or done when there is a receipt.                   *)
LEMMA EnterFinalEffect ==
  ASSUME Inv, NEW v \in Visits, EnterFinal(v)
  PROVE  /\ Step(v) /\ wire'[v] = wire[v]
         /\ panel[v].stage = "absent" /\ panel'[v].content = content
         /\ panel'[v].drawn = 0
         /\ \/ staged = None /\ panel'[v].stage = "idle" /\ panel'[v].key = None
            \/ /\ staged # None /\ panel'[v].stage = "done"
               /\ panel'[v].photo = staged.photo /\ panel'[v].key = staged.photo.key
<1>1. /\ TypeOK /\ panel[v].stage = "absent"
  BY DEF Inv, StageInv, StageOk, EnterFinal
<1>2. content \in Contents /\ 0 \in 0 .. MaxKeys /\ 0 \in 0 .. 1
  BY <1>1, StagingAssumption DEF TypeOK
<1> DEFINE p == IF staged = None THEN [Absent EXCEPT !.stage = "idle", !.content = content]
       ELSE [Absent EXCEPT !.stage = "done", !.content = content,
                           !.photo = staged.photo, !.key = staged.photo.key]
<1>3. /\ p \in PanelState /\ p.content = content /\ p.drawn = 0
      /\ \/ staged = None /\ p.stage = "idle" /\ p.key = None
         \/ /\ staged # None /\ p.stage = "done"
            /\ p.photo = staged.photo /\ p.key = staged.photo.key
  <2>1. CASE staged = None
    <3>1. p = [stage |-> "idle", key |-> None, drawn |-> 0, photo |-> None,
               ready |-> FALSE, attempt |-> 0, content |-> content]
      BY <2>1 DEF Absent
    <3>2. QED
      BY <1>2, <2>1, <3>1, AreStages DEF PanelState
  <2>2. CASE staged # None
    <3>1. staged.photo \in Photo /\ staged.photo.key \in IdemKey
      BY <1>1, <2>2 DEF TypeOK, Receipt, Photo
    <3>2. p = [stage |-> "done", key |-> staged.photo.key, drawn |-> 0,
               photo |-> staged.photo, ready |-> FALSE, attempt |-> 0, content |-> content]
      BY <2>2 DEF Absent
    <3>3. QED
      BY <1>2, <2>2, <3>1, <3>2, AreStages DEF PanelState
  <2>3. QED
    BY <2>1, <2>2
<1>4. panel' = [panel EXCEPT ![v] = p] /\ wire' = wire
  BY DEF EnterFinal
<1> HIDE DEF p
<1>5. QED
  BY <1>1, <1>3, <1>4 DEF Step, TypeOK

(* A request carries the cookie there is and what the panel shows.         *)
LEMMA SendEffect ==
  ASSUME Inv, NEW v \in Visits, Send(v)
  PROVE  /\ Step(v) /\ panel[v].stage = "uploading" /\ panel'[v].stage = "uploading"
         /\ panel'[v].key = panel[v].key /\ panel'[v].drawn = panel[v].drawn
         /\ panel'[v].photo = panel[v].photo /\ panel'[v].content = panel[v].content
         /\ wire'[v].state = "sent" /\ wire'[v].req \in Request
         /\ wire'[v].req.session = cookie /\ wire'[v].req.key = panel[v].key
         /\ wire'[v].req.content = panel[v].content
<1>1. /\ TypeOK /\ panel[v] \in PanelState /\ panel[v].stage = "uploading"
      /\ panel[v].key \in IdemKey /\ panel[v].content \in Contents
      /\ cookie \in 0 .. MaxSessions
  BY Fields DEF Inv, StageInv, StageOk, KeyInv, KeyOk, Send, TypeOK
<1> DEFINE p == [panel[v] EXCEPT !.ready = TRUE]
           r == [session |-> cookie, key |-> panel[v].key, content |-> panel[v].content]
           c == [state |-> "sent", req |-> r]
<1>2. /\ p \in PanelState /\ p.stage = panel[v].stage /\ p.key = panel[v].key
      /\ p.drawn = panel[v].drawn /\ p.photo = panel[v].photo
      /\ p.content = panel[v].content
  BY <1>1 DEF PanelState
<1>3. r \in Request /\ c \in Call
  BY <1>1 DEF Request, Call
<1>4. panel' = [panel EXCEPT ![v] = p] /\ wire' = [wire EXCEPT ![v] = c]
  BY DEF Send
<1>5. Step(v) /\ panel'[v] = p /\ wire'[v] = c
  <2> HIDE DEF p, c
  <2>1. QED
    BY <1>1, <1>2, <1>3, <1>4, SetPanel
<1>6. QED
  BY <1>1, <1>2, <1>3, <1>5

(* An answer brings the photo the panel asked for.                         *)
LEMMA SavedEffect ==
  ASSUME Inv, NEW v \in Visits, Saved(v)
  PROVE  /\ Step(v) /\ panel[v].stage = "uploading" /\ panel'[v].stage = "done"
         /\ panel'[v].key = panel[v].key /\ panel'[v].drawn = panel[v].drawn
         /\ panel'[v].photo = wire[v].req /\ panel'[v].content = panel[v].content
         /\ wire[v].req \in photos /\ wire[v].req \in Photo
         /\ wire[v].req.key = panel[v].key /\ wire[v].req.content = panel[v].content
         /\ wire'[v].state = "none"
<1>1. /\ TypeOK /\ panel[v] \in PanelState /\ panel[v].stage = "uploading"
      /\ wire[v].req \in photos /\ wire[v].req \in Photo
      /\ wire[v].req.key = panel[v].key /\ wire[v].req.content = panel[v].content
  BY Fields DEF Inv, StageInv, StageOk, KeyInv, KeyOk, Saved, TypeOK
<1> DEFINE p == [panel[v] EXCEPT !.stage = "done"]
           q == [p EXCEPT !.photo = wire[v].req]
<1>2. /\ p \in PanelState /\ p.stage = "done" /\ p.key = panel[v].key
      /\ p.drawn = panel[v].drawn /\ p.content = panel[v].content
  BY <1>1, StageIsPanel, AreStages
<1>3. /\ q \in PanelState /\ q.stage = "done" /\ q.key = panel[v].key
      /\ q.drawn = panel[v].drawn /\ q.content = panel[v].content
      /\ q.photo = wire[v].req
  <2> HIDE DEF p
  <2>1. QED
    BY <1>1, <1>2, PhotoIsPanel
<1>4. panel' = [panel EXCEPT ![v] = q] /\ wire' = [wire EXCEPT ![v] = Quiet]
  BY <1>1 DEF Saved, TypeOK
<1>5. Step(v) /\ panel'[v] = q /\ wire'[v] = Quiet
  <2> HIDE DEF q
  <2>1. QED
    BY <1>1, <1>3, <1>4, SetPanel, QuietIsCall
<1>6. QED
  BY <1>1, <1>3, <1>5, QuietIsCall

(* Without a session the first request is given up, with its key.          *)
LEMMA ResendEffect ==
  ASSUME Inv, NEW v \in Visits, Resend(v)
  PROVE  /\ Step(v) /\ panel[v].stage = "uploading" /\ panel'[v].stage = "uploading"
         /\ panel'[v].key # None /\ panel'[v].key.visit = v
         /\ panel'[v].key.n = panel[v].drawn + 1 /\ panel'[v].drawn = panel[v].drawn + 1
         /\ panel'[v].photo = panel[v].photo /\ panel'[v].content = panel[v].content
         /\ wire[v].state = "no session" /\ wire[v].req.session = 0
         /\ wire'[v].state = "session"
<1>1. /\ TypeOK /\ panel[v] \in PanelState /\ wire[v].state = "no session"
      /\ panel[v].stage = "uploading" /\ wire[v].req.session = 0
  BY Fields DEF Inv, StageInv, StageOk, KeyInv, KeyOk, Resend
<1>2. /\ NewKey(v) \in IdemKey /\ NewKey(v) # None
      /\ NewKey(v).visit = v /\ NewKey(v).n = panel[v].drawn + 1
      /\ panel[v].drawn + 1 \in 0 .. MaxKeys
  BY <1>1, Drawn DEF Resend
<1> DEFINE p == [panel[v] EXCEPT !.attempt = 1, !.ready = FALSE]
           q == [p EXCEPT !.key = NewKey(v)]
           r == [q EXCEPT !.drawn = panel[v].drawn + 1]
           c == [state |-> "session", req |-> None]
<1>3. /\ p \in PanelState /\ p.stage = panel[v].stage /\ p.photo = panel[v].photo
      /\ p.content = panel[v].content
  <2> DEFINE o == [panel[v] EXCEPT !.attempt = 1]
  <2>1. /\ o \in PanelState /\ o.stage = panel[v].stage /\ o.photo = panel[v].photo
        /\ o.content = panel[v].content
    <3>1. 1 \in 0 .. 1
      OBVIOUS
    <3>2. QED
      BY <1>1, <3>1 DEF PanelState
  <2>2. LET w == [o EXCEPT !.ready = FALSE] IN
        /\ w \in PanelState /\ w.stage = o.stage /\ w.photo = o.photo
        /\ w.content = o.content
    <3> HIDE DEF o
    <3>1. QED
      BY <2>1 DEF PanelState
  <2>3. QED
    BY <2>1, <2>2
<1>4. /\ q \in PanelState /\ q.stage = panel[v].stage /\ q.photo = panel[v].photo
      /\ q.content = panel[v].content /\ q.key = NewKey(v)
  <2> HIDE DEF p
  <2>1. QED
    BY <1>2, <1>3, KeyIsPanel
<1>5. /\ r \in PanelState /\ r.stage = panel[v].stage /\ r.photo = panel[v].photo
      /\ r.content = panel[v].content /\ r.key = NewKey(v)
      /\ r.drawn = panel[v].drawn + 1
  <2> HIDE DEF q
  <2>1. QED
    BY <1>2, <1>4 DEF PanelState
<1>6. panel' = [panel EXCEPT ![v] = r] /\ wire' = [wire EXCEPT ![v] = c] /\ c \in Call
  BY <1>1 DEF Resend, TypeOK, Call
<1>7. Step(v) /\ panel'[v] = r /\ wire'[v] = c
  <2> HIDE DEF r, c
  <2>1. QED
    BY <1>1, <1>5, <1>6, SetPanel
<1>8. wire'[v].state = "session"
  BY <1>7
<1> HIDE DEF r, c
<1>9. QED
  BY <1>1, <1>2, <1>5, <1>7, <1>8

(* Only the stage and the call change: a call that failed, a removal asked *)
(* for or refused.                                                         *)
LEMMA StageEffect ==
  ASSUME TypeOK, NEW v \in Visits,
         NEW s \in Stages,
         NEW c \in Call,
         panel' = [panel EXCEPT ![v].stage = s], wire' = [wire EXCEPT ![v] = c]
  PROVE  /\ Step(v) /\ panel'[v].stage = s
         /\ panel'[v].key = panel[v].key /\ panel'[v].drawn = panel[v].drawn
         /\ panel'[v].photo = panel[v].photo /\ panel'[v].content = panel[v].content
         /\ wire'[v] = c
<1> DEFINE p == [panel[v] EXCEPT !.stage = s]
<1>1. /\ p \in PanelState /\ p.stage = s /\ p.key = panel[v].key
      /\ p.drawn = panel[v].drawn /\ p.photo = panel[v].photo
      /\ p.content = panel[v].content
  <2>1. panel[v] \in PanelState
    BY Fields
  <2>2. QED
    BY <2>1, StageIsPanel
<1>2. panel' = [panel EXCEPT ![v] = p]
  OBVIOUS
<1>3. Step(v) /\ panel'[v] = p /\ wire'[v] = c
  <2> HIDE DEF p
  <2>1. QED
    BY <1>1, <1>2 DEF Step, TypeOK
<1>4. QED
  BY <1>1, <1>3

(* After a removal the panel has neither photo nor key.                    *)
LEMMA DeletedEffect ==
  ASSUME Inv, NEW v \in Visits, Deleted(v)
  PROVE  /\ Step(v) /\ panel[v].stage = "deleting" /\ panel'[v].stage = "idle"
         /\ panel'[v].key = None /\ panel'[v].drawn = panel[v].drawn
         /\ panel'[v].content = panel[v].content
         /\ panel[v].photo \in deleted /\ panel[v].photo.key = panel[v].key
         /\ wire'[v].state = "none"
<1>1. /\ TypeOK /\ panel[v] \in PanelState /\ panel[v].stage = "deleting"
      /\ panel[v].photo \in deleted /\ panel[v].photo.key = panel[v].key
  BY Fields DEF Inv, StageInv, StageOk, KeyInv, KeyOk, Deleted, Answered
<1> DEFINE p == [panel[v] EXCEPT !.stage = "idle"]
           q == [p EXCEPT !.key = None]
           r == [q EXCEPT !.photo = None]
<1>2. /\ p \in PanelState /\ p.stage = "idle" /\ p.drawn = panel[v].drawn
      /\ p.content = panel[v].content
  BY <1>1, StageIsPanel, AreStages
<1>3. /\ q \in PanelState /\ q.stage = "idle" /\ q.key = None
      /\ q.drawn = panel[v].drawn /\ q.content = panel[v].content
  <2>1. None \in IdemKey \cup {None}
    OBVIOUS
  <2> HIDE DEF p
  <2>2. LET x == [p EXCEPT !.key = None] IN
        /\ x \in PanelState /\ x.key = None /\ x.stage = p.stage
        /\ x.drawn = p.drawn /\ x.content = p.content
    BY <1>2, <2>1, KeyIsPanel
  <2>3. QED
    BY <1>2, <2>2
<1>4. /\ r \in PanelState /\ r.stage = "idle" /\ r.key = None
      /\ r.drawn = panel[v].drawn /\ r.content = panel[v].content
  <2>1. None \in Photo \cup {None}
    OBVIOUS
  <2> HIDE DEF q
  <2>2. LET x == [q EXCEPT !.photo = None] IN
        /\ x \in PanelState /\ x.stage = q.stage /\ x.key = q.key
        /\ x.drawn = q.drawn /\ x.content = q.content
    BY <1>3, <2>1, PhotoIsPanel
  <2>3. QED
    BY <1>3, <2>2
<1>5. panel' = [panel EXCEPT ![v] = r] /\ wire' = [wire EXCEPT ![v] = Quiet]
  BY <1>1 DEF Deleted, TypeOK
<1>6. Step(v) /\ panel'[v] = r /\ wire'[v] = Quiet
  <2> HIDE DEF r
  <2>1. QED
    BY <1>1, <1>4, <1>5, SetPanel, QuietIsCall
<1>7. QED
  BY <1>1, <1>4, <1>6, QuietIsCall

(* Only a call moves: it reaches the server, or is answered or lost.       *)
LEMMA CallEffect ==
  ASSUME TypeOK, NEW v \in Visits, UNCHANGED panel,
         NEW s \in {"none", "session", "session set", "sent", "saved", "no session",
                    "failed", "delete", "deleted"},
         wire' = [wire EXCEPT ![v].state = s]
  PROVE  /\ Step(v) /\ panel'[v] = panel[v]
         /\ wire'[v].state = s /\ wire'[v].req = wire[v].req
<1> DEFINE c == [wire[v] EXCEPT !.state = s]
<1>1. c \in Call /\ c.state = s /\ c.req = wire[v].req
  BY Fields, StateIsCall
<1>2. wire' = [wire EXCEPT ![v] = c]
  OBVIOUS
<1>3. Step(v) /\ panel'[v] = panel[v] /\ wire'[v] = c
  <2> HIDE DEF c
  <2>1. QED
    BY <1>1, <1>2, SetCall
<1>4. QED
  BY <1>1, <1>3

-----------------------------------------------------------------------------
(* A visit that a step is not about keeps what the invariant says of it.   *)
Kept(w) == panel'[w] = panel[w] /\ wire'[w] = wire[w]

(* Stages.                                                                 *)
LEMMA StageKept ==
  ASSUME NEW w \in Visits, Kept(w), StageOk(w), (w \in visited') <=> (w \in visited)
  PROVE  StageOk(w)'
  BY DEF Kept, StageOk

(* Keys and photos.                                                        *)
LEMMA KeyKept ==
  ASSUME TypeOK, TypeOK', NEW w \in Visits, Kept(w), KeyOk(w), sessions \leq sessions',
         photos \subseteq photos', deleted \subseteq deleted'
  PROVE  KeyOk(w)'
<1>1. wire[w].state \in {"sent", "saved", "no session"} =>
        wire[w].req.session \leq sessions'
  <2>1. SUFFICES ASSUME wire[w].state \in {"sent", "saved", "no session"}
                 PROVE  wire[w].req.session \leq sessions'
    OBVIOUS
  <2>2. wire[w].req \in Request /\ wire[w].req.session \leq sessions
    BY <2>1 DEF KeyOk
  <2>3. wire[w].req.session \in Nat /\ sessions \in Nat /\ sessions' \in Nat
    BY <2>2, StagingAssumption DEF Request, TypeOK
  <2>4. QED
    BY <2>2, <2>3
<1>2. QED
  BY <1>1 DEF Kept, KeyOk, Answered, Unanswered

(* The next session is never an earlier one.                               *)
LEMMA SessionsGrow ==
  ASSUME TypeOK, TypeOK', AskedInv, AskedInv', sessions \leq sessions',
         cookie' = cookie \/ cookie' = 0 \/ (sessions' = sessions + 1 /\ cookie' = sessions')
  PROVE  NextSession \leq NextSession' /\ NextSession \in Nat /\ NextSession' \in Nat
<1>1. sessions \in Nat /\ sessions' \in Nat /\ cookie \in Nat /\ cookie' \in Nat
  BY StagingAssumption DEF TypeOK
<1>2. cookie \in {0, sessions} /\ cookie' \in {0, sessions'}
  BY DEF AskedInv
<1>3. CASE cookie' = 0
  <2>1. NextSession' = sessions' + 1
    BY <1>3 DEF NextSession
  <2>2. NextSession = sessions \/ NextSession = sessions + 1
    BY DEF NextSession
  <2>3. sessions \leq sessions'
    OBVIOUS
  <2>4. \A a, b \in Nat : a \leq b => a \leq b + 1 /\ a + 1 \leq b + 1
                                 /\ a + 1 \in Nat /\ b + 1 \in Nat
    OBVIOUS
  <2>5. sessions \leq sessions' + 1 /\ sessions + 1 \leq sessions' + 1
        /\ sessions + 1 \in Nat /\ sessions' + 1 \in Nat
    BY <1>1, <2>3, <2>4
  <2>6. QED
    BY <1>1, <2>1, <2>2, <2>5
<1>4. CASE cookie' # 0 /\ cookie' = cookie
  BY <1>1, <1>2, <1>4 DEF NextSession
<1>5. CASE cookie' # 0 /\ sessions' = sessions + 1 /\ cookie' = sessions'
  BY <1>1, <1>2, <1>5 DEF NextSession
<1>6. QED
  BY <1>3, <1>4, <1>5

(* What is asked for a visit is a photo to be, with a key of that visit.   *)
LEMMA AskedTypes ==
  ASSUME TypeOK, NEW v \in Visits, NEW r \in Asked(v)
  PROVE  r \in Photo /\ r.session \in Nat /\ r.session # 0 /\ r.key \in IdemKey
         /\ r.key.n \in Nat /\ r.key.visit = v
<1>1. r \in Photo /\ r.key.visit = v
  BY DEF Asked, TypeOK
<1>2. r.session \in 1 .. MaxSessions /\ r.key \in IdemKey
  BY <1>1 DEF Photo
<1>3. r.key.n \in 1 .. MaxKeys
  BY <1>2 DEF IdemKey
<1>4. QED
  BY <1>1, <1>2, <1>3, StagingAssumption

(* The order of sessions holds when nothing new is asked.                  *)
LEMMA OrderFrom ==
  ASSUME NEW v \in Visits, OrderOk(v),
         Asked(v)' \subseteq Asked(v), deleted \subseteq deleted',
         \A r \in Asked(v) : OrderAt(v, r)'
  PROVE  OrderOk(v)'
<1>1. ASSUME NEW r \in Asked(v)', NEW q \in Asked(v)'
      PROVE  Apart(r, q)'
  BY <1>1 DEF OrderOk, Apart
<1>2. QED
  BY <1>1 DEF OrderOk

(* ... and for a visit that a step is not about.                           *)
LEMMA OrderKept ==
  ASSUME TypeOK, NEW w \in Visits, Kept(w), OrderOk(w),
         Asked(w)' \subseteq Asked(w), deleted \subseteq deleted',
         NextSession \leq NextSession', NextSession \in Nat, NextSession' \in Nat
  PROVE  OrderOk(w)'
<1>1. Carries(w)' = Carries(w) /\ Answered(w)' = Answered(w)
  BY DEF Carries, Answered, Kept
<1>2. panel'[w] = panel[w] /\ wire'[w] = wire[w]
  BY DEF Kept
<1>3. ASSUME NEW r \in Asked(w)
      PROVE  OrderAt(w, r)'
  <2>1. r.session \in Nat /\ OrderAt(w, r)
    BY <1>3, AskedTypes DEF OrderOk
  <2>2. r.session < NextSession => r.session < NextSession'
    BY <2>1
  <2>3. QED
    BY <1>1, <1>2, <2>1, <2>2 DEF OrderAt
<1>4. QED
  BY <1>3, OrderFrom

(* What was asked of the server stays within the bounds of what there is.  *)
LEMMA AskedKept ==
  ASSUME TypeOK, TypeOK', cookie' \in {0, sessions'}, sessions \leq sessions',
         \A r \in photos' \cup ghosts' : Within(r), visited \subseteq visited',
         \A w \in visited : panel[w].drawn \leq panel'[w].drawn
                            /\ panel'[w].content = panel[w].content
  PROVE  AskedInv'
<1>1. ASSUME NEW r \in photos' \cup ghosts'
      PROVE  Within(r)'
  <2>1. /\ r.session \leq sessions /\ r.key.visit \in visited
        /\ r.key.n \leq panel[r.key.visit].drawn
        /\ r.content = panel[r.key.visit].content
    BY <1>1 DEF Within
  <2>2. r \in Photo
    BY <1>1 DEF TypeOK
  <2>3. r.session \in 1 .. MaxSessions /\ r.key \in IdemKey
    BY <2>2 DEF Photo
  <2>4. r.key.n \in 1 .. MaxKeys /\ r.key.visit \in Visits
    BY <2>3 DEF IdemKey
  <2>5. r.session \in Nat /\ r.key.n \in Nat /\ sessions \in Nat /\ sessions' \in Nat
    BY <2>3, <2>4, StagingAssumption DEF TypeOK
  <2>6. panel[r.key.visit].drawn \in Nat
    BY <2>4, Fields
  <2>7. panel'[r.key.visit].drawn \in Nat
    <3>1. panel'[r.key.visit] \in PanelState
      BY <2>4 DEF TypeOK
    <3>2. QED
      BY <3>1, StagingAssumption DEF PanelState
  <2>8. QED
    BY <2>1, <2>5, <2>6, <2>7 DEF Within
<1>2. QED
  BY <1>1 DEF AskedInv

(* Freshness of another visit's key, when a step does not disturb it.      *)
LEMMA FreshKept ==
  ASSUME NEW v \in Visits, NEW w \in Visits, w # v, FreshOk(w),
         \A u \in Visits : u # v => Kept(u),
         Unanswered(w) /\ panel[w].key # None =>
           /\ \A r \in deleted' : r \in deleted \/ r.key # panel[w].key
           /\ staged' # None => staged' = staged \/ staged'.photo.key # panel[w].key
           /\ Answered(v)' => panel'[v].photo.key # panel[w].key
  PROVE  FreshOk(w)'
<1>1. Kept(w)
  OBVIOUS
<1>2. SUFFICES ASSUME Unanswered(w), panel[w].key # None
      PROVE  /\ \A r \in deleted' : r.key # panel[w].key
             /\ staged' # None => staged'.photo.key # panel[w].key
             /\ \A u \in Visits : Answered(u)' => panel'[u].photo.key # panel[w].key
  BY <1>1 DEF Kept, FreshOk, Unanswered
<1>3. /\ \A r \in deleted : r.key # panel[w].key
      /\ staged # None => staged.photo.key # panel[w].key
      /\ \A u \in Visits : Answered(u) => panel[u].photo.key # panel[w].key
  BY <1>2 DEF FreshOk
<1>4. ASSUME NEW u \in Visits, Answered(u)', u # v
      PROVE  panel'[u].photo.key # panel[w].key
  <2>1. panel'[u] = panel[u] /\ Answered(u)
    BY <1>4 DEF Kept, Answered
  <2>2. QED
    BY <1>3, <2>1
<1>5. QED
  BY <1>2, <1>3, <1>4

(* The cookie, when there is one, is that of the latest session.           *)
LEMMA LatestCookie ==
  ASSUME TypeOK, AskedInv
  PROVE  /\ sessions \in Nat /\ cookie \in Nat /\ cookie \leq sessions
         /\ cookie # 0 => cookie = sessions /\ NextSession = sessions
         /\ cookie = 0 => NextSession = sessions + 1
<1>1. sessions \in Nat /\ cookie \in Nat
  BY StagingAssumption DEF TypeOK
<1>2. cookie \in {0, sessions}
  BY DEF AskedInv
<1>3. QED
  BY <1>1, <1>2 DEF NextSession

(* A key drawn now is the key of no request there has been.                *)
LEMMA NewKeyIsNew ==
  ASSUME TypeOK, AskedInv, NEW v \in Visits, NEW k, k.visit = v,
         k.n = panel[v].drawn + 1, NEW r \in photos \cup ghosts
  PROVE  r.key # k
<1>1. SUFFICES ASSUME r.key = k PROVE FALSE
  OBVIOUS
<1>2. Within(r) /\ r \in Asked(v)
  BY <1>1 DEF AskedInv, Asked
<1>3. r.key.n \in Nat /\ panel[v].drawn \in Nat
  BY <1>2, AskedTypes, Fields
<1>4. r.key.n \leq panel[v].drawn
  BY <1>1, <1>2 DEF Within
<1>5. QED
  BY <1>1, <1>3, <1>4

(* A request on its way is as the server's other requests of its visit.    *)
LEMMA OnItsWay ==
  ASSUME TypeOK, NEW v \in Visits, StageOk(v), KeyOk(v), wire[v].state = "sent"
  PROVE  /\ Within(wire[v].req) /\ wire[v].req \in Request
         /\ wire[v].req.session \in Nat
         /\ wire[v].req.key = panel[v].key /\ wire[v].req.key.visit = v
         /\ wire[v].req.session # 0 => wire[v].req \in Photo
         /\ ~Answered(v) /\ (wire[v].req.session # 0 => Carries(v))
<1>1. panel[v].stage = "uploading" /\ v \in visited
  BY DEF StageOk
<1>2. /\ wire[v].req \in Request /\ wire[v].req.key = panel[v].key
      /\ wire[v].req.content = panel[v].content /\ wire[v].req.session \leq sessions
  BY DEF KeyOk
<1>3. panel[v].key.visit = v /\ panel[v].key.n \leq panel[v].drawn
  BY <1>1 DEF KeyOk, Unanswered
<1>4. wire[v].req.session \in Nat
  BY <1>2, StagingAssumption DEF Request
<1>5. QED
  BY <1>1, <1>2, <1>3, <1>4, StoredRequest DEF Within, Answered, Carries

(* Each step keeps the invariant. The final page is entered.               *)
LEMMA EnterFinalInv ==
  ASSUME Inv, NEW v \in Visits, EnterFinal(v)
  PROVE  Inv'
<1>1. /\ Step(v) /\ wire'[v] = wire[v]
      /\ panel[v].stage = "absent" /\ panel'[v].content = content
      /\ panel'[v].drawn = 0
      /\ \/ staged = None /\ panel'[v].stage = "idle" /\ panel'[v].key = None
         \/ /\ staged # None /\ panel'[v].stage = "done"
            /\ panel'[v].photo = staged.photo /\ panel'[v].key = staged.photo.key
  BY EnterFinalEffect
<1>2. /\ visited' = visited \cup {v} /\ visit' = v /\ v \notin visited
      /\ UNCHANGED <<content, restarts, staged, ghosts, cookie, sessions, photos, deleted>>
  BY DEF EnterFinal, page, browser, server
<1>3. /\ TypeOK /\ StageOk(v) /\ KeyOk(v) /\ AskedInv /\ FreshOk(v) /\ OrderOk(v)
      /\ ReceiptMatchesPhoto
  BY DEF Inv, StageInv, KeyInv, FreshInv, OrderInv
<1>4. \A w \in Visits : w # v => Kept(w) /\ StageOk(w) /\ KeyOk(w) /\ FreshOk(w) /\ OrderOk(w)
  BY <1>1 DEF Inv, StageInv, KeyInv, FreshInv, OrderInv, Step, Kept
<1>5. TypeOK'
  BY <1>1, <1>2, <1>3 DEF TypeOK, Step
<1>6. sessions \leq sessions'
  BY <1>2, <1>3, StagingAssumption DEF TypeOK
<1>7. StageInv'
  <2>1. StageOk(v)'
    <3>1. wire[v].state = "none" /\ content \in Contents
      BY <1>1, <1>3, Fields DEF StageOk, TypeOK
    <3>2. QED
      BY <1>1, <1>2, <3>1 DEF StageOk
  <2>2. \A w \in Visits : w # v => StageOk(w)'
    BY <1>2, <1>4, StageKept
  <2>3. QED
    BY <2>1, <2>2 DEF StageInv
<1>8. KeyInv'
  <2>1. KeyOk(v)'
    <3>1. wire[v].state = "none"
      BY <1>1, <1>3, Fields DEF StageOk
    <3>2. staged # None => staged.photo \in photos
      BY <1>3 DEF ReceiptMatchesPhoto
    <3>3. QED
      BY <1>1, <1>2, <3>1, <3>2 DEF KeyOk, Answered, Unanswered
  <2>2. \A w \in Visits : w # v => KeyOk(w)'
    BY <1>2, <1>3, <1>4, <1>5, <1>6, KeyKept
  <2>3. QED
    BY <2>1, <2>2 DEF KeyInv
<1>9. AskedInv'
  <2>1. cookie' \in {0, sessions'} /\ sessions \leq sessions'
    BY <1>2, <1>3, StagingAssumption DEF AskedInv, TypeOK
  <2>2. \A r \in photos' \cup ghosts' : Within(r)
    BY <1>2, <1>3 DEF AskedInv
  <2>3. \A w \in visited : panel[w].drawn \leq panel'[w].drawn
                            /\ panel'[w].content = panel[w].content
    <3>1. \A w \in visited : w \in Visits /\ panel[w].drawn \in Nat
      BY <1>3, Fields DEF TypeOK
    <3>2. \A w \in visited : w # v => panel'[w] = panel[w]
      BY <1>4, <3>1 DEF Kept
    <3>3. v \in visited => panel[v].drawn \leq panel'[v].drawn
                            /\ panel'[v].content = panel[v].content
      BY <1>1, <1>2, <3>1
    <3>4. QED
      BY <3>1, <3>2, <3>3
  <2>4. visited \subseteq visited'
    BY <1>2
  <2>5. QED
    BY <1>3, <1>5, <2>1, <2>2, <2>3, <2>4, AskedKept
<1>10. FreshInv'
  <2>1. FreshOk(v)'
    BY <1>1, <1>2, <1>3, <1>4 DEF FreshOk, Answered, Unanswered, Kept
  <2>2. ASSUME NEW w \in Visits, w # v
        PROVE  FreshOk(w)'
    <3>1. FreshOk(w)
      BY <1>4, <2>2
    <3>2. Unanswered(w) /\ panel[w].key # None =>
            /\ \A r \in deleted' : r \in deleted \/ r.key # panel[w].key
            /\ staged' # None => staged' = staged \/ staged'.photo.key # panel[w].key
            /\ Answered(v)' => panel'[v].photo.key # panel[w].key
      BY <1>1, <1>2, <3>1 DEF FreshOk, Answered
    <3>3. QED
      BY <1>4, <2>2, <3>2, FreshKept
  <2>3. QED
    BY <2>1, <2>2 DEF FreshInv
<1>11. NextSession \leq NextSession' /\ NextSession \in Nat /\ NextSession' \in Nat
  BY <1>2, <1>3, <1>5, <1>9, SessionsGrow, StagingAssumption DEF TypeOK
<1>12. OrderInv'
  <2>1. OrderOk(v)'
    <3>1. ASSUME NEW r \in Asked(v)
          PROVE  OrderAt(v, r)'
      <4>1. /\ OrderAt(v, r) /\ Within(r) /\ r \in Photo /\ r.session \in Nat
            /\ r.session # 0 /\ r.key \in IdemKey /\ r.key.visit = v
        BY <1>3, AskedTypes DEF OrderOk, AskedInv, Asked
      <4>2. QED
        BY <1>2, <4>1 DEF Within
    <3>2. Asked(v)' \subseteq Asked(v) /\ deleted \subseteq deleted'
      BY <1>2 DEF Asked
    <3>3. QED
      BY <1>3, <3>1, <3>2, OrderFrom
  <2>2. \A w \in Visits : w # v => OrderOk(w)'
    BY <1>2, <1>3, <1>4, <1>11, OrderKept DEF Asked
  <2>3. QED
    BY <2>1, <2>2 DEF OrderInv
<1>13. ReceiptMatchesPhoto'
  BY <1>1, <1>2, <1>3 DEF ReceiptMatchesPhoto
<1>14. QED
  BY <1>5, <1>7, <1>8, <1>9, <1>10, <1>12, <1>13 DEF Inv

(* The key of a first upload is new; that of a retry has no known photo.   *)
LEMMA UploadInv ==
  ASSUME Inv, NEW v \in Visits, Upload(v)
  PROVE  Inv'
<1>1. /\ Step(v) /\ panel[v].stage \in {"confirm", "error"} /\ panel'[v].stage = "uploading"
      /\ panel'[v].photo = panel[v].photo /\ panel'[v].content = panel[v].content
      /\ \/ /\ panel[v].key # None /\ panel'[v].key = panel[v].key
            /\ panel'[v].drawn = panel[v].drawn
         \/ /\ panel[v].key = None /\ panel'[v].key # None
            /\ panel'[v].key.visit = v /\ panel'[v].key.n = panel[v].drawn + 1
            /\ panel'[v].drawn = panel[v].drawn + 1
      /\ \/ wire'[v].state = "session"
         \/ /\ wire'[v].state = "sent" /\ wire'[v].req \in Request
            /\ wire'[v].req.session = cookie
            /\ wire'[v].req.key = panel'[v].key
            /\ wire'[v].req.content = panel[v].content
  BY UploadEffect DEF Step
<1>2. UNCHANGED <<visit, visited, content, restarts, staged, ghosts,
                       cookie, sessions, photos, deleted>>
  BY DEF Upload, page, browser, server
<1>3. /\ TypeOK /\ StageOk(v) /\ KeyOk(v) /\ AskedInv /\ FreshOk(v) /\ OrderOk(v)
      /\ ReceiptMatchesPhoto
  BY DEF Inv, StageInv, KeyInv, FreshInv, OrderInv
<1>4. \A w \in Visits : w # v => Kept(w) /\ StageOk(w) /\ KeyOk(w) /\ FreshOk(w) /\ OrderOk(w)
  BY <1>1 DEF Inv, StageInv, KeyInv, FreshInv, OrderInv, Step, Kept
<1>5. TypeOK'
  BY <1>1, <1>2, <1>3 DEF TypeOK, Step
<1>6. sessions \leq sessions'
  BY <1>2, <1>3, StagingAssumption DEF TypeOK
<1>7. StageInv'
  <2>1. StageOk(v)'
    BY <1>1, <1>2, <1>3 DEF StageOk
  <2>2. \A w \in Visits : w # v => StageOk(w)'
    BY <1>2, <1>4, StageKept
  <2>3. QED
    BY <2>1, <2>2 DEF StageInv
<1>8. KeyInv'
  <2>1. KeyOk(v)'
    <3>1. panel[v].drawn \in Nat /\ cookie \leq sessions
      BY <1>3, Fields, LatestCookie
    <3>2. panel'[v].key # None /\ panel'[v].key.visit = v
          /\ panel'[v].key.n \leq panel'[v].drawn
      <4>1. CASE panel[v].key # None /\ panel'[v].key = panel[v].key
                 /\ panel'[v].drawn = panel[v].drawn
        BY <1>1, <1>3, <4>1 DEF KeyOk, Unanswered
      <4>2. CASE /\ panel'[v].key # None /\ panel'[v].key.visit = v
                 /\ panel'[v].key.n = panel[v].drawn + 1
                 /\ panel'[v].drawn = panel[v].drawn + 1
        BY <3>1, <4>2
      <4>3. QED
        BY <1>1, <4>1, <4>2
    <3>3. ~Answered(v)'
      BY <1>1 DEF Answered
    <3>4. QED
      BY <1>1, <1>2, <3>1, <3>2, <3>3 DEF KeyOk
  <2>2. \A w \in Visits : w # v => KeyOk(w)'
    BY <1>2, <1>3, <1>4, <1>5, <1>6, KeyKept
  <2>3. QED
    BY <2>1, <2>2 DEF KeyInv
<1>9. AskedInv'
  <2>1. cookie' \in {0, sessions'} /\ sessions \leq sessions'
    BY <1>2, <1>3, StagingAssumption DEF AskedInv, TypeOK
  <2>2. \A r \in photos' \cup ghosts' : Within(r)
    BY <1>2, <1>3 DEF AskedInv
  <2>3. \A w \in visited : panel[w].drawn \leq panel'[w].drawn
                            /\ panel'[w].content = panel[w].content
    <3>1. \A w \in visited : w \in Visits /\ panel[w].drawn \in Nat
      BY <1>3, Fields DEF TypeOK
    <3>2. \A w \in visited : w # v => panel'[w] = panel[w]
      BY <1>4, <3>1 DEF Kept
    <3>3. v \in visited => panel[v].drawn \leq panel'[v].drawn
                            /\ panel'[v].content = panel[v].content
      BY <1>1, <1>2, <3>1
    <3>4. QED
      BY <3>1, <3>2, <3>3
  <2>4. visited \subseteq visited'
    BY <1>2
  <2>5. QED
    BY <1>3, <1>5, <2>1, <2>2, <2>3, <2>4, AskedKept
<1>10. FreshInv'
  <2>1. FreshOk(v)'
    <3>1. CASE panel[v].key # None /\ panel'[v].key = panel[v].key
      BY <1>1, <1>2, <1>3, <1>4, <3>1 DEF FreshOk, Answered, Unanswered, Kept
    <3>2. CASE panel'[v].key.visit = v /\ panel'[v].key.n = panel[v].drawn + 1
      <4>1. \A r \in photos \cup ghosts : r.key # panel'[v].key
        BY <1>3, <3>2, NewKeyIsNew
      <4>2. \A r \in deleted : r.key # panel'[v].key
        BY <1>3, <4>1 DEF TypeOK
      <4>3. staged # None => staged.photo.key # panel'[v].key
        BY <1>3, <4>1 DEF ReceiptMatchesPhoto
      <4>4. ASSUME NEW u \in Visits, Answered(u)'
            PROVE  panel'[u].photo.key # panel'[v].key
        <5>1. u # v
          BY <1>1, <4>4 DEF Answered
        <5>2. panel'[u] = panel[u] /\ KeyOk(u) /\ Answered(u)
          BY <1>4, <4>4, <5>1 DEF Kept, Answered
        <5>3. QED
          BY <4>1, <5>2 DEF KeyOk
      <4>5. QED
        BY <1>2, <4>2, <4>3, <4>4 DEF FreshOk
    <3>3. QED
      BY <1>1, <3>1, <3>2
  <2>2. ASSUME NEW w \in Visits, w # v
        PROVE  FreshOk(w)'
    <3>1. FreshOk(w)
      BY <1>4, <2>2
    <3>2. Unanswered(w) /\ panel[w].key # None =>
            /\ \A r \in deleted' : r \in deleted \/ r.key # panel[w].key
            /\ staged' # None => staged' = staged \/ staged'.photo.key # panel[w].key
            /\ Answered(v)' => panel'[v].photo.key # panel[w].key
      BY <1>1, <1>2, <3>1 DEF FreshOk, Answered
    <3>3. QED
      BY <1>4, <2>2, <3>2, FreshKept
  <2>3. QED
    BY <2>1, <2>2 DEF FreshInv
<1>11. NextSession \leq NextSession' /\ NextSession \in Nat /\ NextSession' \in Nat
  BY <1>2, <1>3, <1>5, <1>9, SessionsGrow, StagingAssumption DEF TypeOK
<1>12. OrderInv'
  <2>1. OrderOk(v)'
    <3>1. ASSUME NEW r \in Asked(v)
          PROVE  OrderAt(v, r)'
      <4>1. /\ OrderAt(v, r) /\ Within(r) /\ r \in Photo /\ r.session \in Nat
            /\ r.session # 0 /\ r.key \in IdemKey /\ r.key.visit = v
        BY <1>3, AskedTypes DEF OrderOk, AskedInv, Asked
      <4>2. r.session < NextSession => r.session < NextSession'
        BY <1>11, <4>1
      <4>3. Carries(v)' => r.session \leq wire'[v].req.session
        <5>1. Carries(v)' => wire'[v].req.session = sessions /\ NextSession = sessions
          BY <1>1, <1>3, LatestCookie DEF Carries
        <5>2. QED
          BY <4>1, <5>1 DEF Within
      <4>4. Answered(v)' /\ panel'[v].photo.key.visit = v =>
              r.session \leq panel'[v].photo.session
        BY <1>1, <4>1 DEF OrderAt, Answered
      <4>5. r \notin deleted' /\ r.key # panel'[v].key => r.session < NextSession'
        <5>1. r.key # None
          BY <4>1, StagingAssumption
        <5>2. r.key # panel'[v].key => r.key # panel[v].key
          BY <1>1, <5>1
        <5>3. QED
          BY <1>2, <4>1, <4>2, <5>2 DEF OrderAt
      <4>6. r \notin deleted' /\ r.key # panel'[v].key =>
              (Carries(v)' => r.session < wire'[v].req.session)
        <5>1. Carries(v)' => wire'[v].req.session = sessions /\ NextSession = sessions
          BY <1>1, <1>3, LatestCookie DEF Carries
        <5>2. r.key # None
          BY <4>1, StagingAssumption
        <5>3. r.key # panel'[v].key => r.key # panel[v].key
          BY <1>1, <5>2
        <5>4. QED
          BY <1>2, <4>1, <5>1, <5>3 DEF OrderAt
      <4>7. wire'[v].state \in {"sent", "no session"} /\ wire'[v].req.session = 0 =>
              r.session < NextSession'
        <5>1. wire'[v].state \in {"sent", "no session"} /\ wire'[v].req.session = 0 =>
                cookie = 0 /\ NextSession = sessions + 1
          BY <1>1, <1>3, LatestCookie
        <5>2. r.session \leq sessions /\ sessions \in Nat
          BY <1>3, <4>1, LatestCookie DEF Within
        <5>3. r.session < sessions + 1
          BY <4>1, <5>2
        <5>4. QED
          BY <4>2, <5>1, <5>3
      <4>8. QED
        BY <4>3, <4>4, <4>5, <4>6, <4>7 DEF OrderAt
    <3>2. Asked(v)' \subseteq Asked(v) /\ deleted \subseteq deleted'
      BY <1>2 DEF Asked
    <3>3. QED
      BY <1>3, <3>1, <3>2, OrderFrom
  <2>2. \A w \in Visits : w # v => OrderOk(w)'
    BY <1>2, <1>3, <1>4, <1>11, OrderKept DEF Asked
  <2>3. QED
    BY <2>1, <2>2 DEF OrderInv
<1>13. ReceiptMatchesPhoto'
  BY <1>1, <1>2, <1>3 DEF ReceiptMatchesPhoto
<1>14. QED
  BY <1>5, <1>7, <1>8, <1>9, <1>10, <1>12, <1>13 DEF Inv

(* The session of a request is the latest, so a given-up key is earlier.   *)
LEMMA SendInv ==
  ASSUME Inv, NEW v \in Visits, Send(v)
  PROVE  Inv'
<1>1. /\ Step(v) /\ panel[v].stage = "uploading" /\ panel'[v].stage = "uploading"
      /\ panel'[v].key = panel[v].key /\ panel'[v].drawn = panel[v].drawn
      /\ panel'[v].photo = panel[v].photo /\ panel'[v].content = panel[v].content
      /\ wire'[v].state = "sent" /\ wire'[v].req \in Request
      /\ wire'[v].req.session = cookie /\ wire'[v].req.key = panel[v].key
      /\ wire'[v].req.content = panel[v].content
  BY SendEffect
<1>2. UNCHANGED <<visit, visited, content, restarts, staged, ghosts,
                       cookie, sessions, photos, deleted>>
  BY DEF Send, page, browser, server
<1>3. /\ TypeOK /\ StageOk(v) /\ KeyOk(v) /\ AskedInv /\ FreshOk(v) /\ OrderOk(v)
      /\ ReceiptMatchesPhoto
  BY DEF Inv, StageInv, KeyInv, FreshInv, OrderInv
<1>4. \A w \in Visits : w # v => Kept(w) /\ StageOk(w) /\ KeyOk(w) /\ FreshOk(w) /\ OrderOk(w)
  BY <1>1 DEF Inv, StageInv, KeyInv, FreshInv, OrderInv, Step, Kept
<1>5. TypeOK'
  BY <1>1, <1>2, <1>3 DEF TypeOK, Step
<1>6. sessions \leq sessions'
  BY <1>2, <1>3, StagingAssumption DEF TypeOK
<1>7. StageInv'
  <2>1. StageOk(v)'
    BY <1>1, <1>2, <1>3 DEF StageOk
  <2>2. \A w \in Visits : w # v => StageOk(w)'
    BY <1>2, <1>4, StageKept
  <2>3. QED
    BY <2>1, <2>2 DEF StageInv
<1>8. KeyInv'
  <2>1. KeyOk(v)'
    <3>1. cookie \leq sessions /\ ~Answered(v)'
      BY <1>1, <1>3, LatestCookie DEF Answered
    <3>2. QED
      BY <1>1, <1>2, <1>3, <3>1 DEF KeyOk, Unanswered
  <2>2. \A w \in Visits : w # v => KeyOk(w)'
    BY <1>2, <1>3, <1>4, <1>5, <1>6, KeyKept
  <2>3. QED
    BY <2>1, <2>2 DEF KeyInv
<1>9. AskedInv'
  <2>1. cookie' \in {0, sessions'} /\ sessions \leq sessions'
    BY <1>2, <1>3, StagingAssumption DEF AskedInv, TypeOK
  <2>2. \A r \in photos' \cup ghosts' : Within(r)
    BY <1>2, <1>3 DEF AskedInv
  <2>3. \A w \in visited : panel[w].drawn \leq panel'[w].drawn
                            /\ panel'[w].content = panel[w].content
    <3>1. \A w \in visited : w \in Visits /\ panel[w].drawn \in Nat
      BY <1>3, Fields DEF TypeOK
    <3>2. \A w \in visited : w # v => panel'[w] = panel[w]
      BY <1>4, <3>1 DEF Kept
    <3>3. v \in visited => panel[v].drawn \leq panel'[v].drawn
                            /\ panel'[v].content = panel[v].content
      BY <1>1, <1>2, <3>1
    <3>4. QED
      BY <3>1, <3>2, <3>3
  <2>4. visited \subseteq visited'
    BY <1>2
  <2>5. QED
    BY <1>3, <1>5, <2>1, <2>2, <2>3, <2>4, AskedKept
<1>10. FreshInv'
  <2>1. FreshOk(v)'
    BY <1>1, <1>2, <1>3, <1>4 DEF FreshOk, Answered, Unanswered, Kept
  <2>2. ASSUME NEW w \in Visits, w # v
        PROVE  FreshOk(w)'
    <3>1. FreshOk(w)
      BY <1>4, <2>2
    <3>2. Unanswered(w) /\ panel[w].key # None =>
            /\ \A r \in deleted' : r \in deleted \/ r.key # panel[w].key
            /\ staged' # None => staged' = staged \/ staged'.photo.key # panel[w].key
            /\ Answered(v)' => panel'[v].photo.key # panel[w].key
      BY <1>1, <1>2, <3>1 DEF FreshOk, Answered
    <3>3. QED
      BY <1>4, <2>2, <3>2, FreshKept
  <2>3. QED
    BY <2>1, <2>2 DEF FreshInv
<1>11. NextSession \leq NextSession' /\ NextSession \in Nat /\ NextSession' \in Nat
  BY <1>2, <1>3, <1>5, <1>9, SessionsGrow, StagingAssumption DEF TypeOK
<1>12. OrderInv'
  <2>1. OrderOk(v)'
    <3>1. ASSUME NEW r \in Asked(v)
          PROVE  OrderAt(v, r)'
      <4>1. /\ OrderAt(v, r) /\ Within(r) /\ r \in Photo /\ r.session \in Nat
            /\ r.session # 0 /\ r.key \in IdemKey /\ r.key.visit = v
        BY <1>3, AskedTypes DEF OrderOk, AskedInv, Asked
      <4>2. r.session < NextSession => r.session < NextSession'
        BY <1>11, <4>1
      <4>3. Carries(v)' => r.session \leq wire'[v].req.session
        <5>1. Carries(v)' => wire'[v].req.session = sessions /\ NextSession = sessions
          BY <1>1, <1>3, LatestCookie DEF Carries
        <5>2. QED
          BY <4>1, <5>1 DEF Within
      <4>4. Answered(v)' /\ panel'[v].photo.key.visit = v =>
              r.session \leq panel'[v].photo.session
        BY <1>1, <4>1 DEF OrderAt, Answered
      <4>5. r \notin deleted' /\ r.key # panel'[v].key => r.session < NextSession'
        <5>1. r.key # None
          BY <4>1, StagingAssumption
        <5>2. r.key # panel'[v].key => r.key # panel[v].key
          BY <1>1, <5>1
        <5>3. QED
          BY <1>2, <4>1, <4>2, <5>2 DEF OrderAt
      <4>6. r \notin deleted' /\ r.key # panel'[v].key =>
              (Carries(v)' => r.session < wire'[v].req.session)
        <5>1. Carries(v)' => wire'[v].req.session = sessions /\ NextSession = sessions
          BY <1>1, <1>3, LatestCookie DEF Carries
        <5>2. r.key # None
          BY <4>1, StagingAssumption
        <5>3. r.key # panel'[v].key => r.key # panel[v].key
          BY <1>1, <5>2
        <5>4. QED
          BY <1>2, <4>1, <5>1, <5>3 DEF OrderAt
      <4>7. wire'[v].state \in {"sent", "no session"} /\ wire'[v].req.session = 0 =>
              r.session < NextSession'
        <5>1. wire'[v].state \in {"sent", "no session"} /\ wire'[v].req.session = 0 =>
                cookie = 0 /\ NextSession = sessions + 1
          BY <1>1, <1>3, LatestCookie
        <5>2. r.session \leq sessions /\ sessions \in Nat
          BY <1>3, <4>1, LatestCookie DEF Within
        <5>3. r.session < sessions + 1
          BY <4>1, <5>2
        <5>4. QED
          BY <4>2, <5>1, <5>3
      <4>8. QED
        BY <4>3, <4>4, <4>5, <4>6, <4>7 DEF OrderAt
    <3>2. Asked(v)' \subseteq Asked(v) /\ deleted \subseteq deleted'
      BY <1>2 DEF Asked
    <3>3. QED
      BY <1>3, <3>1, <3>2, OrderFrom
  <2>2. \A w \in Visits : w # v => OrderOk(w)'
    BY <1>2, <1>3, <1>4, <1>11, OrderKept DEF Asked
  <2>3. QED
    BY <2>1, <2>2 DEF OrderInv
<1>13. ReceiptMatchesPhoto'
  BY <1>1, <1>2, <1>3 DEF ReceiptMatchesPhoto
<1>14. QED
  BY <1>5, <1>7, <1>8, <1>9, <1>10, <1>12, <1>13 DEF Inv

(* The photo of an answer has the session of its request.                  *)
LEMMA SavedInv ==
  ASSUME Inv, NEW v \in Visits, Saved(v)
  PROVE  Inv'
<1>1. /\ Step(v) /\ panel[v].stage = "uploading" /\ panel'[v].stage = "done"
      /\ panel'[v].key = panel[v].key /\ panel'[v].drawn = panel[v].drawn
      /\ panel'[v].photo = wire[v].req /\ panel'[v].content = panel[v].content
      /\ wire[v].req \in photos /\ wire[v].req \in Photo
      /\ wire[v].req.key = panel[v].key /\ wire[v].req.content = panel[v].content
      /\ wire'[v].state = "none"
  BY SavedEffect
<1>2. /\ wire[v].state = "saved"
      /\ staged' = [photo |-> wire[v].req, content |-> panel[v].content]
      /\ UNCHANGED <<visit, visited, content, restarts, ghosts, cookie, sessions,
                     photos, deleted>>
  BY DEF Saved, page, browser, server
<1>3. /\ TypeOK /\ StageOk(v) /\ KeyOk(v) /\ AskedInv /\ FreshOk(v) /\ OrderOk(v)
      /\ ReceiptMatchesPhoto
  BY DEF Inv, StageInv, KeyInv, FreshInv, OrderInv
<1>4. \A w \in Visits : w # v => Kept(w) /\ StageOk(w) /\ KeyOk(w) /\ FreshOk(w) /\ OrderOk(w)
  BY <1>1 DEF Inv, StageInv, KeyInv, FreshInv, OrderInv, Step, Kept
<1>5. TypeOK'
  <2>1. staged' \in Receipt
    BY <1>1, <1>2, <1>3 DEF StageOk, Receipt
  <2>2. QED
    BY <1>1, <1>2, <1>3, <2>1 DEF TypeOK, Step
<1>6. sessions \leq sessions'
  BY <1>2, <1>3, StagingAssumption DEF TypeOK
<1>7. StageInv'
  <2>1. StageOk(v)'
    BY <1>1, <1>2, <1>3 DEF StageOk
  <2>2. \A w \in Visits : w # v => StageOk(w)'
    BY <1>2, <1>4, StageKept
  <2>3. QED
    BY <2>1, <2>2 DEF StageInv
<1>8. KeyInv'
  <2>1. KeyOk(v)'
    BY <1>1, <1>2, <1>3 DEF KeyOk, Answered, Unanswered
  <2>2. \A w \in Visits : w # v => KeyOk(w)'
    BY <1>2, <1>3, <1>4, <1>5, <1>6, KeyKept
  <2>3. QED
    BY <2>1, <2>2 DEF KeyInv
<1>9. AskedInv'
  <2>1. cookie' \in {0, sessions'} /\ sessions \leq sessions'
    BY <1>2, <1>3, StagingAssumption DEF AskedInv, TypeOK
  <2>2. \A r \in photos' \cup ghosts' : Within(r)
    BY <1>2, <1>3 DEF AskedInv
  <2>3. \A w \in visited : panel[w].drawn \leq panel'[w].drawn
                            /\ panel'[w].content = panel[w].content
    <3>1. \A w \in visited : w \in Visits /\ panel[w].drawn \in Nat
      BY <1>3, Fields DEF TypeOK
    <3>2. \A w \in visited : w # v => panel'[w] = panel[w]
      BY <1>4, <3>1 DEF Kept
    <3>3. v \in visited => panel[v].drawn \leq panel'[v].drawn
                            /\ panel'[v].content = panel[v].content
      BY <1>1, <1>2, <3>1
    <3>4. QED
      BY <3>1, <3>2, <3>3
  <2>4. visited \subseteq visited'
    BY <1>2
  <2>5. QED
    BY <1>3, <1>5, <2>1, <2>2, <2>3, <2>4, AskedKept
<1>10. FreshInv'
  <2>1. FreshOk(v)'
    BY <1>1, <1>2, <1>3, <1>4 DEF FreshOk, Answered, Unanswered, Kept
  <2>2. ASSUME NEW w \in Visits, w # v
        PROVE  FreshOk(w)'
    <3>1. panel[v].key.visit = v /\ staged'.photo = wire[v].req
      BY <1>1, <1>2, <1>3 DEF KeyOk, Unanswered
    <3>2. Unanswered(w) /\ panel[w].key # None => panel[w].key # panel[v].key
      BY <1>4, <2>2, <3>1 DEF KeyOk
    <3>3. Unanswered(w) /\ panel[w].key # None =>
            /\ \A r \in deleted' : r \in deleted \/ r.key # panel[w].key
            /\ staged' # None => staged' = staged \/ staged'.photo.key # panel[w].key
            /\ Answered(v)' => panel'[v].photo.key # panel[w].key
      BY <1>1, <1>2, <3>1, <3>2
    <3>4. QED
      BY <1>4, <2>2, <3>3, FreshKept
  <2>3. QED
    BY <2>1, <2>2 DEF FreshInv
<1>11. NextSession \leq NextSession' /\ NextSession \in Nat /\ NextSession' \in Nat
  BY <1>2, <1>3, <1>5, <1>9, SessionsGrow, StagingAssumption DEF TypeOK
<1>12. OrderInv'
  <2>1. OrderOk(v)'
    <3>1. ASSUME NEW r \in Asked(v)
          PROVE  OrderAt(v, r)'
      <4>1. /\ OrderAt(v, r) /\ Within(r) /\ r \in Photo /\ r.session \in Nat
            /\ r.session # 0 /\ r.key \in IdemKey /\ r.key.visit = v
        BY <1>3, AskedTypes DEF OrderOk, AskedInv, Asked
      <4>2. r.session < NextSession => r.session < NextSession'
        BY <1>11, <4>1
      <4>3. Carries(v)' => r.session \leq wire'[v].req.session
        BY <1>1, <4>1 DEF OrderAt, Carries
      <4>4. Answered(v)' /\ panel'[v].photo.key.visit = v =>
              r.session \leq panel'[v].photo.session
        <5>1. Carries(v)
          BY <1>1, <1>2, <1>3 DEF KeyOk, Carries
        <5>2. QED
          BY <1>1, <4>1, <5>1 DEF OrderAt
      <4>5. r \notin deleted' /\ r.key # panel'[v].key => r.session < NextSession'
        BY <1>1, <1>2, <4>1, <4>2 DEF OrderAt
      <4>6. r \notin deleted' /\ r.key # panel'[v].key =>
              (Carries(v)' => r.session < wire'[v].req.session)
        BY <1>1, <1>2, <4>1 DEF OrderAt, Carries
      <4>7. wire'[v].state \in {"sent", "no session"} /\ wire'[v].req.session = 0 =>
              r.session < NextSession'
        BY <1>1, <1>2, <4>1, <4>2 DEF OrderAt
      <4>8. QED
        BY <4>3, <4>4, <4>5, <4>6, <4>7 DEF OrderAt
    <3>2. Asked(v)' \subseteq Asked(v) /\ deleted \subseteq deleted'
      BY <1>2 DEF Asked
    <3>3. QED
      BY <1>3, <3>1, <3>2, OrderFrom
  <2>2. \A w \in Visits : w # v => OrderOk(w)'
    BY <1>2, <1>3, <1>4, <1>11, OrderKept DEF Asked
  <2>3. QED
    BY <2>1, <2>2 DEF OrderInv
<1>13. ReceiptMatchesPhoto'
  BY <1>1, <1>2, <1>3 DEF ReceiptMatchesPhoto
<1>14. QED
  BY <1>5, <1>7, <1>8, <1>9, <1>10, <1>12, <1>13 DEF Inv

(* The key given up has been asked for in past sessions only.              *)
LEMMA ResendInv ==
  ASSUME Inv, NEW v \in Visits, Resend(v)
  PROVE  Inv'
<1>1. /\ Step(v) /\ panel[v].stage = "uploading" /\ panel'[v].stage = "uploading"
      /\ panel'[v].key # None /\ panel'[v].key.visit = v
      /\ panel'[v].key.n = panel[v].drawn + 1 /\ panel'[v].drawn = panel[v].drawn + 1
      /\ panel'[v].photo = panel[v].photo /\ panel'[v].content = panel[v].content
      /\ wire[v].state = "no session" /\ wire[v].req.session = 0
      /\ wire'[v].state = "session"
  BY ResendEffect
<1>2. UNCHANGED <<visit, visited, content, restarts, staged, ghosts,
                       cookie, sessions, photos, deleted>>
  BY DEF Resend, page, browser, server
<1>3. /\ TypeOK /\ StageOk(v) /\ KeyOk(v) /\ AskedInv /\ FreshOk(v) /\ OrderOk(v)
      /\ ReceiptMatchesPhoto
  BY DEF Inv, StageInv, KeyInv, FreshInv, OrderInv
<1>4. \A w \in Visits : w # v => Kept(w) /\ StageOk(w) /\ KeyOk(w) /\ FreshOk(w) /\ OrderOk(w)
  BY <1>1 DEF Inv, StageInv, KeyInv, FreshInv, OrderInv, Step, Kept
<1>5. TypeOK'
  BY <1>1, <1>2, <1>3 DEF TypeOK, Step
<1>6. sessions \leq sessions'
  BY <1>2, <1>3, StagingAssumption DEF TypeOK
<1>7. StageInv'
  <2>1. StageOk(v)'
    BY <1>1, <1>2, <1>3 DEF StageOk
  <2>2. \A w \in Visits : w # v => StageOk(w)'
    BY <1>2, <1>4, StageKept
  <2>3. QED
    BY <2>1, <2>2 DEF StageInv
<1>8. KeyInv'
  <2>1. KeyOk(v)'
    <3>1. panel[v].drawn \in Nat /\ ~Answered(v)'
      BY <1>1, <1>3, Fields DEF Answered
    <3>2. panel'[v].key.n \leq panel'[v].drawn
      <4>1. \A n \in Nat : n + 1 \leq n + 1
        OBVIOUS
      <4>2. QED
        BY <1>1, <3>1, <4>1
    <3>3. QED
      BY <1>1, <1>2, <3>1, <3>2 DEF KeyOk
  <2>2. \A w \in Visits : w # v => KeyOk(w)'
    BY <1>2, <1>3, <1>4, <1>5, <1>6, KeyKept
  <2>3. QED
    BY <2>1, <2>2 DEF KeyInv
<1>9. AskedInv'
  <2>1. cookie' \in {0, sessions'} /\ sessions \leq sessions'
    BY <1>2, <1>3, StagingAssumption DEF AskedInv, TypeOK
  <2>2. \A r \in photos' \cup ghosts' : Within(r)
    BY <1>2, <1>3 DEF AskedInv
  <2>3. \A w \in visited : panel[w].drawn \leq panel'[w].drawn
                            /\ panel'[w].content = panel[w].content
    <3>1. \A w \in visited : w \in Visits /\ panel[w].drawn \in Nat
      BY <1>3, Fields DEF TypeOK
    <3>2. \A w \in visited : w # v => panel'[w] = panel[w]
      BY <1>4, <3>1 DEF Kept
    <3>3. v \in visited => panel[v].drawn \leq panel'[v].drawn
                            /\ panel'[v].content = panel[v].content
      <4>1. \A n \in Nat : n \leq n /\ n \leq n + 1
        OBVIOUS
      <4>2. QED
        BY <1>1, <3>1, <4>1
    <3>4. QED
      BY <3>1, <3>2, <3>3
  <2>4. visited \subseteq visited'
    BY <1>2
  <2>5. QED
    BY <1>3, <1>5, <2>1, <2>2, <2>3, <2>4, AskedKept
<1>10. FreshInv'
  <2>1. FreshOk(v)'
    <3>1. \A r \in photos \cup ghosts : r.key # panel'[v].key
      BY <1>1, <1>3, NewKeyIsNew
    <3>2. \A r \in deleted : r.key # panel'[v].key
      BY <1>3, <3>1 DEF TypeOK
    <3>3. staged # None => staged.photo.key # panel'[v].key
      BY <1>3, <3>1 DEF ReceiptMatchesPhoto
    <3>4. ASSUME NEW u \in Visits, Answered(u)'
          PROVE  panel'[u].photo.key # panel'[v].key
      <4>1. u # v
        BY <1>1, <3>4 DEF Answered
      <4>2. panel'[u] = panel[u] /\ KeyOk(u) /\ Answered(u)
        BY <1>4, <3>4, <4>1 DEF Kept, Answered
      <4>3. QED
        BY <3>1, <4>2 DEF KeyOk
    <3>5. QED
      BY <1>2, <3>2, <3>3, <3>4 DEF FreshOk
  <2>2. ASSUME NEW w \in Visits, w # v
        PROVE  FreshOk(w)'
    <3>1. FreshOk(w)
      BY <1>4, <2>2
    <3>2. Unanswered(w) /\ panel[w].key # None =>
            /\ \A r \in deleted' : r \in deleted \/ r.key # panel[w].key
            /\ staged' # None => staged' = staged \/ staged'.photo.key # panel[w].key
            /\ Answered(v)' => panel'[v].photo.key # panel[w].key
      BY <1>1, <1>2, <3>1 DEF FreshOk, Answered
    <3>3. QED
      BY <1>4, <2>2, <3>2, FreshKept
  <2>3. QED
    BY <2>1, <2>2 DEF FreshInv
<1>11. NextSession \leq NextSession' /\ NextSession \in Nat /\ NextSession' \in Nat
  BY <1>2, <1>3, <1>5, <1>9, SessionsGrow, StagingAssumption DEF TypeOK
<1>12. OrderInv'
  <2>1. OrderOk(v)'
    <3>1. ASSUME NEW r \in Asked(v)
          PROVE  OrderAt(v, r)'
      <4>1. /\ OrderAt(v, r) /\ Within(r) /\ r \in Photo /\ r.session \in Nat
            /\ r.session # 0 /\ r.key \in IdemKey /\ r.key.visit = v
        BY <1>3, AskedTypes DEF OrderOk, AskedInv, Asked
      <4>2. r.session < NextSession => r.session < NextSession'
        BY <1>11, <4>1
      <4>3. Carries(v)' => r.session \leq wire'[v].req.session
        BY <1>1, <4>1 DEF OrderAt, Carries
      <4>4. Answered(v)' /\ panel'[v].photo.key.visit = v =>
              r.session \leq panel'[v].photo.session
        BY <1>1, <4>1 DEF OrderAt, Answered
      <4>5. r \notin deleted' /\ r.key # panel'[v].key => r.session < NextSession'
        BY <1>1, <1>2, <4>1, <4>2 DEF OrderAt
      <4>6. r \notin deleted' /\ r.key # panel'[v].key =>
              (Carries(v)' => r.session < wire'[v].req.session)
        BY <1>1, <1>2, <4>1 DEF OrderAt, Carries
      <4>7. wire'[v].state \in {"sent", "no session"} /\ wire'[v].req.session = 0 =>
              r.session < NextSession'
        BY <1>1, <1>2, <4>1, <4>2 DEF OrderAt
      <4>8. QED
        BY <4>3, <4>4, <4>5, <4>6, <4>7 DEF OrderAt
    <3>2. Asked(v)' \subseteq Asked(v) /\ deleted \subseteq deleted'
      BY <1>2 DEF Asked
    <3>3. QED
      BY <1>3, <3>1, <3>2, OrderFrom
  <2>2. \A w \in Visits : w # v => OrderOk(w)'
    BY <1>2, <1>3, <1>4, <1>11, OrderKept DEF Asked
  <2>3. QED
    BY <2>1, <2>2 DEF OrderInv
<1>13. ReceiptMatchesPhoto'
  BY <1>1, <1>2, <1>3 DEF ReceiptMatchesPhoto
<1>14. QED
  BY <1>5, <1>7, <1>8, <1>9, <1>10, <1>12, <1>13 DEF Inv

(* A panel turns to another stage, and nothing it sends or shows changes.  *)
LEMMA TurnInv ==
  ASSUME Inv, NEW v \in Visits,
         /\ Step(v) /\ (Answered(v)' <=> Answered(v)) /\ (Unanswered(v)' <=> Unanswered(v))
         /\ panel'[v].stage \notin {"absent", "uploading"} /\ panel[v].stage # "absent"
         /\ panel'[v].stage = "error" => panel[v].key # None
         /\ wire'[v].state = "none" \/ (wire'[v].state = "delete" /\ panel'[v].stage = "deleting")
         /\ panel'[v].key = panel[v].key /\ panel'[v].drawn = panel[v].drawn
         /\ panel'[v].photo = panel[v].photo /\ panel'[v].content = panel[v].content,
         UNCHANGED <<visit, visited, content, restarts, staged, ghosts,
                     cookie, sessions, photos, deleted>>
  PROVE  Inv'
<1>1. /\ Step(v) /\ (Answered(v)' <=> Answered(v)) /\ (Unanswered(v)' <=> Unanswered(v))
      /\ panel'[v].stage \notin {"absent", "uploading"} /\ panel[v].stage # "absent"
      /\ panel'[v].stage = "error" => panel[v].key # None
      /\ wire'[v].state = "none" \/ (wire'[v].state = "delete" /\ panel'[v].stage = "deleting")
      /\ panel'[v].key = panel[v].key /\ panel'[v].drawn = panel[v].drawn
      /\ panel'[v].photo = panel[v].photo /\ panel'[v].content = panel[v].content
  OBVIOUS
<1>2. UNCHANGED <<visit, visited, content, restarts, staged, ghosts,
                  cookie, sessions, photos, deleted>>
  OBVIOUS
<1>3. /\ TypeOK /\ StageOk(v) /\ KeyOk(v) /\ AskedInv /\ FreshOk(v) /\ OrderOk(v)
      /\ ReceiptMatchesPhoto
  BY DEF Inv, StageInv, KeyInv, FreshInv, OrderInv
<1>4. \A w \in Visits : w # v => Kept(w) /\ StageOk(w) /\ KeyOk(w) /\ FreshOk(w) /\ OrderOk(w)
  BY <1>1 DEF Inv, StageInv, KeyInv, FreshInv, OrderInv, Step, Kept
<1>5. TypeOK'
  BY <1>1, <1>2, <1>3 DEF TypeOK, Step
<1>6. sessions \leq sessions'
  BY <1>2, <1>3, StagingAssumption DEF TypeOK
<1>7. StageInv'
  <2>1. StageOk(v)'
    BY <1>1, <1>2, <1>3 DEF StageOk, Unanswered
  <2>2. \A w \in Visits : w # v => StageOk(w)'
    BY <1>2, <1>4, StageKept
  <2>3. QED
    BY <2>1, <2>2 DEF StageInv
<1>8. KeyInv'
  <2>1. KeyOk(v)'
    BY <1>1, <1>2, <1>3 DEF KeyOk, Answered, Unanswered
  <2>2. \A w \in Visits : w # v => KeyOk(w)'
    BY <1>2, <1>3, <1>4, <1>5, <1>6, KeyKept
  <2>3. QED
    BY <2>1, <2>2 DEF KeyInv
<1>9. AskedInv'
  <2>1. cookie' \in {0, sessions'} /\ sessions \leq sessions'
    BY <1>2, <1>3, StagingAssumption DEF AskedInv, TypeOK
  <2>2. \A r \in photos' \cup ghosts' : Within(r)
    BY <1>2, <1>3 DEF AskedInv
  <2>3. \A w \in visited : panel[w].drawn \leq panel'[w].drawn
                            /\ panel'[w].content = panel[w].content
    <3>1. \A w \in visited : w \in Visits /\ panel[w].drawn \in Nat
      BY <1>3, Fields DEF TypeOK
    <3>2. \A w \in visited : w # v => panel'[w] = panel[w]
      BY <1>4, <3>1 DEF Kept
    <3>3. v \in visited => panel[v].drawn \leq panel'[v].drawn
                            /\ panel'[v].content = panel[v].content
      BY <1>1, <1>2, <3>1
    <3>4. QED
      BY <3>1, <3>2, <3>3
  <2>4. visited \subseteq visited'
    BY <1>2
  <2>5. QED
    BY <1>3, <1>5, <2>1, <2>2, <2>3, <2>4, AskedKept
<1>10. FreshInv'
  <2>1. FreshOk(v)'
    BY <1>1, <1>2, <1>3, <1>4 DEF FreshOk, Answered, Unanswered, Kept
  <2>2. ASSUME NEW w \in Visits, w # v
        PROVE  FreshOk(w)'
    <3>1. FreshOk(w)
      BY <1>4, <2>2
    <3>2. Unanswered(w) /\ panel[w].key # None =>
            /\ \A r \in deleted' : r \in deleted \/ r.key # panel[w].key
            /\ staged' # None => staged' = staged \/ staged'.photo.key # panel[w].key
            /\ Answered(v)' => panel'[v].photo.key # panel[w].key
      BY <1>1, <1>2, <3>1 DEF FreshOk, Answered
    <3>3. QED
      BY <1>4, <2>2, <3>2, FreshKept
  <2>3. QED
    BY <2>1, <2>2 DEF FreshInv
<1>11. NextSession \leq NextSession' /\ NextSession \in Nat /\ NextSession' \in Nat
  BY <1>2, <1>3, <1>5, <1>9, SessionsGrow, StagingAssumption DEF TypeOK
<1>12. OrderInv'
  <2>1. OrderOk(v)'
    <3>1. ASSUME NEW r \in Asked(v)
          PROVE  OrderAt(v, r)'
      <4>1. /\ OrderAt(v, r) /\ Within(r) /\ r \in Photo /\ r.session \in Nat
            /\ r.session # 0 /\ r.key \in IdemKey /\ r.key.visit = v
        BY <1>3, AskedTypes DEF OrderOk, AskedInv, Asked
      <4>2. r.session < NextSession => r.session < NextSession'
        BY <1>11, <4>1
      <4>3. Carries(v)' => r.session \leq wire'[v].req.session
        BY <1>1, <4>1 DEF OrderAt, Carries
      <4>4. Answered(v)' /\ panel'[v].photo.key.visit = v =>
              r.session \leq panel'[v].photo.session
        BY <1>1, <4>1 DEF OrderAt, Answered, Unanswered
      <4>5. r \notin deleted' /\ r.key # panel'[v].key => r.session < NextSession'
        BY <1>1, <1>2, <4>1, <4>2 DEF OrderAt
      <4>6. r \notin deleted' /\ r.key # panel'[v].key =>
              (Carries(v)' => r.session < wire'[v].req.session)
        BY <1>1, <1>2, <4>1 DEF OrderAt, Carries
      <4>7. wire'[v].state \in {"sent", "no session"} /\ wire'[v].req.session = 0 =>
              r.session < NextSession'
        BY <1>1, <1>2, <4>1, <4>2 DEF OrderAt
      <4>8. QED
        BY <4>3, <4>4, <4>5, <4>6, <4>7 DEF OrderAt
    <3>2. Asked(v)' \subseteq Asked(v) /\ deleted \subseteq deleted'
      BY <1>2 DEF Asked
    <3>3. QED
      BY <1>3, <3>1, <3>2, OrderFrom
  <2>2. \A w \in Visits : w # v => OrderOk(w)'
    BY <1>2, <1>3, <1>4, <1>11, OrderKept DEF Asked
  <2>3. QED
    BY <2>1, <2>2 DEF OrderInv
<1>13. ReceiptMatchesPhoto'
  BY <1>1, <1>2, <1>3 DEF ReceiptMatchesPhoto
<1>14. QED
  BY <1>5, <1>7, <1>8, <1>9, <1>10, <1>12, <1>13 DEF Inv

(* A failed upload leaves the key for a retry.                             *)
LEMMA UploadFailsInv ==
  ASSUME Inv, NEW v \in Visits, UploadFails(v)
  PROVE  Inv'
<1>1. /\ Step(v) /\ panel[v].stage = "uploading" /\ panel'[v].stage = "error"
      /\ panel'[v].key = panel[v].key /\ panel'[v].drawn = panel[v].drawn
      /\ panel'[v].photo = panel[v].photo /\ panel'[v].content = panel[v].content
      /\ wire'[v].state = "none"
  <2>1. panel' = [panel EXCEPT ![v].stage = "error"] /\ TypeOK
        /\ panel[v].stage = "uploading" /\ wire' = [wire EXCEPT ![v] = Quiet]
    BY DEF Inv, UploadFails
  <2>2. QED
    BY <2>1, QuietIsCall, StageEffect, AreStages
<1>2. UNCHANGED <<visit, visited, content, restarts, staged, ghosts,
                  cookie, sessions, photos, deleted>>
  BY DEF UploadFails, page, browser, server
<1>3. panel[v].key # None
  BY <1>1 DEF Inv, KeyInv, KeyOk
<1>4. (Answered(v)' <=> Answered(v)) /\ (Unanswered(v)' <=> Unanswered(v))
  BY <1>1 DEF Answered, Unanswered
<1>5. QED
  BY <1>1, <1>2, <1>3, <1>4, TurnInv

(* The confirmation is asked for, given up, or an error left behind.       *)
LEMMA ClickInv ==
  ASSUME Inv, NEW v \in Visits, AskToStage(v) \/ StepBack(v)
  PROVE  Inv'
<1>1. TypeOK /\ wire[v] \in Call /\ StageOk(v) /\ v \in DOMAIN wire
      /\ wire[v].state \in {"none", "session", "session set", "sent", "saved",
                            "no session", "failed", "delete", "deleted"}
  BY Fields DEF Inv, StageInv, TypeOK
<1>2. PICK s \in {"idle", "confirm"} : panel' = [panel EXCEPT ![v].stage = s]
  BY DEF AskToStage, StepBack
<1>3. UNCHANGED <<visit, visited, content, restarts, staged, wire, ghosts,
                  cookie, sessions, photos, deleted>>
  BY DEF AskToStage, StepBack, page, browser, server
<1>4. panel[v].stage \in {"idle", "confirm", "error"}
  BY <1>1, Offered DEF AskToStage, StepBack
<1>5. wire[v].state = "none"
  BY <1>1, <1>4 DEF StageOk
<1>6. wire' = [wire EXCEPT ![v] = wire[v]]
  BY <1>1, <1>3 DEF TypeOK
<1>7. /\ Step(v) /\ panel'[v].stage = s
      /\ panel'[v].key = panel[v].key /\ panel'[v].drawn = panel[v].drawn
      /\ panel'[v].photo = panel[v].photo /\ panel'[v].content = panel[v].content
      /\ wire'[v] = wire[v]
  BY <1>1, <1>2, <1>6, StageEffect, AreStages
<1>8. (Answered(v)' <=> Answered(v)) /\ (Unanswered(v)' <=> Unanswered(v))
  BY <1>4, <1>7 DEF Answered, Unanswered
<1>9. QED
  BY <1>3, <1>4, <1>5, <1>7, <1>8, TurnInv

(* A removal is asked for.                                                 *)
LEMMA RemoveInv ==
  ASSUME Inv, NEW v \in Visits, Remove(v)
  PROVE  Inv'
<1>1. /\ Step(v) /\ panel[v].stage = "done" /\ panel'[v].stage = "deleting"
      /\ panel'[v].key = panel[v].key /\ panel'[v].drawn = panel[v].drawn
      /\ panel'[v].photo = panel[v].photo /\ panel'[v].content = panel[v].content
      /\ wire'[v].state = "delete"
  <2>1. panel' = [panel EXCEPT ![v].stage = "deleting"] /\ TypeOK
        /\ panel[v].stage = "done"
    BY Offered DEF Inv, Remove
  <2>2. [wire[v] EXCEPT !.state = "delete"] \in Call
        /\ [wire[v] EXCEPT !.state = "delete"].state = "delete"
    BY Fields, StateIsCall DEF Inv
  <2>3. wire' = [wire EXCEPT ![v] = [wire[v] EXCEPT !.state = "delete"]]
    BY DEF Remove
  <2>4. QED
    BY <2>1, <2>2, <2>3, StageEffect, AreStages
<1>2. UNCHANGED <<visit, visited, content, restarts, staged, ghosts,
                       cookie, sessions, photos, deleted>>
  BY DEF Remove, page, browser, server
<1>3. (Answered(v)' <=> Answered(v)) /\ (Unanswered(v)' <=> Unanswered(v))
  BY <1>1 DEF Answered, Unanswered
<1>4. QED
  BY <1>1, <1>2, <1>3, TurnInv

(* What the forgotten key was asked for is deleted, or of a past session.  *)
LEMMA DeletedInv ==
  ASSUME Inv, NEW v \in Visits, Deleted(v)
  PROVE  Inv'
<1>1. /\ Step(v) /\ panel[v].stage = "deleting" /\ panel'[v].stage = "idle"
      /\ panel'[v].key = None /\ panel'[v].drawn = panel[v].drawn
      /\ panel'[v].content = panel[v].content
      /\ panel[v].photo \in deleted /\ panel[v].photo.key = panel[v].key
      /\ wire'[v].state = "none"
  BY DeletedEffect
<1>2. /\ staged' = None
      /\ UNCHANGED <<visit, visited, content, restarts, ghosts, cookie, sessions,
                     photos, deleted>>
  BY DEF Deleted, page, browser, server
<1>3. /\ TypeOK /\ StageOk(v) /\ KeyOk(v) /\ AskedInv /\ FreshOk(v) /\ OrderOk(v)
      /\ ReceiptMatchesPhoto
  BY DEF Inv, StageInv, KeyInv, FreshInv, OrderInv
<1>4. \A w \in Visits : w # v => Kept(w) /\ StageOk(w) /\ KeyOk(w) /\ FreshOk(w) /\ OrderOk(w)
  BY <1>1 DEF Inv, StageInv, KeyInv, FreshInv, OrderInv, Step, Kept
<1>5. TypeOK'
  BY <1>1, <1>2, <1>3 DEF TypeOK, Step
<1>6. sessions \leq sessions'
  BY <1>2, <1>3, StagingAssumption DEF TypeOK
<1>7. StageInv'
  <2>1. StageOk(v)'
    BY <1>1, <1>2, <1>3 DEF StageOk
  <2>2. \A w \in Visits : w # v => StageOk(w)'
    BY <1>2, <1>4, StageKept
  <2>3. QED
    BY <2>1, <2>2 DEF StageInv
<1>8. KeyInv'
  <2>1. KeyOk(v)'
    BY <1>1, <1>2, <1>3 DEF KeyOk, Answered, Unanswered
  <2>2. \A w \in Visits : w # v => KeyOk(w)'
    BY <1>2, <1>3, <1>4, <1>5, <1>6, KeyKept
  <2>3. QED
    BY <2>1, <2>2 DEF KeyInv
<1>9. AskedInv'
  <2>1. cookie' \in {0, sessions'} /\ sessions \leq sessions'
    BY <1>2, <1>3, StagingAssumption DEF AskedInv, TypeOK
  <2>2. \A r \in photos' \cup ghosts' : Within(r)
    BY <1>2, <1>3 DEF AskedInv
  <2>3. \A w \in visited : panel[w].drawn \leq panel'[w].drawn
                            /\ panel'[w].content = panel[w].content
    <3>1. \A w \in visited : w \in Visits /\ panel[w].drawn \in Nat
      BY <1>3, Fields DEF TypeOK
    <3>2. \A w \in visited : w # v => panel'[w] = panel[w]
      BY <1>4, <3>1 DEF Kept
    <3>3. v \in visited => panel[v].drawn \leq panel'[v].drawn
                            /\ panel'[v].content = panel[v].content
      BY <1>1, <1>2, <3>1
    <3>4. QED
      BY <3>1, <3>2, <3>3
  <2>4. visited \subseteq visited'
    BY <1>2
  <2>5. QED
    BY <1>3, <1>5, <2>1, <2>2, <2>3, <2>4, AskedKept
<1>10. FreshInv'
  <2>1. FreshOk(v)'
    BY <1>1, <1>2, <1>3, <1>4 DEF FreshOk, Answered, Unanswered, Kept
  <2>2. ASSUME NEW w \in Visits, w # v
        PROVE  FreshOk(w)'
    <3>1. FreshOk(w)
      BY <1>4, <2>2
    <3>2. Unanswered(w) /\ panel[w].key # None =>
            /\ \A r \in deleted' : r \in deleted \/ r.key # panel[w].key
            /\ staged' # None => staged' = staged \/ staged'.photo.key # panel[w].key
            /\ Answered(v)' => panel'[v].photo.key # panel[w].key
      BY <1>1, <1>2, <3>1 DEF FreshOk, Answered
    <3>3. QED
      BY <1>4, <2>2, <3>2, FreshKept
  <2>3. QED
    BY <2>1, <2>2 DEF FreshInv
<1>11. NextSession \leq NextSession' /\ NextSession \in Nat /\ NextSession' \in Nat
  BY <1>2, <1>3, <1>5, <1>9, SessionsGrow, StagingAssumption DEF TypeOK
<1>12. OrderInv'
  <2>1. OrderOk(v)'
    <3>1. ASSUME NEW r \in Asked(v)
          PROVE  OrderAt(v, r)'
      <4>1. /\ OrderAt(v, r) /\ Within(r) /\ r \in Photo /\ r.session \in Nat
            /\ r.session # 0 /\ r.key \in IdemKey /\ r.key.visit = v
        BY <1>3, AskedTypes DEF OrderOk, AskedInv, Asked
      <4>2. r.session < NextSession => r.session < NextSession'
        BY <1>11, <4>1
      <4>3. Carries(v)' => r.session \leq wire'[v].req.session
        BY <1>1, <4>1 DEF OrderAt, Carries
      <4>4. Answered(v)' /\ panel'[v].photo.key.visit = v =>
              r.session \leq panel'[v].photo.session
        BY <1>1, <4>1 DEF OrderAt, Answered
      <4>5. r \notin deleted' /\ r.key # panel'[v].key => r.session < NextSession'
        <5>1. SUFFICES ASSUME r \notin deleted PROVE r.session < NextSession
          BY <1>11, <4>1, <4>2, <1>2
        <5>2. CASE r.key # panel[v].key
          BY <4>1, <5>1, <5>2 DEF OrderAt
        <5>3. CASE r.key = panel[v].key
          <6>1. /\ panel[v].photo \in photos /\ panel[v].photo.key = panel[v].key
                /\ panel[v].photo \in Photo /\ panel[v].photo.key.visit = v
            BY <1>1, <1>3, <4>1, <5>3 DEF TypeOK
          <6>2. Within(panel[v].photo) /\ panel[v].photo \in Asked(v)
            BY <1>3, <6>1 DEF AskedInv, Asked
          <6>3. r.session \leq panel[v].photo.session
            BY <1>1, <4>1, <6>1 DEF OrderAt, Answered
          <6>4. r.content = panel[v].photo.content
            BY <4>1, <6>1, <6>2 DEF Within
          <6>5. r.session # panel[v].photo.session
            BY <1>1, <4>1, <5>1, <5>3, <6>1, <6>4 DEF Photo
          <6>6. panel[v].photo.session \in Nat /\ panel[v].photo.session \leq sessions
            BY <1>3, <6>2, AskedTypes DEF Within
          <6>7. sessions \in Nat /\ sessions \leq NextSession
            BY <1>3, LatestCookie
          <6>8. QED
            BY <1>11, <4>1, <6>3, <6>5, <6>6, <6>7
        <5>4. QED
          BY <5>2, <5>3
      <4>6. r \notin deleted' /\ r.key # panel'[v].key =>
              (Carries(v)' => r.session < wire'[v].req.session)
        BY <1>1, <1>2, <4>1 DEF OrderAt, Carries
      <4>7. wire'[v].state \in {"sent", "no session"} /\ wire'[v].req.session = 0 =>
              r.session < NextSession'
        BY <1>1, <1>2, <4>1, <4>2 DEF OrderAt
      <4>8. QED
        BY <4>3, <4>4, <4>5, <4>6, <4>7 DEF OrderAt
    <3>2. Asked(v)' \subseteq Asked(v) /\ deleted \subseteq deleted'
      BY <1>2 DEF Asked
    <3>3. QED
      BY <1>3, <3>1, <3>2, OrderFrom
  <2>2. \A w \in Visits : w # v => OrderOk(w)'
    BY <1>2, <1>3, <1>4, <1>11, OrderKept DEF Asked
  <2>3. QED
    BY <2>1, <2>2 DEF OrderInv
<1>13. ReceiptMatchesPhoto'
  BY <1>1, <1>2, <1>3 DEF ReceiptMatchesPhoto
<1>14. QED
  BY <1>5, <1>7, <1>8, <1>9, <1>10, <1>12, <1>13 DEF Inv

(* A failed removal leaves the photo on show.                              *)
LEMMA DeleteFailsInv ==
  ASSUME Inv, NEW v \in Visits, DeleteFails(v)
  PROVE  Inv'
<1>1. /\ Step(v) /\ panel[v].stage = "deleting" /\ panel'[v].stage = "done"
      /\ panel'[v].key = panel[v].key /\ panel'[v].drawn = panel[v].drawn
      /\ panel'[v].photo = panel[v].photo /\ panel'[v].content = panel[v].content
      /\ wire'[v].state = "none"
  <2>1. panel' = [panel EXCEPT ![v].stage = "done"] /\ TypeOK
        /\ panel[v].stage = "deleting" /\ wire' = [wire EXCEPT ![v] = Quiet]
    BY DEF Inv, DeleteFails
  <2>2. QED
    BY <2>1, QuietIsCall, StageEffect, AreStages
<1>2. UNCHANGED <<visit, visited, content, restarts, staged, ghosts,
                       cookie, sessions, photos, deleted>>
  BY DEF DeleteFails, page, browser, server
<1>3. (Answered(v)' <=> Answered(v)) /\ (Unanswered(v)' <=> Unanswered(v))
  BY <1>1 DEF Answered, Unanswered
<1>4. QED
  BY <1>1, <1>2, <1>3, TurnInv

(* A session is created, which is later than every other.                  *)
LEMMA SessionCreatedInv ==
  ASSUME Inv, NEW v \in Visits, SessionCreated(v)
  PROVE  Inv'
<1>1. /\ Step(v) /\ panel'[v] = panel[v]
      /\ wire'[v].state = "session set"
  BY CallEffect DEF Inv, SessionCreated
<1>2. /\ wire[v].state = "session" /\ sessions < MaxSessions
      /\ sessions' = sessions + 1 /\ cookie' = sessions + 1
      /\ UNCHANGED <<visit, visited, content, restarts, staged, ghosts, photos, deleted>>
  BY DEF SessionCreated, page, browser, server
<1>3. /\ TypeOK /\ StageOk(v) /\ KeyOk(v) /\ AskedInv /\ FreshOk(v) /\ OrderOk(v)
      /\ ReceiptMatchesPhoto
  BY DEF Inv, StageInv, KeyInv, FreshInv, OrderInv
<1>4. \A w \in Visits : w # v => Kept(w) /\ StageOk(w) /\ KeyOk(w) /\ FreshOk(w) /\ OrderOk(w)
  BY <1>1 DEF Inv, StageInv, KeyInv, FreshInv, OrderInv, Step, Kept
<1>5. TypeOK'
  <2>1. sessions + 1 \in 0 .. MaxSessions
    BY <1>2, <1>3, StagingAssumption DEF TypeOK
  <2>2. QED
    BY <1>1, <1>2, <1>3, <2>1 DEF TypeOK, Step
<1>6. sessions \leq sessions'
  BY <1>2, <1>3, StagingAssumption DEF TypeOK
<1>7. StageInv'
  <2>1. StageOk(v)'
    BY <1>1, <1>2, <1>3 DEF StageOk
  <2>2. \A w \in Visits : w # v => StageOk(w)'
    BY <1>2, <1>4, StageKept
  <2>3. QED
    BY <2>1, <2>2 DEF StageInv
<1>8. KeyInv'
  <2>1. KeyOk(v)'
    BY <1>1, <1>2, <1>3 DEF KeyOk, Answered, Unanswered
  <2>2. \A w \in Visits : w # v => KeyOk(w)'
    BY <1>2, <1>3, <1>4, <1>5, <1>6, KeyKept
  <2>3. QED
    BY <2>1, <2>2 DEF KeyInv
<1>9. AskedInv'
  <2>1. cookie' \in {0, sessions'} /\ sessions \leq sessions'
    BY <1>2, <1>3, StagingAssumption DEF AskedInv, TypeOK
  <2>2. \A r \in photos' \cup ghosts' : Within(r)
    BY <1>2, <1>3 DEF AskedInv
  <2>3. \A w \in visited : panel[w].drawn \leq panel'[w].drawn
                            /\ panel'[w].content = panel[w].content
    <3>1. \A w \in visited : w \in Visits /\ panel[w].drawn \in Nat
      BY <1>3, Fields DEF TypeOK
    <3>2. \A w \in visited : w # v => panel'[w] = panel[w]
      BY <1>4, <3>1 DEF Kept
    <3>3. v \in visited => panel[v].drawn \leq panel'[v].drawn
                            /\ panel'[v].content = panel[v].content
      <4>1. \A n \in Nat : n \leq n /\ n \leq n + 1
        OBVIOUS
      <4>2. QED
        BY <1>1, <3>1, <4>1
    <3>4. QED
      BY <3>1, <3>2, <3>3
  <2>4. visited \subseteq visited'
    BY <1>2
  <2>5. QED
    BY <1>3, <1>5, <2>1, <2>2, <2>3, <2>4, AskedKept
<1>10. FreshInv'
  <2>1. FreshOk(v)'
    BY <1>1, <1>2, <1>3, <1>4 DEF FreshOk, Answered, Unanswered, Kept
  <2>2. ASSUME NEW w \in Visits, w # v
        PROVE  FreshOk(w)'
    <3>1. FreshOk(w)
      BY <1>4, <2>2
    <3>2. Unanswered(w) /\ panel[w].key # None =>
            /\ \A r \in deleted' : r \in deleted \/ r.key # panel[w].key
            /\ staged' # None => staged' = staged \/ staged'.photo.key # panel[w].key
            /\ Answered(v)' => panel'[v].photo.key # panel[w].key
      BY <1>1, <1>2, <3>1 DEF FreshOk, Answered
    <3>3. QED
      BY <1>4, <2>2, <3>2, FreshKept
  <2>3. QED
    BY <2>1, <2>2 DEF FreshInv
<1>11. NextSession \leq NextSession' /\ NextSession \in Nat /\ NextSession' \in Nat
  BY <1>2, <1>3, <1>5, <1>9, SessionsGrow, StagingAssumption DEF TypeOK
<1>12. OrderInv'
  <2>1. OrderOk(v)'
    <3>1. ASSUME NEW r \in Asked(v)
          PROVE  OrderAt(v, r)'
      <4>1. /\ OrderAt(v, r) /\ Within(r) /\ r \in Photo /\ r.session \in Nat
            /\ r.session # 0 /\ r.key \in IdemKey /\ r.key.visit = v
        BY <1>3, AskedTypes DEF OrderOk, AskedInv, Asked
      <4>2. r.session < NextSession => r.session < NextSession'
        BY <1>11, <4>1
      <4>3. Carries(v)' => r.session \leq wire'[v].req.session
        BY <1>1, <4>1 DEF OrderAt, Carries
      <4>4. Answered(v)' /\ panel'[v].photo.key.visit = v =>
              r.session \leq panel'[v].photo.session
        BY <1>1, <4>1 DEF OrderAt, Answered
      <4>5. r \notin deleted' /\ r.key # panel'[v].key => r.session < NextSession'
        BY <1>1, <1>2, <4>1, <4>2 DEF OrderAt
      <4>6. r \notin deleted' /\ r.key # panel'[v].key =>
              (Carries(v)' => r.session < wire'[v].req.session)
        BY <1>1, <1>2, <4>1 DEF OrderAt, Carries
      <4>7. wire'[v].state \in {"sent", "no session"} /\ wire'[v].req.session = 0 =>
              r.session < NextSession'
        BY <1>1, <1>2, <4>1, <4>2 DEF OrderAt
      <4>8. QED
        BY <4>3, <4>4, <4>5, <4>6, <4>7 DEF OrderAt
    <3>2. Asked(v)' \subseteq Asked(v) /\ deleted \subseteq deleted'
      BY <1>2 DEF Asked
    <3>3. QED
      BY <1>3, <3>1, <3>2, OrderFrom
  <2>2. \A w \in Visits : w # v => OrderOk(w)'
    BY <1>2, <1>3, <1>4, <1>11, OrderKept DEF Asked
  <2>3. QED
    BY <2>1, <2>2 DEF OrderInv
<1>13. ReceiptMatchesPhoto'
  BY <1>1, <1>2, <1>3 DEF ReceiptMatchesPhoto
<1>14. QED
  BY <1>5, <1>7, <1>8, <1>9, <1>10, <1>12, <1>13 DEF Inv

(* The server handles a save, or replays it.                               *)
LEMMA SaveHandledInv ==
  ASSUME Inv, NEW v \in Visits, SaveHandled(v)
  PROVE  Inv'
<1>1. /\ Step(v) /\ panel'[v] = panel[v] /\ wire'[v].req = wire[v].req
      /\ wire'[v].state = IF wire[v].req.session = 0 THEN "no session" ELSE "saved"
  BY CallEffect DEF Inv, SaveHandled
<1>2. /\ wire[v].state = "sent"
      /\ photos' = IF wire[v].req.session = 0 THEN photos ELSE photos \cup {wire[v].req}
      /\ UNCHANGED <<visit, visited, content, restarts, staged, ghosts, cookie,
                     sessions, deleted>>
  BY DEF SaveHandled, page, browser, server
<1>3. /\ TypeOK /\ StageOk(v) /\ KeyOk(v) /\ AskedInv /\ FreshOk(v) /\ OrderOk(v)
      /\ ReceiptMatchesPhoto
  BY DEF Inv, StageInv, KeyInv, FreshInv, OrderInv
<1>4. \A w \in Visits : w # v => Kept(w) /\ StageOk(w) /\ KeyOk(w) /\ FreshOk(w) /\ OrderOk(w)
  BY <1>1 DEF Inv, StageInv, KeyInv, FreshInv, OrderInv, Step, Kept
<1>5. TypeOK'
  <2>1. photos' \subseteq Photo /\ deleted' \subseteq photos'
    BY <1>2, <1>3, OnItsWay DEF TypeOK
  <2>2. QED
    BY <1>1, <1>2, <1>3, <2>1 DEF TypeOK, Step
<1>6. sessions \leq sessions'
  BY <1>2, <1>3, StagingAssumption DEF TypeOK
<1>7. StageInv'
  <2>1. StageOk(v)'
    BY <1>1, <1>2, <1>3 DEF StageOk
  <2>2. \A w \in Visits : w # v => StageOk(w)'
    BY <1>2, <1>4, StageKept
  <2>3. QED
    BY <2>1, <2>2 DEF StageInv
<1>8. KeyInv'
  <2>1. KeyOk(v)'
    BY <1>1, <1>2, <1>3 DEF KeyOk, Answered, Unanswered
  <2>2. \A w \in Visits : w # v => KeyOk(w)'
    BY <1>2, <1>3, <1>4, <1>5, <1>6, KeyKept
  <2>3. QED
    BY <2>1, <2>2 DEF KeyInv
<1>9. AskedInv'
  <2>1. cookie' \in {0, sessions'} /\ sessions \leq sessions'
    BY <1>2, <1>3, StagingAssumption DEF AskedInv, TypeOK
  <2>2. \A r \in photos' \cup ghosts' : Within(r)
    BY <1>2, <1>3, OnItsWay DEF AskedInv
  <2>3. \A w \in visited : panel[w].drawn \leq panel'[w].drawn
                            /\ panel'[w].content = panel[w].content
    <3>1. \A w \in visited : w \in Visits /\ panel[w].drawn \in Nat
      BY <1>3, Fields DEF TypeOK
    <3>2. \A w \in visited : w # v => panel'[w] = panel[w]
      BY <1>4, <3>1 DEF Kept
    <3>3. v \in visited => panel[v].drawn \leq panel'[v].drawn
                            /\ panel'[v].content = panel[v].content
      <4>1. \A n \in Nat : n \leq n /\ n \leq n + 1
        OBVIOUS
      <4>2. QED
        BY <1>1, <3>1, <4>1
    <3>4. QED
      BY <3>1, <3>2, <3>3
  <2>4. visited \subseteq visited'
    BY <1>2
  <2>5. QED
    BY <1>3, <1>5, <2>1, <2>2, <2>3, <2>4, AskedKept
<1>10. FreshInv'
  <2>1. FreshOk(v)'
    BY <1>1, <1>2, <1>3, <1>4 DEF FreshOk, Answered, Unanswered, Kept
  <2>2. ASSUME NEW w \in Visits, w # v
        PROVE  FreshOk(w)'
    <3>1. FreshOk(w)
      BY <1>4, <2>2
    <3>2. Unanswered(w) /\ panel[w].key # None =>
            /\ \A r \in deleted' : r \in deleted \/ r.key # panel[w].key
            /\ staged' # None => staged' = staged \/ staged'.photo.key # panel[w].key
            /\ Answered(v)' => panel'[v].photo.key # panel[w].key
      BY <1>1, <1>2, <3>1 DEF FreshOk, Answered
    <3>3. QED
      BY <1>4, <2>2, <3>2, FreshKept
  <2>3. QED
    BY <2>1, <2>2 DEF FreshInv
<1>11. NextSession \leq NextSession' /\ NextSession \in Nat /\ NextSession' \in Nat
  BY <1>2, <1>3, <1>5, <1>9, SessionsGrow, StagingAssumption DEF TypeOK
<1>12. OrderInv'
  <2>1. OrderOk(v)'
    <3> PICK new : new = wire[v].req
      OBVIOUS
    <3> DEFINE stored == wire[v].state = "sent" /\ new.session # 0
    <3>0. stored => /\ Within(new) /\ new.session \in Nat /\ new.session # 0
                    /\ new.key = panel[v].key /\ new.key.visit = v
                    /\ Carries(v) /\ ~Answered(v)
      BY <1>3, OnItsWay
    <3>1. ASSUME NEW r \in Asked(v)
          PROVE  OrderAt(v, r)'
      <4>1. /\ OrderAt(v, r) /\ Within(r) /\ r \in Photo /\ r.session \in Nat
            /\ r.session # 0 /\ r.key \in IdemKey /\ r.key.visit = v
        BY <1>3, AskedTypes DEF OrderOk, AskedInv, Asked
      <4>2. r.session < NextSession => r.session < NextSession'
        BY <1>11, <4>1
      <4>3. Carries(v)' => r.session \leq wire'[v].req.session
        BY <1>1, <1>2, <4>1 DEF OrderAt, Carries
      <4>4. Answered(v)' /\ panel'[v].photo.key.visit = v =>
              r.session \leq panel'[v].photo.session
        BY <1>1, <4>1 DEF OrderAt, Answered
      <4>5. r \notin deleted' /\ r.key # panel'[v].key => r.session < NextSession'
        BY <1>1, <1>2, <4>1, <4>2 DEF OrderAt
      <4>6. r \notin deleted' /\ r.key # panel'[v].key =>
              (Carries(v)' => r.session < wire'[v].req.session)
        BY <1>1, <1>2, <4>1 DEF OrderAt, Carries
      <4>7. wire'[v].state \in {"sent", "no session"} /\ wire'[v].req.session = 0 =>
              r.session < NextSession'
        BY <1>1, <1>2, <4>1, <4>2 DEF OrderAt
      <4>8. QED
        BY <4>3, <4>4, <4>5, <4>6, <4>7 DEF OrderAt
    <3>2. stored => OrderAt(v, new)'
      <4>1. stored => ~Answered(v)' /\ panel'[v].key = new.key /\ wire'[v].req = new
        BY <1>1, <3>0 DEF Answered
      <4>2. stored => new.session \leq new.session
        BY <3>0
      <4>3. SUFFICES ASSUME stored PROVE OrderAt(v, new)'
        OBVIOUS
      <4>4. QED
        BY <3>0, <4>1, <4>2, <4>3 DEF OrderAt, Carries
    <3>3. ASSUME NEW q \in Asked(v), stored
          PROVE  Apart(q, new)' /\ Apart(new, q)'
      <4>1. OrderAt(v, q) /\ q.session \in Nat
        BY <1>3, AskedTypes DEF OrderOk
      <4>2. q \notin deleted /\ q.key # new.key => q.session < new.session
        BY <3>0, <3>3, <4>1 DEF OrderAt
      <4>3. QED
        BY <1>2, <3>0, <4>1, <4>2 DEF Apart
    <3>4. \A r \in Asked(v)' : r \in Asked(v) \/ (r = new /\ stored)
      BY <1>2, <3>0 DEF Asked
    <3>5. \A r, q \in Asked(v) : Apart(r, q)'
      BY <1>2, <1>3 DEF OrderOk, Apart
    <3>6. Apart(new, new)'
      BY DEF Apart
    <3>7. \A r \in Asked(v)' : OrderAt(v, r)'
      BY <3>1, <3>2, <3>4
    <3>8. \A r, q \in Asked(v)' : Apart(r, q)'
      BY <3>3, <3>4, <3>5, <3>6
    <3>9. QED
      BY <3>7, <3>8 DEF OrderOk
  <2>2. \A w \in Visits : w # v => OrderOk(w)'
    <3>1. wire[v].state = "sent" => wire[v].req.key.visit = v
      BY <1>3, OnItsWay
    <3>2. \A w \in Visits : w # v => Asked(w)' \subseteq Asked(w)
      BY <1>2, <3>1 DEF Asked
    <3>3. deleted \subseteq deleted'
      BY <1>2
    <3>4. QED
      BY <1>3, <1>4, <1>11, <3>2, <3>3, OrderKept
  <2>3. QED
    BY <2>1, <2>2 DEF OrderInv
<1>13. ReceiptMatchesPhoto'
  BY <1>1, <1>2, <1>3 DEF ReceiptMatchesPhoto
<1>14. QED
  BY <1>5, <1>7, <1>8, <1>9, <1>10, <1>12, <1>13 DEF Inv

(* An endpoint refuses.                                                    *)
LEMMA RefusedInv ==
  ASSUME Inv, NEW v \in Visits, Refused(v)
  PROVE  Inv'
<1>1. /\ Step(v) /\ panel'[v] = panel[v] /\ wire'[v].req = wire[v].req
      /\ wire'[v].state = "failed"
  BY CallEffect DEF Inv, Refused
<1>2. /\ wire[v].state \in {"session", "sent", "delete"}
      /\ UNCHANGED <<visit, visited, content, restarts, staged, ghosts,
                     cookie, sessions, photos, deleted>>
  BY DEF Refused, page, browser, server
<1>3. /\ TypeOK /\ StageOk(v) /\ KeyOk(v) /\ AskedInv /\ FreshOk(v) /\ OrderOk(v)
      /\ ReceiptMatchesPhoto
  BY DEF Inv, StageInv, KeyInv, FreshInv, OrderInv
<1>4. \A w \in Visits : w # v => Kept(w) /\ StageOk(w) /\ KeyOk(w) /\ FreshOk(w) /\ OrderOk(w)
  BY <1>1 DEF Inv, StageInv, KeyInv, FreshInv, OrderInv, Step, Kept
<1>5. TypeOK'
  BY <1>1, <1>2, <1>3 DEF TypeOK, Step
<1>6. sessions \leq sessions'
  BY <1>2, <1>3, StagingAssumption DEF TypeOK
<1>7. StageInv'
  <2>1. StageOk(v)'
    BY <1>1, <1>2, <1>3 DEF StageOk
  <2>2. \A w \in Visits : w # v => StageOk(w)'
    BY <1>2, <1>4, StageKept
  <2>3. QED
    BY <2>1, <2>2 DEF StageInv
<1>8. KeyInv'
  <2>1. KeyOk(v)'
    BY <1>1, <1>2, <1>3 DEF KeyOk, Answered, Unanswered
  <2>2. \A w \in Visits : w # v => KeyOk(w)'
    BY <1>2, <1>3, <1>4, <1>5, <1>6, KeyKept
  <2>3. QED
    BY <2>1, <2>2 DEF KeyInv
<1>9. AskedInv'
  <2>1. cookie' \in {0, sessions'} /\ sessions \leq sessions'
    BY <1>2, <1>3, StagingAssumption DEF AskedInv, TypeOK
  <2>2. \A r \in photos' \cup ghosts' : Within(r)
    BY <1>2, <1>3 DEF AskedInv
  <2>3. \A w \in visited : panel[w].drawn \leq panel'[w].drawn
                            /\ panel'[w].content = panel[w].content
    <3>1. \A w \in visited : w \in Visits /\ panel[w].drawn \in Nat
      BY <1>3, Fields DEF TypeOK
    <3>2. \A w \in visited : w # v => panel'[w] = panel[w]
      BY <1>4, <3>1 DEF Kept
    <3>3. v \in visited => panel[v].drawn \leq panel'[v].drawn
                            /\ panel'[v].content = panel[v].content
      <4>1. \A n \in Nat : n \leq n /\ n \leq n + 1
        OBVIOUS
      <4>2. QED
        BY <1>1, <3>1, <4>1
    <3>4. QED
      BY <3>1, <3>2, <3>3
  <2>4. visited \subseteq visited'
    BY <1>2
  <2>5. QED
    BY <1>3, <1>5, <2>1, <2>2, <2>3, <2>4, AskedKept
<1>10. FreshInv'
  <2>1. FreshOk(v)'
    BY <1>1, <1>2, <1>3, <1>4 DEF FreshOk, Answered, Unanswered, Kept
  <2>2. ASSUME NEW w \in Visits, w # v
        PROVE  FreshOk(w)'
    <3>1. FreshOk(w)
      BY <1>4, <2>2
    <3>2. Unanswered(w) /\ panel[w].key # None =>
            /\ \A r \in deleted' : r \in deleted \/ r.key # panel[w].key
            /\ staged' # None => staged' = staged \/ staged'.photo.key # panel[w].key
            /\ Answered(v)' => panel'[v].photo.key # panel[w].key
      BY <1>1, <1>2, <3>1 DEF FreshOk, Answered
    <3>3. QED
      BY <1>4, <2>2, <3>2, FreshKept
  <2>3. QED
    BY <2>1, <2>2 DEF FreshInv
<1>11. NextSession \leq NextSession' /\ NextSession \in Nat /\ NextSession' \in Nat
  BY <1>2, <1>3, <1>5, <1>9, SessionsGrow, StagingAssumption DEF TypeOK
<1>12. OrderInv'
  <2>1. OrderOk(v)'
    <3>1. ASSUME NEW r \in Asked(v)
          PROVE  OrderAt(v, r)'
      <4>1. /\ OrderAt(v, r) /\ Within(r) /\ r \in Photo /\ r.session \in Nat
            /\ r.session # 0 /\ r.key \in IdemKey /\ r.key.visit = v
        BY <1>3, AskedTypes DEF OrderOk, AskedInv, Asked
      <4>2. r.session < NextSession => r.session < NextSession'
        BY <1>11, <4>1
      <4>3. Carries(v)' => r.session \leq wire'[v].req.session
        BY <1>1, <4>1 DEF OrderAt, Carries
      <4>4. Answered(v)' /\ panel'[v].photo.key.visit = v =>
              r.session \leq panel'[v].photo.session
        BY <1>1, <4>1 DEF OrderAt, Answered
      <4>5. r \notin deleted' /\ r.key # panel'[v].key => r.session < NextSession'
        BY <1>1, <1>2, <4>1, <4>2 DEF OrderAt
      <4>6. r \notin deleted' /\ r.key # panel'[v].key =>
              (Carries(v)' => r.session < wire'[v].req.session)
        BY <1>1, <1>2, <4>1 DEF OrderAt, Carries
      <4>7. wire'[v].state \in {"sent", "no session"} /\ wire'[v].req.session = 0 =>
              r.session < NextSession'
        BY <1>1, <1>2, <4>1, <4>2 DEF OrderAt
      <4>8. QED
        BY <4>3, <4>4, <4>5, <4>6, <4>7 DEF OrderAt
    <3>2. Asked(v)' \subseteq Asked(v) /\ deleted \subseteq deleted'
      BY <1>2 DEF Asked
    <3>3. QED
      BY <1>3, <3>1, <3>2, OrderFrom
  <2>2. \A w \in Visits : w # v => OrderOk(w)'
    BY <1>2, <1>3, <1>4, <1>11, OrderKept DEF Asked
  <2>3. QED
    BY <2>1, <2>2 DEF OrderInv
<1>13. ReceiptMatchesPhoto'
  BY <1>1, <1>2, <1>3 DEF ReceiptMatchesPhoto
<1>14. QED
  BY <1>5, <1>7, <1>8, <1>9, <1>10, <1>12, <1>13 DEF Inv

(* A request may be handled after its panel has given up on it.            *)
LEMMA ConnectionLostInv ==
  ASSUME Inv, NEW v \in Visits, ConnectionLost(v)
  PROVE  Inv'
<1>1. /\ Step(v) /\ panel'[v] = panel[v] /\ wire'[v].req = wire[v].req
      /\ wire'[v].state = "failed"
  BY CallEffect DEF Inv, ConnectionLost
<1>2. /\ wire[v].state \in {"sent", "saved", "deleted"}
      /\ \/ ghosts' = ghosts
         \/ /\ wire[v].state = "sent" /\ wire[v].req.session # 0
            /\ ghosts' = ghosts \cup {wire[v].req}
      /\ UNCHANGED <<visit, visited, content, restarts, staged,
                     cookie, sessions, photos, deleted>>
  BY DEF ConnectionLost, page, browser, server
<1>3. /\ TypeOK /\ StageOk(v) /\ KeyOk(v) /\ AskedInv /\ FreshOk(v) /\ OrderOk(v)
      /\ ReceiptMatchesPhoto
  BY DEF Inv, StageInv, KeyInv, FreshInv, OrderInv
<1>4. \A w \in Visits : w # v => Kept(w) /\ StageOk(w) /\ KeyOk(w) /\ FreshOk(w) /\ OrderOk(w)
  BY <1>1 DEF Inv, StageInv, KeyInv, FreshInv, OrderInv, Step, Kept
<1>5. TypeOK'
  <2>1. ghosts' \subseteq Photo
    BY <1>2, <1>3, OnItsWay DEF TypeOK
  <2>2. QED
    BY <1>1, <1>2, <1>3, <2>1 DEF TypeOK, Step
<1>6. sessions \leq sessions'
  BY <1>2, <1>3, StagingAssumption DEF TypeOK
<1>7. StageInv'
  <2>1. StageOk(v)'
    BY <1>1, <1>2, <1>3 DEF StageOk
  <2>2. \A w \in Visits : w # v => StageOk(w)'
    BY <1>2, <1>4, StageKept
  <2>3. QED
    BY <2>1, <2>2 DEF StageInv
<1>8. KeyInv'
  <2>1. KeyOk(v)'
    BY <1>1, <1>2, <1>3 DEF KeyOk, Answered, Unanswered
  <2>2. \A w \in Visits : w # v => KeyOk(w)'
    BY <1>2, <1>3, <1>4, <1>5, <1>6, KeyKept
  <2>3. QED
    BY <2>1, <2>2 DEF KeyInv
<1>9. AskedInv'
  <2>1. cookie' \in {0, sessions'} /\ sessions \leq sessions'
    BY <1>2, <1>3, StagingAssumption DEF AskedInv, TypeOK
  <2>2. \A r \in photos' \cup ghosts' : Within(r)
    BY <1>2, <1>3, OnItsWay DEF AskedInv
  <2>3. \A w \in visited : panel[w].drawn \leq panel'[w].drawn
                            /\ panel'[w].content = panel[w].content
    <3>1. \A w \in visited : w \in Visits /\ panel[w].drawn \in Nat
      BY <1>3, Fields DEF TypeOK
    <3>2. \A w \in visited : w # v => panel'[w] = panel[w]
      BY <1>4, <3>1 DEF Kept
    <3>3. v \in visited => panel[v].drawn \leq panel'[v].drawn
                            /\ panel'[v].content = panel[v].content
      <4>1. \A n \in Nat : n \leq n /\ n \leq n + 1
        OBVIOUS
      <4>2. QED
        BY <1>1, <3>1, <4>1
    <3>4. QED
      BY <3>1, <3>2, <3>3
  <2>4. visited \subseteq visited'
    BY <1>2
  <2>5. QED
    BY <1>3, <1>5, <2>1, <2>2, <2>3, <2>4, AskedKept
<1>10. FreshInv'
  <2>1. FreshOk(v)'
    BY <1>1, <1>2, <1>3, <1>4 DEF FreshOk, Answered, Unanswered, Kept
  <2>2. ASSUME NEW w \in Visits, w # v
        PROVE  FreshOk(w)'
    <3>1. FreshOk(w)
      BY <1>4, <2>2
    <3>2. Unanswered(w) /\ panel[w].key # None =>
            /\ \A r \in deleted' : r \in deleted \/ r.key # panel[w].key
            /\ staged' # None => staged' = staged \/ staged'.photo.key # panel[w].key
            /\ Answered(v)' => panel'[v].photo.key # panel[w].key
      BY <1>1, <1>2, <3>1 DEF FreshOk, Answered
    <3>3. QED
      BY <1>4, <2>2, <3>2, FreshKept
  <2>3. QED
    BY <2>1, <2>2 DEF FreshInv
<1>11. NextSession \leq NextSession' /\ NextSession \in Nat /\ NextSession' \in Nat
  BY <1>2, <1>3, <1>5, <1>9, SessionsGrow, StagingAssumption DEF TypeOK
<1>12. OrderInv'
  <2>1. OrderOk(v)'
    <3> PICK new : new = wire[v].req
      OBVIOUS
    <3> DEFINE stored == wire[v].state = "sent" /\ new.session # 0
    <3>0. stored => /\ Within(new) /\ new.session \in Nat /\ new.session # 0
                    /\ new.key = panel[v].key /\ new.key.visit = v
                    /\ Carries(v) /\ ~Answered(v)
      BY <1>3, OnItsWay
    <3>1. ASSUME NEW r \in Asked(v)
          PROVE  OrderAt(v, r)'
      <4>1. /\ OrderAt(v, r) /\ Within(r) /\ r \in Photo /\ r.session \in Nat
            /\ r.session # 0 /\ r.key \in IdemKey /\ r.key.visit = v
        BY <1>3, AskedTypes DEF OrderOk, AskedInv, Asked
      <4>2. r.session < NextSession => r.session < NextSession'
        BY <1>11, <4>1
      <4>3. Carries(v)' => r.session \leq wire'[v].req.session
        BY <1>1, <1>2, <4>1 DEF OrderAt, Carries
      <4>4. Answered(v)' /\ panel'[v].photo.key.visit = v =>
              r.session \leq panel'[v].photo.session
        BY <1>1, <4>1 DEF OrderAt, Answered
      <4>5. r \notin deleted' /\ r.key # panel'[v].key => r.session < NextSession'
        BY <1>1, <1>2, <4>1, <4>2 DEF OrderAt
      <4>6. r \notin deleted' /\ r.key # panel'[v].key =>
              (Carries(v)' => r.session < wire'[v].req.session)
        BY <1>1, <1>2, <4>1 DEF OrderAt, Carries
      <4>7. wire'[v].state \in {"sent", "no session"} /\ wire'[v].req.session = 0 =>
              r.session < NextSession'
        BY <1>1, <1>2, <4>1, <4>2 DEF OrderAt
      <4>8. QED
        BY <4>3, <4>4, <4>5, <4>6, <4>7 DEF OrderAt
    <3>2. stored => OrderAt(v, new)'
      <4>1. stored => ~Answered(v)' /\ panel'[v].key = new.key /\ wire'[v].req = new
        BY <1>1, <3>0 DEF Answered
      <4>2. stored => new.session \leq new.session
        BY <3>0
      <4>3. SUFFICES ASSUME stored PROVE OrderAt(v, new)'
        OBVIOUS
      <4>4. QED
        BY <3>0, <4>1, <4>2, <4>3 DEF OrderAt, Carries
    <3>3. ASSUME NEW q \in Asked(v), stored
          PROVE  Apart(q, new)' /\ Apart(new, q)'
      <4>1. OrderAt(v, q) /\ q.session \in Nat
        BY <1>3, AskedTypes DEF OrderOk
      <4>2. q \notin deleted /\ q.key # new.key => q.session < new.session
        BY <3>0, <3>3, <4>1 DEF OrderAt
      <4>3. QED
        BY <1>2, <3>0, <4>1, <4>2 DEF Apart
    <3>4. \A r \in Asked(v)' : r \in Asked(v) \/ (r = new /\ stored)
      BY <1>2, <3>0 DEF Asked
    <3>5. \A r, q \in Asked(v) : Apart(r, q)'
      BY <1>2, <1>3 DEF OrderOk, Apart
    <3>6. Apart(new, new)'
      BY DEF Apart
    <3>7. \A r \in Asked(v)' : OrderAt(v, r)'
      BY <3>1, <3>2, <3>4
    <3>8. \A r, q \in Asked(v)' : Apart(r, q)'
      BY <3>3, <3>4, <3>5, <3>6
    <3>9. QED
      BY <3>7, <3>8 DEF OrderOk
  <2>2. \A w \in Visits : w # v => OrderOk(w)'
    <3>1. wire[v].state = "sent" => wire[v].req.key.visit = v
      BY <1>3, OnItsWay
    <3>2. \A w \in Visits : w # v => Asked(w)' \subseteq Asked(w)
      BY <1>2, <3>1 DEF Asked
    <3>3. deleted \subseteq deleted'
      BY <1>2
    <3>4. QED
      BY <1>3, <1>4, <1>11, <3>2, <3>3, OrderKept
  <2>3. QED
    BY <2>1, <2>2 DEF OrderInv
<1>13. ReceiptMatchesPhoto'
  BY <1>1, <1>2, <1>3 DEF ReceiptMatchesPhoto
<1>14. QED
  BY <1>5, <1>7, <1>8, <1>9, <1>10, <1>12, <1>13 DEF Inv

(* The deleted photo is the one a panel shows, and has no fresh key.       *)
LEMMA DeleteHandledInv ==
  ASSUME Inv, NEW v \in Visits, DeleteHandled(v)
  PROVE  Inv'
<1>1. /\ Step(v) /\ panel'[v] = panel[v] /\ wire'[v].req = wire[v].req
      /\ wire'[v].state = "deleted"
  BY CallEffect DEF Inv, DeleteHandled
<1>2. /\ wire[v].state = "delete"
      /\ deleted' = deleted \cup {panel[v].photo}
      /\ UNCHANGED <<visit, visited, content, restarts, staged, ghosts,
                     cookie, sessions, photos>>
  BY DEF DeleteHandled, page, browser, server
<1>3. /\ TypeOK /\ StageOk(v) /\ KeyOk(v) /\ AskedInv /\ FreshOk(v) /\ OrderOk(v)
      /\ ReceiptMatchesPhoto
  BY DEF Inv, StageInv, KeyInv, FreshInv, OrderInv
<1>4. \A w \in Visits : w # v => Kept(w) /\ StageOk(w) /\ KeyOk(w) /\ FreshOk(w) /\ OrderOk(w)
  BY <1>1 DEF Inv, StageInv, KeyInv, FreshInv, OrderInv, Step, Kept
<1>5. TypeOK'
  <2>1. panel[v].photo \in photos
    BY <1>2, <1>3 DEF StageOk, KeyOk, Answered
  <2>2. QED
    BY <1>1, <1>2, <1>3, <2>1 DEF TypeOK, Step
<1>6. sessions \leq sessions'
  BY <1>2, <1>3, StagingAssumption DEF TypeOK
<1>7. StageInv'
  <2>1. StageOk(v)'
    BY <1>1, <1>2, <1>3 DEF StageOk
  <2>2. \A w \in Visits : w # v => StageOk(w)'
    BY <1>2, <1>4, StageKept
  <2>3. QED
    BY <2>1, <2>2 DEF StageInv
<1>8. KeyInv'
  <2>1. KeyOk(v)'
    BY <1>1, <1>2, <1>3 DEF KeyOk, Answered, Unanswered
  <2>2. \A w \in Visits : w # v => KeyOk(w)'
    BY <1>2, <1>3, <1>4, <1>5, <1>6, KeyKept
  <2>3. QED
    BY <2>1, <2>2 DEF KeyInv
<1>9. AskedInv'
  <2>1. cookie' \in {0, sessions'} /\ sessions \leq sessions'
    BY <1>2, <1>3, StagingAssumption DEF AskedInv, TypeOK
  <2>2. \A r \in photos' \cup ghosts' : Within(r)
    BY <1>2, <1>3 DEF AskedInv
  <2>3. \A w \in visited : panel[w].drawn \leq panel'[w].drawn
                            /\ panel'[w].content = panel[w].content
    <3>1. \A w \in visited : w \in Visits /\ panel[w].drawn \in Nat
      BY <1>3, Fields DEF TypeOK
    <3>2. \A w \in visited : w # v => panel'[w] = panel[w]
      BY <1>4, <3>1 DEF Kept
    <3>3. v \in visited => panel[v].drawn \leq panel'[v].drawn
                            /\ panel'[v].content = panel[v].content
      <4>1. \A n \in Nat : n \leq n /\ n \leq n + 1
        OBVIOUS
      <4>2. QED
        BY <1>1, <3>1, <4>1
    <3>4. QED
      BY <3>1, <3>2, <3>3
  <2>4. visited \subseteq visited'
    BY <1>2
  <2>5. QED
    BY <1>3, <1>5, <2>1, <2>2, <2>3, <2>4, AskedKept
<1>10. FreshInv'
  <2>1. FreshOk(v)'
    <3>1. panel[v].stage = "deleting"
      BY <1>2, <1>3 DEF StageOk
    <3>2. QED
      BY <1>1, <3>1 DEF FreshOk, Unanswered
  <2>2. ASSUME NEW w \in Visits, w # v
        PROVE  FreshOk(w)'
    <3>1. panel[v].stage = "deleting" /\ Answered(v)
      BY <1>2, <1>3 DEF StageOk, Answered
    <3>2. Unanswered(w) /\ panel[w].key # None =>
            /\ \A r \in deleted' : r \in deleted \/ r.key # panel[w].key
            /\ staged' # None => staged' = staged \/ staged'.photo.key # panel[w].key
            /\ Answered(v)' => panel'[v].photo.key # panel[w].key
      BY <1>1, <1>2, <1>4, <2>2, <3>1 DEF FreshOk
    <3>3. QED
      BY <1>4, <2>2, <3>2, FreshKept
  <2>3. QED
    BY <2>1, <2>2 DEF FreshInv
<1>11. NextSession \leq NextSession' /\ NextSession \in Nat /\ NextSession' \in Nat
  BY <1>2, <1>3, <1>5, <1>9, SessionsGrow, StagingAssumption DEF TypeOK
<1>12. OrderInv'
  <2>1. OrderOk(v)'
    <3>1. ASSUME NEW r \in Asked(v)
          PROVE  OrderAt(v, r)'
      <4>1. /\ OrderAt(v, r) /\ Within(r) /\ r \in Photo /\ r.session \in Nat
            /\ r.session # 0 /\ r.key \in IdemKey /\ r.key.visit = v
        BY <1>3, AskedTypes DEF OrderOk, AskedInv, Asked
      <4>2. r.session < NextSession => r.session < NextSession'
        BY <1>11, <4>1
      <4>3. Carries(v)' => r.session \leq wire'[v].req.session
        BY <1>1, <4>1 DEF OrderAt, Carries
      <4>4. Answered(v)' /\ panel'[v].photo.key.visit = v =>
              r.session \leq panel'[v].photo.session
        BY <1>1, <4>1 DEF OrderAt, Answered
      <4>5. r \notin deleted' /\ r.key # panel'[v].key => r.session < NextSession'
        BY <1>1, <1>2, <4>1, <4>2 DEF OrderAt
      <4>6. r \notin deleted' /\ r.key # panel'[v].key =>
              (Carries(v)' => r.session < wire'[v].req.session)
        BY <1>1, <1>2, <4>1 DEF OrderAt, Carries
      <4>7. wire'[v].state \in {"sent", "no session"} /\ wire'[v].req.session = 0 =>
              r.session < NextSession'
        BY <1>1, <1>2, <4>1, <4>2 DEF OrderAt
      <4>8. QED
        BY <4>3, <4>4, <4>5, <4>6, <4>7 DEF OrderAt
    <3>2. Asked(v)' \subseteq Asked(v) /\ deleted \subseteq deleted'
      BY <1>2 DEF Asked
    <3>3. QED
      BY <1>3, <3>1, <3>2, OrderFrom
  <2>2. \A w \in Visits : w # v => OrderOk(w)'
    BY <1>2, <1>3, <1>4, <1>11, OrderKept DEF Asked
  <2>3. QED
    BY <2>1, <2>2 DEF OrderInv
<1>13. ReceiptMatchesPhoto'
  BY <1>1, <1>2, <1>3 DEF ReceiptMatchesPhoto
<1>14. QED
  BY <1>5, <1>7, <1>8, <1>9, <1>10, <1>12, <1>13 DEF Inv

(* Steps that no panel takes: the page is left or started over, a request  *)
(* the browser gave up on is handled, the cookie changes.                  *)
LEMMA ElsewhereInv ==
  ASSUME Inv, TypeOK', UNCHANGED <<visited, panel, wire, deleted>>,
         staged' = staged \/ staged' = None,
         photos \subseteq photos', photos' \cup ghosts' \subseteq photos \cup ghosts,
         \/ UNCHANGED <<cookie, sessions>>
         \/ cookie' = 0 /\ sessions' = sessions
         \/ cookie' = sessions + 1 /\ sessions' = sessions + 1
  PROVE  Inv'
<1>1. \A w \in Visits : Kept(w)
  BY DEF Kept
<1>2. /\ TypeOK /\ AskedInv /\ ReceiptMatchesPhoto
      /\ \A w \in Visits : StageOk(w) /\ KeyOk(w) /\ FreshOk(w) /\ OrderOk(w)
  BY DEF Inv, StageInv, KeyInv, FreshInv, OrderInv
<1>3. sessions \leq sessions' /\ cookie' \in {0, sessions'}
  <2>1. sessions \in Nat /\ cookie \in {0, sessions}
    BY <1>2, LatestCookie DEF AskedInv
  <2>2. \A n \in Nat : n \leq n /\ n \leq n + 1
    OBVIOUS
  <2>3. QED
    BY <2>1, <2>2
<1>4. StageInv'
  BY <1>1, <1>2, StageKept DEF StageInv
<1>5. KeyInv'
  BY <1>1, <1>2, <1>3, KeyKept DEF KeyInv
<1>6. AskedInv'
  <2>1. \A w \in visited : panel[w].drawn \in Nat
    BY <1>2, Fields DEF TypeOK
  <2>2. \A w \in visited : panel[w].drawn \leq panel'[w].drawn
                            /\ panel'[w].content = panel[w].content
    BY <2>1
  <2>3. \A r \in photos' \cup ghosts' : Within(r)
    BY <1>2 DEF AskedInv
  <2>4. QED
    BY <1>2, <1>3, <2>2, <2>3, AskedKept
<1>7. FreshInv'
  <2>1. ASSUME NEW w \in Visits
        PROVE  FreshOk(w)'
    BY <1>2 DEF FreshOk, Answered, Unanswered
  <2>2. QED
    BY <2>1 DEF FreshInv
<1>8. NextSession \leq NextSession' /\ NextSession \in Nat /\ NextSession' \in Nat
  BY <1>2, <1>3, <1>6, SessionsGrow
<1>9. OrderInv'
  <2>1. \A w \in Visits : Asked(w)' \subseteq Asked(w)
    BY DEF Asked
  <2>2. QED
    BY <1>1, <1>2, <1>8, <2>1, OrderKept DEF OrderInv
<1>10. ReceiptMatchesPhoto'
  BY <1>2 DEF ReceiptMatchesPhoto
<1>11. QED
  BY <1>4, <1>5, <1>6, <1>7, <1>9, <1>10 DEF Inv

(* Every step keeps the invariant.                                         *)
LEMMA InvStep == Inv /\ [Next]_vars => Inv'
<1> SUFFICES ASSUME Inv, [Next]_vars PROVE Inv'
  OBVIOUS
<1> USE DEF page, server, browser
<1>1. TypeOK
  BY DEF Inv
<1>2. ASSUME NEW v \in Visits, EnterFinal(v) \/ Panel(v)
      PROVE  Inv'
  BY <1>2, EnterFinalInv, ClickInv, UploadInv, SendInv, SavedInv, ResendInv, UploadFailsInv,
     RemoveInv, DeletedInv, DeleteFailsInv DEF Panel
<1>3. ASSUME NEW v \in Visits, SessionCreated(v) \/ SaveHandled(v) \/ DeleteHandled(v)
      PROVE  Inv'
  BY <1>3, SessionCreatedInv, SaveHandledInv, DeleteHandledInv
<1>4. ASSUME NEW v \in Visits, Refused(v) \/ ConnectionLost(v)
      PROVE  Inv'
  BY <1>4, RefusedInv, ConnectionLostInv
<1>5. CASE BackToEdit
  <2>1. TypeOK'
    BY <1>1, <1>5 DEF TypeOK, BackToEdit
  <2>2. QED
    BY <1>5, <2>1, ElsewhereInv DEF BackToEdit
<1>6. CASE GhostHandled
  <2>1. PICK g \in ghosts : photos' = photos \cup {g} /\ ghosts' = ghosts \ {g}
    BY <1>6 DEF GhostHandled
  <2>2. UNCHANGED <<visit, visited, content, restarts, staged, panel, wire,
                    cookie, sessions, deleted>>
    BY <1>6 DEF GhostHandled
  <2>3. TypeOK'
    BY <1>1, <2>1, <2>2 DEF TypeOK
  <2>4. QED
    BY <2>1, <2>2, <2>3, ElsewhereInv
<1>7. CASE CookieExpires
  <2>1. TypeOK'
    BY <1>1, <1>7, StagingAssumption DEF TypeOK, CookieExpires
  <2>2. QED
    BY <1>7, <2>1, ElsewhereInv DEF CookieExpires
<1>8. CASE OtherTab
  <2>1. sessions + 1 \in 0 .. MaxSessions
    BY <1>1, <1>8, StagingAssumption DEF TypeOK, OtherTab
  <2>2. TypeOK'
    BY <1>1, <1>8, <2>1 DEF TypeOK, OtherTab
  <2>3. QED
    BY <1>8, <2>2, ElsewhereInv DEF OtherTab
<1>9. ASSUME NEW c \in Contents, Edit(c)
      PROVE  Inv'
  <2>1. TypeOK'
    BY <1>1, <1>9 DEF TypeOK, Edit
  <2>2. QED
    BY <1>9, <2>1, ElsewhereInv DEF Edit
<1>10. ASSUME NEW c \in Contents, Restart(c)
       PROVE  Inv'
  <2>1. restarts + 1 \in 0 .. MaxRestarts
    BY <1>1, <1>10, StagingAssumption DEF TypeOK, Restart
  <2>2. TypeOK'
    BY <1>1, <1>10, <2>1 DEF TypeOK, Restart
  <2>3. QED
    BY <1>10, <2>2, ElsewhereInv DEF Restart
<1>11. CASE UNCHANGED vars
  <2>1. TypeOK'
    BY <1>1, <1>11 DEF TypeOK, vars
  <2>2. QED
    BY <1>11, <2>1, ElsewhereInv DEF vars
<1>12. QED
  BY <1>2, <1>3, <1>4, <1>5, <1>6, <1>7, <1>8, <1>9, <1>10, <1>11 DEF Next

(* The invariant holds at the start.                                       *)
LEMMA InitInv == Init => Inv
<1> SUFFICES ASSUME Init PROVE Inv
  OBVIOUS
<1> USE DEF Stages
<1>1. 0 \in 0 .. MaxKeys /\ 0 \in 0 .. MaxSessions /\ 0 \in 0 .. MaxRestarts /\ 0 \in 0 .. 1
  BY StagingAssumption
<1>2. Absent \in PanelState /\ Quiet \in Call
  BY <1>1, QuietIsCall DEF Absent, PanelState
<1>3. TypeOK
  BY <1>1, <1>2 DEF Init, TypeOK
<1>4. \A v \in Visits : panel[v].stage = "absent" /\ panel[v].key = None
                        /\ wire[v].state = "none"
  BY DEF Init, Absent, Quiet
<1>5. StageInv
  BY <1>4 DEF StageInv, StageOk, Init
<1>6. KeyInv
  BY <1>4 DEF KeyInv, KeyOk, Answered, Unanswered
<1>7. photos \cup ghosts = {} /\ cookie = 0 /\ staged = None
  BY DEF Init
<1>8. AskedInv
  BY <1>7 DEF AskedInv
<1>9. FreshInv
  BY <1>4 DEF FreshInv, FreshOk, Unanswered
<1>10. OrderInv
  BY <1>7 DEF OrderInv, OrderOk, Asked
<1>11. ReceiptMatchesPhoto
  BY <1>7 DEF ReceiptMatchesPhoto
<1>12. QED
  BY <1>3, <1>5, <1>6, <1>8, <1>9, <1>10, <1>11 DEF Inv

(* The inductive invariant holds throughout.                               *)
LEMMA InvAlways == Spec => []Inv
  BY InitInv, InvStep, PTL DEF Spec

-----------------------------------------------------------------------------
(* Types hold, whatever is lost, delayed or handled late.                  *)
THEOREM TypeCorrect == Spec => []TypeOK
<1>1. Inv => TypeOK
  BY DEF Inv
<1>2. QED
  BY <1>1, InvAlways, PTL

(* Retrying a save makes no second photo: a session holds at most one      *)
(* photo of a panel that the panel has not deleted.                        *)
THEOREM RetriesAreIdempotent == Spec => []RetryMakesNoSecondPhoto
<1>1. Inv => RetryMakesNoSecondPhoto
  <2>1. SUFFICES ASSUME Inv, NEW p \in Live, NEW q \in Live,
                        p.session = q.session, p.key.visit = q.key.visit
                 PROVE  p = q
    BY DEF RetryMakesNoSecondPhoto
  <2>2. /\ p \in Photo /\ q \in Photo /\ p.key.visit \in Visits
        /\ p \in photos /\ q \in photos /\ p \notin deleted /\ q \notin deleted
    BY <2>1 DEF Inv, TypeOK, Live, Photo, IdemKey
  <2>3. p \in Asked(p.key.visit) /\ q \in Asked(p.key.visit)
    BY <2>1, <2>2 DEF Asked
  <2>4. p.key = q.key
    BY <2>1, <2>2, <2>3 DEF Inv, OrderInv, OrderOk, Apart
  <2>5. p.content = q.content
    BY <2>1, <2>2 DEF Inv, AskedInv, Within
  <2>6. QED
    BY <2>1, <2>2, <2>4, <2>5 DEF Photo
<1>2. QED
  BY <1>1, InvAlways, PTL

(* The receipt in CreatePage is of a photo there is, with what that photo  *)
(* was made of, however late its answer came.                              *)
THEOREM ReceiptIsTrue == Spec => []ReceiptMatchesPhoto
<1>1. Inv => ReceiptMatchesPhoto
  BY DEF Inv
<1>2. QED
  BY <1>1, InvAlways, PTL

(* No upload is answered with a photo the user has deleted: the key of a   *)
(* deleted photo is never sent again.                                      *)
THEOREM DeletedIsNotReplayed == Spec => []UploadNeverReplaysDeleted
<1>1. Inv => UploadNeverReplaysDeleted
  <2>1. SUFFICES ASSUME Inv, NEW v \in Visits, wire[v].state = "saved"
                 PROVE  wire[v].req \notin deleted
    BY DEF UploadNeverReplaysDeleted
  <2>2. StageOk(v) /\ KeyOk(v) /\ FreshOk(v)
    BY <2>1 DEF Inv, StageInv, KeyInv, FreshInv
  <2>3. /\ Unanswered(v) /\ panel[v].key # None /\ wire[v].req.key = panel[v].key
    BY <2>1, <2>2 DEF StageOk, KeyOk, Unanswered
  <2>4. QED
    BY <2>2, <2>3 DEF FreshOk
<1>2. QED
  BY <1>1, InvAlways, PTL
=============================================================================

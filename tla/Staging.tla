------------------------------ MODULE Staging ------------------------------
(***************************************************************************)
(* Staging a final photo from the browser: StagingPanel                    *)
(* (frontend/src/render/staging-panel.tsx) with its API client             *)
(* (api/save.ts), the receipt CreatePage keeps (create/create-page.tsx)    *)
(* and the final page that shows the panel, over a network that loses      *)
(* requests and answers, against the save endpoint and its session cookie. *)
(*                                                                         *)
(* Each visit of the final page mounts a panel of its own.  A panel has at *)
(* most one call under way; the call goes on when its panel is gone, and   *)
(* what it then sets in CreatePage counts while what it sets in the panel  *)
(* is never seen.  The server is what module SaveLease shows it to be on   *)
(* one event loop: one photo per session and idempotency key, replayed     *)
(* afterwards, even when that photo has been deleted.  So a photo is named *)
(* by its session and key, with the content it was made of.                *)
(***************************************************************************)
EXTENDS Naturals

CONSTANTS
  Visits,      (* visits of the final page                                *)
  Contents,    (* photo and edit parameters: what a final photo is made of*)
  None,        (* no visit, no receipt, no key, no photo                  *)
  MaxKeys,     (* bound on the idempotency keys a panel draws             *)
  MaxSessions, (* bound on the save sessions of the browser               *)
  MaxRestarts  (* bound on restarts of the create flow                    *)

VARIABLES
  visit,      (* the final page on screen                                 *)
  visited,    (* the final pages there have been                          *)
  content,    (* what the editor holds                                    *)
  staged,     (* the receipt CreatePage keeps                             *)
  panel,      (* the state of each visit's panel                          *)
  wire,       (* the call of each visit's panel, on its way               *)
  ghosts,     (* save requests the browser gave up on, the server may not *)
  cookie,     (* the session cookie, 0 when there is none                 *)
  sessions,   (* sessions created so far                                  *)
  photos,     (* photos committed on the server                           *)
  deleted,    (* those of them that are deleted                           *)
  restarts

page == <<visit, visited, content, restarts>>
server == <<photos, deleted>>
browser == <<cookie, sessions>>
vars == <<visit, visited, content, staged, panel, wire, ghosts, cookie,
          sessions, photos, deleted, restarts>>

IdemKey == [visit : Visits, n : 1 .. MaxKeys]
Photo == [session : 1 .. MaxSessions, key : IdemKey, content : Contents]
Request == [session : 0 .. MaxSessions, key : IdemKey, content : Contents]
Receipt == [photo : Photo, content : Contents]

ASSUME StagingAssumption ==
  /\ MaxKeys \in Nat /\ MaxSessions \in Nat /\ MaxRestarts \in Nat
  /\ None \notin Visits \cup IdemKey

(* The panel's stages; it is absent before its visit.                      *)
Stages == {"absent", "idle", "confirm", "uploading", "done", "deleting", "error"}

Absent == [stage |-> "absent", key |-> None, drawn |-> 0, photo |-> None,
           ready |-> FALSE, attempt |-> 0, content |-> None]
Quiet == [state |-> "none", req |-> None]

Init ==
  /\ visit = None /\ visited = {} /\ content \in Contents
  /\ staged = None
  /\ panel = [v \in Visits |-> Absent]
  /\ wire = [v \in Visits |-> Quiet]
  /\ ghosts = {}
  /\ cookie = 0 /\ sessions = 0
  /\ photos = {} /\ deleted = {}
  /\ restarts = 0

-----------------------------------------------------------------------------
(* The page around the panel.                                              *)

(* The final page renders the artifact anew and mounts a panel, which goes *)
(* straight to its done state when there is a receipt.                     *)
EnterFinal(v) ==
  /\ visit = None /\ v \notin visited
  /\ visit' = v /\ visited' = visited \cup {v}
  /\ panel' = [panel EXCEPT ![v] =
       IF staged = None THEN [Absent EXCEPT !.stage = "idle", !.content = content]
       ELSE [Absent EXCEPT !.stage = "done", !.content = content,
                           !.photo = staged.photo, !.key = staged.photo.key]]
  /\ UNCHANGED <<content, restarts, staged, wire, ghosts, browser, server>>

BackToEdit ==
  /\ visit # None /\ visit' = None
  /\ UNCHANGED <<visited, content, restarts, staged, panel, wire, ghosts, browser, server>>

Edit(c) ==
  /\ visit = None /\ c # content /\ content' = c
  /\ UNCHANGED <<visit, visited, restarts, staged, panel, wire, ghosts, browser, server>>

(* restart, confirmed if there is a receipt; another photo is edited next. *)
Restart(c) ==
  /\ visit # None /\ restarts < MaxRestarts
  /\ restarts' = restarts + 1
  /\ visit' = None /\ staged' = None /\ content' = c
  /\ UNCHANGED <<visited, panel, wire, ghosts, browser, server>>

-----------------------------------------------------------------------------
(* The buttons of each stage that change it: nothing is uploaded before    *)
(* the confirmation that discloses purpose, retention and secrets, nothing *)
(* is clicked while a call is under way, and only a photo on show is       *)
(* deleted.  Sharing, copying and the receipt file leave the stage alone.  *)
Offers ==
  [absent |-> {}, idle |-> {"stage"}, confirm |-> {"confirm and upload", "cancel"},
   uploading |-> {}, done |-> {"delete"}, deleting |-> {}, error |-> {"retry", "back"}]

Clicks(v, button) == visit = v /\ button \in Offers[panel[v].stage]

AskToStage(v) ==
  /\ Clicks(v, "stage")
  /\ panel' = [panel EXCEPT ![v].stage = "confirm"]
  /\ UNCHANGED <<page, staged, wire, ghosts, browser, server>>

(* "Cancel" and, after an error, "Back", which keeps the key drawn.        *)
StepBack(v) ==
  /\ Clicks(v, "cancel") \/ Clicks(v, "back")
  /\ panel' = [panel EXCEPT ![v].stage = "idle"]
  /\ UNCHANGED <<page, staged, wire, ghosts, browser, server>>

-----------------------------------------------------------------------------
(* upload.                                                                 *)

NewKey(v) == [visit |-> v, n |-> panel[v].drawn + 1]
CanDraw(v) == panel[v].drawn < MaxKeys

Uploading(v, key) ==
  [panel[v] EXCEPT !.stage = "uploading", !.attempt = 0, !.key = key,
                   !.drawn = IF key = NewKey(v) THEN @ + 1 ELSE @]

(* ensureSaveSession is awaited first unless this panel has a session.     *)
Begin(v) ==
  wire' = [wire EXCEPT ![v] =
    IF panel[v].ready
    THEN [state |-> "sent",
          req |-> [session |-> cookie, key |-> panel'[v].key, content |-> panel[v].content]]
    ELSE [state |-> "session", req |-> None]]

(* Mutant: every click draws a key.                                        *)
UploadNewKey(v) ==
  /\ Clicks(v, "confirm and upload") \/ Clicks(v, "retry")
  /\ CanDraw(v)
  /\ panel' = [panel EXCEPT ![v] = Uploading(v, NewKey(v))]
  /\ Begin(v)
  /\ UNCHANGED <<page, staged, ghosts, browser, server>>

(* "Confirm and upload" and "Retry saving": the key is drawn once.         *)
Upload(v) ==
  /\ Clicks(v, "confirm and upload") \/ Clicks(v, "retry")
  /\ IF panel[v].key = None
     THEN CanDraw(v) /\ panel' = [panel EXCEPT ![v] = Uploading(v, NewKey(v))]
     ELSE panel' = [panel EXCEPT ![v] = Uploading(v, panel[v].key)]
  /\ Begin(v)
  /\ UNCHANGED <<page, staged, ghosts, browser, server>>

(* createSaveSession: the answer sets the cookie.                          *)
SessionCreated(v) ==
  /\ wire[v].state = "session" /\ sessions < MaxSessions
  /\ sessions' = sessions + 1 /\ cookie' = sessions + 1
  /\ wire' = [wire EXCEPT ![v].state = "session set"]
  /\ UNCHANGED <<page, staged, panel, ghosts, server>>

(* savePhoto sends the cookie there is by then: none if it is not kept, or *)
(* one that another tab was given meanwhile.                               *)
Send(v) ==
  /\ wire[v].state = "session set"
  /\ panel' = [panel EXCEPT ![v].ready = TRUE]
  /\ wire' = [wire EXCEPT ![v] =
       [state |-> "sent",
        req |-> [session |-> cookie, key |-> panel[v].key, content |-> panel[v].content]]]
  /\ UNCHANGED <<page, staged, ghosts, browser, server>>

(* create_save without a cookie, or with one; a known key is replayed.     *)
SaveHandled(v) ==
  LET req == wire[v].req IN
  /\ wire[v].state = "sent"
  /\ wire' = [wire EXCEPT ![v].state = IF req.session = 0 THEN "no session" ELSE "saved"]
  /\ photos' = IF req.session = 0 THEN photos ELSE photos \cup {req}
  /\ UNCHANGED <<page, staged, panel, ghosts, browser, deleted>>

(* A 4xx or 5xx of either endpoint that leaves no photo behind.            *)
Refused(v) ==
  /\ wire[v].state \in {"session", "sent", "delete"}
  /\ wire' = [wire EXCEPT ![v].state = "failed"]
  /\ UNCHANGED <<page, staged, panel, ghosts, browser, server>>

(* The connection breaks: an answer is lost, or the browser gives up on a  *)
(* request the server may yet handle.                                      *)
ConnectionLost(v) ==
  /\ wire[v].state \in {"sent", "saved", "deleted"}
  /\ wire' = [wire EXCEPT ![v].state = "failed"]
  /\ ghosts' = IF wire[v].state = "sent" /\ wire[v].req.session # 0
               THEN ghosts \cup {wire[v].req} ELSE ghosts
  /\ UNCHANGED <<page, staged, panel, browser, server>>

GhostHandled ==
  \E g \in ghosts :
    /\ ghosts' = ghosts \ {g} /\ photos' = photos \cup {g}
    /\ UNCHANGED <<page, staged, panel, wire, browser, deleted>>

(* Mutant: the receipt is kept with what the editor holds by now.          *)
SavedForNow(v) ==
  /\ wire[v].state = "saved"
  /\ panel' = [panel EXCEPT ![v].stage = "done", ![v].photo = wire[v].req]
  /\ staged' = [photo |-> wire[v].req, content |-> content]
  /\ wire' = [wire EXCEPT ![v] = Quiet]
  /\ UNCHANGED <<page, ghosts, browser, server>>

(* The answer arrives: onStaged is the one of the render that called       *)
(* upload, so the receipt is kept with what that photo was made of.        *)
Saved(v) ==
  /\ wire[v].state = "saved"
  /\ panel' = [panel EXCEPT ![v].stage = "done", ![v].photo = wire[v].req]
  /\ staged' = [photo |-> wire[v].req, content |-> panel[v].content]
  /\ wire' = [wire EXCEPT ![v] = Quiet]
  /\ UNCHANGED <<page, ghosts, browser, server>>

(* SESSION_REQUIRED, the first time: a new session and a new key.          *)
Resend(v) ==
  /\ wire[v].state = "no session" /\ panel[v].attempt = 0 /\ CanDraw(v)
  /\ panel' = [panel EXCEPT ![v].attempt = 1, ![v].ready = FALSE,
                            ![v].key = NewKey(v), ![v].drawn = @ + 1]
  /\ wire' = [wire EXCEPT ![v] = [state |-> "session", req |-> None]]
  /\ UNCHANGED <<page, staged, ghosts, browser, server>>

UploadFails(v) ==
  /\ panel[v].stage = "uploading"
  /\ \/ wire[v].state = "failed"
     \/ wire[v].state = "no session" /\ panel[v].attempt = 1
  /\ panel' = [panel EXCEPT ![v].stage = "error"]
  /\ wire' = [wire EXCEPT ![v] = Quiet]
  /\ UNCHANGED <<page, staged, ghosts, browser, server>>

-----------------------------------------------------------------------------
(* remove.                                                                 *)

Remove(v) ==
  /\ Clicks(v, "delete")
  /\ panel' = [panel EXCEPT ![v].stage = "deleting"]
  /\ wire' = [wire EXCEPT ![v].state = "delete"]
  /\ UNCHANGED <<page, staged, ghosts, browser, server>>

(* delete_save; handled before the answer is lost or after, is the same.   *)
(* That it may answer 204 for a lookup that failed is in PhotoLifecycle.   *)
DeleteHandled(v) ==
  /\ wire[v].state = "delete"
  /\ deleted' = deleted \cup {panel[v].photo}
  /\ wire' = [wire EXCEPT ![v].state = "deleted"]
  /\ UNCHANGED <<page, staged, panel, ghosts, browser, photos>>

Deleted(v) ==
  /\ wire[v].state = "deleted"
  /\ panel' = [panel EXCEPT ![v].stage = "idle", ![v].key = None, ![v].photo = None]
  /\ staged' = None
  /\ wire' = [wire EXCEPT ![v] = Quiet]
  /\ UNCHANGED <<page, ghosts, browser, server>>

(* Mutant: a failed delete is a failed upload.                             *)
DeleteFailsAsUpload(v) ==
  /\ panel[v].stage = "deleting" /\ wire[v].state = "failed"
  /\ panel' = [panel EXCEPT ![v].stage = "error"]
  /\ wire' = [wire EXCEPT ![v] = Quiet]
  /\ UNCHANGED <<page, staged, ghosts, browser, server>>

DeleteFails(v) ==
  /\ panel[v].stage = "deleting" /\ wire[v].state = "failed"
  /\ panel' = [panel EXCEPT ![v].stage = "done"]
  /\ wire' = [wire EXCEPT ![v] = Quiet]
  /\ UNCHANGED <<page, staged, ghosts, browser, server>>

-----------------------------------------------------------------------------
(* The cookie runs out, or another tab of the browser replaces it.         *)
CookieExpires ==
  /\ cookie # 0 /\ cookie' = 0
  /\ UNCHANGED <<page, staged, panel, wire, ghosts, sessions, server>>

OtherTab ==
  /\ sessions < MaxSessions
  /\ sessions' = sessions + 1 /\ cookie' = sessions + 1
  /\ UNCHANGED <<page, staged, panel, wire, ghosts, server>>

Panel(v) ==
  \/ AskToStage(v) \/ StepBack(v)
  \/ Upload(v) \/ Send(v) \/ Saved(v) \/ Resend(v) \/ UploadFails(v)
  \/ Remove(v) \/ Deleted(v) \/ DeleteFails(v)

Next ==
  \/ \E v \in Visits : EnterFinal(v) \/ Panel(v)
  \/ \E v \in Visits : SessionCreated(v) \/ SaveHandled(v) \/ DeleteHandled(v)
  \/ \E v \in Visits : Refused(v) \/ ConnectionLost(v)
  \/ BackToEdit \/ GhostHandled \/ CookieExpires \/ OtherTab
  \/ \E c \in Contents : Edit(c) \/ Restart(c)

Spec == Init /\ [][Next]_vars

-----------------------------------------------------------------------------
(* Properties.                                                             *)

PanelState ==
  [stage : Stages,
   key : IdemKey \cup {None}, drawn : 0 .. MaxKeys, photo : Photo \cup {None},
   ready : BOOLEAN, attempt : 0 .. 1, content : Contents \cup {None}]
Call ==
  [state : {"none", "session", "session set", "sent", "saved", "no session", "failed",
            "delete", "deleted"},
   req : Request \cup {None}]

TypeOK ==
  /\ visit \in Visits \cup {None} /\ visited \subseteq Visits
  /\ content \in Contents /\ staged \in Receipt \cup {None}
  /\ panel \in [Visits -> PanelState] /\ wire \in [Visits -> Call]
  /\ ghosts \subseteq Photo
  /\ cookie \in 0 .. MaxSessions /\ sessions \in 0 .. MaxSessions
  /\ photos \subseteq Photo /\ deleted \subseteq photos
  /\ restarts \in 0 .. MaxRestarts

Live == photos \ deleted

(* Retrying a save makes no second photo: in one session a panel has never *)
(* more than one photo that it has not deleted, whatever requests and      *)
(* answers were lost, delayed or handled after the browser gave up.        *)
RetryMakesNoSecondPhoto ==
  \A p, q \in Live : p.session = q.session /\ p.key.visit = q.key.visit => p = q

(* The receipt of a photo is kept with what that photo was made of, also   *)
(* when its answer comes after the user has edited on.  The warning that   *)
(* the photo on screen is not the staged one relies on it.                 *)
ReceiptMatchesPhoto ==
  staged # None => staged.photo \in photos /\ staged.photo.content = staged.content

(* An upload never hands out a retrieval code that points at a photo the   *)
(* user has deleted, as a replay of the old key would.                     *)
UploadNeverReplaysDeleted ==
  \A v \in Visits : wire[v].state = "saved" => wire[v].req \notin deleted

(* What CreatePage says of its receipt: "the server never ends up with a   *)
(* second photo from this round trip" of the final page and the editor.    *)
RoundTripMakesNoSecondPhoto ==
  \A p, q \in Live : p.content = q.content /\ p.key.visit # q.key.visit => FALSE
=============================================================================

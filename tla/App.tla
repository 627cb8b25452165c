--------------------------------- MODULE App ---------------------------------
(***************************************************************************)
(* The browser application: the pages (CreateFlow, RetrievePage and those  *)
(* that only show what the server answered) in the frame of Shell          *)
(* (frontend/src/app/, main.tsx, pages/).  Going from one page to another  *)
(* unmounts the first, whose pending calls go on; loading the document     *)
(* anew ends them.                                                         *)
(***************************************************************************)
EXTENDS CreateFlow, RetrievePage

vars == <<router, answers, create, retrieve>>

Init == ShellInit /\ CreateInit /\ RetrieveInit

-----------------------------------------------------------------------------
(* The page of an address is mounted: its effects run.                     *)
AskServer(page) ==
  CASE page = "privacy" -> Await("policy")
    [] page = "detail" -> Await("catalogue")
    [] OTHER -> AwaitNothing
Mount(page) ==
  IF page = "create" THEN EnterCreate ELSE AskServer(page) /\ UNCHANGED create

(* The page on screen is replaced by another.                              *)
GoTo(page) ==
  /\ route' = page /\ blocked' = "nowhere" /\ UNCHANGED crashed
  /\ IF crashed THEN AwaitNothing /\ UNCHANGED create
     ELSE IF route = "create" THEN LeaveCreate /\ AskServer(page)
     ELSE Mount(page)
  /\ IF Showing("retrieve") THEN LeaveRetrieve ELSE UNCHANGED retrieve

(* A link, an address of the history: the create page asks first when it   *)
(* would lose something.                                                   *)
Navigate(page) ==
  /\ page # route
  /\ IF Showing("create") /\ dirty
     THEN blocked' = page /\ UNCHANGED <<route, crashed, answers, create, retrieve>>
     ELSE GoTo(page)

LeaveAnyway == Showing("create") /\ blocked # "nowhere" /\ GoTo(blocked)

Stay ==
  /\ blocked # "nowhere" /\ blocked' = "nowhere"
  /\ UNCHANGED <<route, crashed, answers, create, retrieve>>

(* The editor cannot invert a transform of scale 0 and throws; the error   *)
(* boundary takes the page away, and with it the question.                 *)
RenderFails ==
  /\ On("edit") /\ drawn = None /\ crashed' = TRUE /\ blocked' = "nowhere" /\ LeaveCreate /\ AwaitNothing
  /\ UNCHANGED <<route, retrieve>>

(* Retry of the error boundary mounts the page of the address anew.        *)
RetryRender ==
  /\ crashed /\ crashed' = FALSE /\ Mount(route)
  /\ UNCHANGED <<route, blocked, retrieve>>

(* "Back to home" of the error boundary and every reload of the document.  *)
Reload(page) ==
  /\ page \notin {"create", "privacy", "detail"}
  /\ route' = page /\ crashed' = FALSE /\ blocked' = "nowhere"
  /\ cache' = [r \in Resources |-> "none"] /\ view' = "off"
  /\ step' = "template" /\ selected' = None /\ mode' = None
  /\ editorState' = None /\ staged' = None /\ notice' = None
  /\ sourceRef' = [v \in Visits |-> None] /\ bitmaps' = {} /\ late' = {} /\ drawn' = None
  /\ load' = [f \in Files |-> IF load[f].pc = "idle" THEN load[f]
                              ELSE [load[f] EXCEPT !.pc = "over"]]
  /\ key' = Partial /\ stage' = Shown("idle") /\ deleteStage' = "idle"
  /\ painted' = [url |-> Partial, deleteStage |-> "idle"] /\ seen' = {}
  /\ resolving' = [i \in Resolves |-> [resolving[i] EXCEPT !.pc =
                     IF @ = "idle" THEN @ ELSE "done", !.here = FALSE]]
  /\ deleting' = [d \in Deletes |-> [deleting[d] EXCEPT !.pc =
                    IF @ = "idle" THEN @ ELSE "done", !.here = FALSE]]
  /\ urls' = {} /\ underway' = {}
  /\ UNCHANGED <<visit, live>>

(* A Retry while a photo waits to be rendered comes to what it does just   *)
(* before the photo.                                                       *)
Next ==
  \/ CreateNext /\ UNCHANGED retrieve
  \/ RetrieveNext /\ UNCHANGED create
  \/ /\ \/ \E r \in Resources : Answered(r) \/ Failed(r)
        \/ RetryLoad /\ drawn = None
     /\ UNCHANGED <<create, retrieve>>
  \/ \E page \in Routes : Navigate(page) \/ Reload(page)
  \/ LeaveAnyway \/ Stay \/ RenderFails \/ RetryRender

Spec == Init /\ [][Next]_vars

-----------------------------------------------------------------------------
(* Safety.                                                                 *)

TypeOK ==
  /\ ShellTypeOK
  /\ visit \in 0..MaxVisits
  /\ step \in Steps
  /\ selected \in Templates \cup {None} /\ mode \in {"upload", "capture", None}
  /\ editorState \in Edits \cup {None}
  /\ {staged, notice} \subseteq Files \cup {None}
  /\ drawn \in Pages \cup {None}
  /\ sourceRef \in [Visits -> Files \cup {None}]
  /\ load \in [Files -> [pc : {"idle", "reading", "left", "over"}, visit : 0..MaxVisits]]
  /\ bitmaps \subseteq Files /\ late \subseteq Files
  /\ key \in Keys \cup {Partial} /\ urls \subseteq Resolves /\ live \subseteq Keys

(* Whatever order photos are decoded, replaced and dropped in, and         *)
(* templates switched in: the edits on screen are of the template chosen   *)
(* and of the photo shown, so that no crop is rendered on a photo it was   *)
(* not made on -- but for one that was decoded after its upload step was   *)
(* left: it is not rendered yet when the old photo's editor is left, whose *)
(* edits then come after replaceSource has dropped them (create-page.tsx). *)
EditsBelongToSource ==
  shown.edits # None =>
    /\ shown.edits.template = selected
    /\ shown.edits.photo = shown.source \/ shown.source \in late

(* A step without what it needs to be drawn, which leaves no button but    *)
(* those of the page frame, is only reached when a file is decoded after   *)
(* its upload step was left: the page jumps to the confirm step although   *)
(* no template is chosen any more.                                         *)
BlankOnlyAfterLateUpload == Showing("create") /\ Blank => shown.source \in late

(* Decoded photos and previews are let go: all but the photo of the create *)
(* page and the preview on screen, and what arrived after its page had     *)
(* gone; of previews also those that another answer replaced before they   *)
(* were rendered.  And none is revoked that is or will be on screen.       *)
NothingElseHeld ==
  /\ bitmaps \subseteq late \cup (IF Showing("create") THEN {source} ELSE {})
  /\ urls \cap seen \subseteq {painted.url}
  /\ {painted.url, stage.url} \ {Partial} \subseteq urls

(* "After deletion this photo must not be retrievable"                     *)
(* (retrieve-page.tsx): a preview that is, or will be, beside "Delete      *)
(* submitted" is of a lookup that was pending when that was answered.      *)
ShownAfterDeleteOnlyIfPending ==
  deleteStage = "done" /\ stage.kind = "resolved" => stage.url \in underway
=============================================================================

------------------------------ MODULE CreateFlow ------------------------------
(***************************************************************************)
(* The create page: CreatePage (frontend/src/create/create-page.tsx), the  *)
(* template step (template-step.tsx) and the upload step                   *)
(* (source-step.tsx), which decodes photo files (SourcePhoto) and hands    *)
(* each to whatever the page has become by then.                           *)
(*                                                                         *)
(* What the user does is rendered before the next event; what a photo that *)
(* is ready sets is only queued, and meanwhile the old page is on screen   *)
(* with handlers that read its old values (drawn).                         *)
(*                                                                         *)
(* The editor, the camera, the final page and the staging panel are the    *)
(* subject of Editor, Capture, FinalPage and Staging: here they only give  *)
(* their results.  A file is chosen at most once, and stands for the photo *)
(* made of it.                                                             *)
(***************************************************************************)
EXTENDS Shell, SourcePhoto

CONSTANTS
  Templates,   (* the revisions of the catalogue                           *)
  Entry,       (* the TemplateEntry of each                                *)
  Files,       (* photo files                                              *)
  Content,     (* what is in them                                          *)
  Captures,    (* files the camera makes                                   *)
  MaxVisits    (* bound on mounts of the page                              *)

(* The kinds of document one can look for (permits are not among them) and *)
(* the channels, and what the template step reads of a template.           *)
DocumentTypes == {"passport", "visa", "id", "portrait"}
Channels == {"digital_upload", "paper", "certified_transfer", "onsite_capture"}
TemplateEntry ==
  [jurisdiction : STRING, documentType : DocumentTypes \cup {"permit"}, channel : Channels,
   status : {"active", "reference_only", "deprecated", "unsupported"},
   crop : {"allowed", "warn", "forbidden"}]

Steps == {"template", "source", "upload", "capture", "review", "edit", "final"}

(* The states of the page that a photo changes.                            *)
Edits == [photo : Files, template : Templates]
Pages == [step : Steps, source : Files \cup {None}, edits : Edits \cup {None}]

ASSUME CreateAssumption ==
  /\ Entry \in [Templates -> TemplateEntry]
  /\ Captures \subseteq Files
  /\ None \notin Templates \cup Files \cup Edits \cup Pages
  /\ MaxVisits \in Nat \ {0}

VARIABLES
  visit,       (* how often the page was mounted                           *)
  step, selected, mode, editorState, staged, notice,  (* states of the page*)
  drawn,       (* the page on screen, while a photo waits to be rendered   *)
  sourceRef,   (* of each mounted page, and of those that were             *)
  load,        (* of each file: how far its upload is, and for which visit *)
  bitmaps,     (* photos that are not disposed                             *)
  late         (* files decoded after their upload step had gone           *)

form == <<step, selected, mode, editorState, staged, notice>>
photos == <<sourceRef, load, bitmaps, late>>
create == <<visit, form, photos, drawn>>

Visits == 1..MaxVisits
source == IF visit = 0 THEN None ELSE sourceRef[visit]

(* What a photo changes: as it is set, and as it is on screen.             *)
asked == [step |-> step, source |-> source, edits |-> editorState]
shown == IF drawn = None THEN asked ELSE drawn

dirty == shown.source # None \/ shown.edits # None \/ staged # None

Blank ==
  \/ shown.step \in {"source", "upload", "capture"} /\ selected = None
  \/ shown.step \in {"review", "edit"} /\ (selected = None \/ shown.source = None)
  \/ shown.step = "final" /\ (selected = None \/ shown.source = None \/ shown.edits = None)

FormInit ==
  /\ step = "template" /\ selected = None /\ mode = None
  /\ editorState = None /\ staged = None /\ notice = None

CreateInit ==
  /\ FormInit /\ visit = 0 /\ sourceRef = [v \in Visits |-> None]
  /\ load = [f \in Files |-> [pc |-> "idle", visit |-> 0]]
  /\ bitmaps = {} /\ late = {} /\ drawn = None

On(s) == Showing("create") /\ shown.step = s /\ ~Blank

(* setStep by the user, rendered with all that is queued; an upload step   *)
(* that is left forgets nothing it has begun.                              *)
SetStep(s) ==
  /\ step' = s /\ drawn' = None
  /\ IF s = "template" THEN Await("catalogue") ELSE AwaitNothing
Left(l) == [f \in Files |-> IF l[f].pc = "reading" THEN [l[f] EXCEPT !.pc = "left"] ELSE l[f]]
LeaveUpload == load' = Left(load)

(* The page's effects when it is mounted, and when it goes.                *)
EnterCreate ==
  /\ visit < MaxVisits /\ visit' = visit + 1
  /\ step' = "template" /\ Await("catalogue")
  /\ UNCHANGED <<drawn, selected, mode, editorState, staged, notice, photos>>
LeaveCreate ==
  /\ bitmaps' = bitmaps \ {source}
  /\ sourceRef' = [sourceRef EXCEPT ![visit] = None]
  /\ LeaveUpload
  /\ step' = "template" /\ selected' = None /\ mode' = None
  /\ editorState' = None /\ staged' = None /\ notice' = None /\ drawn' = None
  /\ UNCHANGED <<visit, late>>

(* replaceSource, by the page of visit v.                                  *)
ReplaceKeepingEdits(v, photo) ==
  /\ bitmaps' = (bitmaps \ {sourceRef[v]}) \cup ({photo} \ {None})
  /\ sourceRef' = [sourceRef EXCEPT ![v] = photo]
  /\ UNCHANGED editorState
ReplaceSource(v, photo) ==
  /\ bitmaps' = (bitmaps \ {sourceRef[v]}) \cup ({photo} \ {None})
  /\ sourceRef' = [sourceRef EXCEPT ![v] = photo]
  /\ IF v = visit THEN editorState' = None ELSE UNCHANGED editorState

-----------------------------------------------------------------------------
(* The template step.                                                      *)

(* What each filter can be set to: a country that some template has, a     *)
(* kind of document, a channel; or all of them.                            *)
Jurisdictions == {Entry[t].jurisdiction : t \in Templates}
Filters ==
  [jurisdiction : {None} \cup Jurisdictions,
   documentType : {None} \cup DocumentTypes, channel : {None} \cup Channels]

Listed(filters) ==
  {t \in Templates : \A f \in DOMAIN filters : filters[f] \in {None, Entry[t][f]}}

(* Only an active template has a button that selects it: the others are    *)
(* listed apart, with what they wait for.                                  *)
Selectable(filters) == {t \in Listed(filters) : Entry[t].status = "active"}
Offered == UNION {Selectable(filters) : filters \in Filters}
Locked == {t \in Templates : Entry[t].crop = "forbidden"}

(* Without a photo the source is next; with one its edits are carried over *)
(* to the template, or dropped when it locks the composition.              *)
SelectTemplate(t) ==
  /\ On("template") /\ view = "ready" /\ t \in Offered /\ selected' = t
  /\ IF shown.source = None THEN SetStep("source") /\ UNCHANGED <<editorState, notice>>
     ELSE /\ SetStep("review")
          /\ IF shown.edits = None THEN notice' = None /\ UNCHANGED editorState
             ELSE IF selected \notin {None, t} /\ t \in Locked
             THEN editorState' = None /\ notice' = shown.source
             ELSE /\ editorState' = [shown.edits EXCEPT !.template = t]
                  /\ notice' \in {None, shown.source}
  /\ UNCHANGED <<visit, mode, staged, photos, router>>

KeepTemplate ==
  /\ On("template") /\ shown.source # None /\ SetStep("review")
  /\ UNCHANGED <<visit, selected, mode, editorState, staged, notice, photos, router>>

-----------------------------------------------------------------------------
(* The source, upload and camera steps.                                    *)

ChooseSource(m) ==
  /\ On("source") /\ mode' = m /\ SetStep(m)
  /\ UNCHANGED <<visit, selected, editorState, staged, notice, photos, router>>

BackTo(from, to) ==
  /\ On(from) /\ SetStep(to)
  /\ IF from = "upload" THEN LeaveUpload ELSE UNCHANGED load
  /\ UNCHANGED <<visit, selected, mode, editorState, staged, notice,
                 sourceRef, bitmaps, late, router>>

(* A file is picked or dropped, also while another is being read.  If a    *)
(* photo waits to be rendered, the message that is cleared renders it.     *)
ChooseFile(f) ==
  /\ On("upload") /\ f \notin Captures /\ load[f].pc = "idle" /\ drawn' = None
  /\ LET begun == [load EXCEPT ![f] = [pc |-> "reading", visit |-> visit]] IN
     IF drawn = None THEN load' = begun /\ UNCHANGED answers
     ELSE load' = Left(begun) /\ AwaitNothing
  /\ UNCHANGED <<visit, form, sourceRef, bitmaps, late, router>>

(* What a photo that is ready asks of the page: to show it.                *)
QueueReview == step' = "review" /\ drawn' = shown

(* The file is loaded and checked: its photo becomes that of the page that *)
(* asked, whatever step it shows, and of a page that has gone as well.     *)
PhotoReady(f) ==
  /\ load[f].pc \in {"reading", "left"} /\ LoadError(Content[f]) = None
  /\ ReplaceSource(load[f].visit, f)
  /\ late' = IF load[f].pc = "left" THEN late \cup {f} ELSE late
  /\ load' = [load EXCEPT ![f].pc = "over"]
  /\ IF Showing("create") /\ load[f].visit = visit THEN QueueReview
     ELSE UNCHANGED <<step, drawn>>
  /\ UNCHANGED <<visit, selected, mode, staged, notice, router, answers>>

(* What is queued is rendered; the upload step, if it was there, goes.     *)
RenderPage ==
  /\ drawn # None /\ drawn' = None /\ LeaveUpload /\ AwaitNothing
  /\ UNCHANGED <<visit, form, sourceRef, bitmaps, late, router>>

(* A file within every limit may still fail: the browser is short of       *)
(* memory for its pixels.                                                  *)
FileRefused(f) ==
  /\ load[f].pc \in {"reading", "left"}
  /\ load' = [load EXCEPT ![f].pc = "over"]
  /\ UNCHANGED <<visit, form, drawn, sourceRef, bitmaps, late, router, answers>>

CameraReady(f) ==
  /\ On("capture") /\ f \in Captures /\ load[f].pc = "idle"
  /\ load' = [load EXCEPT ![f] = [pc |-> "over", visit |-> visit]]
  /\ ReplaceSource(visit, f) /\ QueueReview
  /\ UNCHANGED <<visit, selected, mode, staged, notice, late, router, answers>>

-----------------------------------------------------------------------------
(* The confirm step, the editor and the final page.                        *)

Confirm ==
  /\ On("review") /\ SetStep("edit")
  /\ UNCHANGED <<visit, selected, mode, editorState, staged, notice, photos, router>>

ChangeTemplate ==
  /\ On("review") /\ SetStep("template")
  /\ UNCHANGED <<visit, selected, mode, editorState, staged, notice, photos, router>>

DiscardPhoto(to) ==
  /\ On("review") /\ ReplaceSource(visit, None) /\ SetStep(to)
  /\ UNCHANGED <<visit, selected, mode, staged, notice, load, late, router>>
Retake == DiscardPhoto(IF mode = "capture" THEN "capture" ELSE "upload")
BackToSource == DiscardPhoto("source")

(* The editor hands its state over, whichever way it is left.              *)
LeaveEditor(to) ==
  /\ On("edit") /\ SetStep(to)
  /\ editorState' = [photo |-> shown.source, template |-> selected]
  /\ UNCHANGED <<visit, selected, mode, staged, notice, photos, router>>

BackToEditor ==
  /\ On("final") /\ SetStep("edit")
  /\ UNCHANGED <<visit, selected, mode, editorState, staged, notice, photos, router>>

OnStaged(receipt) ==
  /\ On("final") /\ staged' = receipt
  /\ UNCHANGED <<visit, step, selected, mode, editorState, notice, photos, drawn, router, answers>>

(* After the confirmation that a staged photo calls for.                   *)
RestartInPlace ==
  /\ On("final") /\ ReplaceSource(visit, None)
  /\ mode' = None /\ selected' = None /\ staged' = None /\ SetStep("final")
  /\ UNCHANGED <<visit, notice, load, late, router>>
Restart ==
  /\ On("final") /\ ReplaceSource(visit, None)
  /\ mode' = None /\ selected' = None /\ staged' = None /\ SetStep("template")
  /\ UNCHANGED <<visit, notice, load, late, router>>

CreateNext ==
  \/ \E t \in Templates : SelectTemplate(t)
  \/ KeepTemplate
  \/ \E m \in {"upload", "capture"} : ChooseSource(m) \/ BackTo(m, "source")
  \/ BackTo("source", "template")
  \/ \E f \in Files : ChooseFile(f) \/ PhotoReady(f) \/ FileRefused(f) \/ CameraReady(f)
  \/ RenderPage \/ Confirm \/ ChangeTemplate \/ Retake \/ BackToSource
  \/ \E to \in {"review", "final"} : LeaveEditor(to)
  \/ BackToEditor \/ Restart
  \/ \E receipt \in {None, shown.source} : OnStaged(receipt)
=============================================================================

----------------------------- MODULE AppProofs -----------------------------
(***************************************************************************)
(* Proofs about App, for any templates, files, KEYs, lookups, deletions,   *)
(* contents of files and number of visits of the create page; and about    *)
(* the rate limiter that the retrieve page's lookups meet on the server    *)
(* (RateLimit), for every number of requests and addresses, every limit,   *)
(* every width of the windows and any length of time.                      *)
(***************************************************************************)
EXTENDS App, RateLimit, FiniteSetTheorems, TLAPS

(* A file is read only while the upload step that asked for it is there,   *)
(* and one that has begun belongs to a page there was.                     *)
LoadInv ==
  \A f \in Files :
    /\ load[f].pc = "reading" =>
         Showing("create") /\ shown.step = "upload" /\ load[f].visit = visit
    /\ load[f].pc \in {"reading", "left"} => load[f].visit \in 1 .. visit

(* A page that is not there has nothing but a photo that came too late.    *)
AwayInv ==
  /\ ~Showing("create") => step = "template" /\ selected = None /\ editorState = None
  /\ Showing("create") => visit # 0
  /\ \A v \in Visits : v > visit => sourceRef[v] = None

(* What waits to be rendered is a photo on the confirm step without edits; *)
(* it came too late, unless the step that made it is still on screen.      *)
DrawnInv ==
  drawn # None =>
    /\ Showing("create") /\ step = "review" /\ editorState = None /\ source # None
    /\ drawn.step \in {"upload", "capture"} \/ source \in late

(* The page p has what its step needs, and its edits are of its photo and  *)
(* template, unless the photo came too late.                               *)
Fits(p) ==
  /\ p.step = "template" /\ p.source # None => selected # None
  /\ p.step \in {"source", "upload", "capture"} => selected # None
  /\ p.step \in {"review", "edit", "final"} =>
       \/ p.source \in late
       \/ selected # None /\ p.source # None /\ (p.step = "final" => p.edits # None)
  /\ p.edits # None =>
       p.edits.template = selected /\ (p.edits.photo = p.source \/ p.source \in late)

(* So it is with the page set and with the one on screen.                  *)
StepInv == Showing("create") => Fits(asked) /\ Fits(shown)

(* What is decoded and not let go is the photo shown or came too late.     *)
BitmapInv == bitmaps \subseteq late \cup (IF Showing("create") THEN {source} ELSE {})

PhotoInv == LoadInv /\ AwayInv /\ DrawnInv /\ StepInv /\ BitmapInv

-----------------------------------------------------------------------------
(* The retrieve page.                                                      *)

LookUp == [pc : {"idle", "sent", "token", "bytes", "refused", "done"},
           key : Keys \cup {Partial}, here : BOOLEAN]
StageState == [kind : {"idle", "resolving", "error", "resolved"}, url : Resolves \cup {Partial}]

RetrieveTypes ==
  /\ resolving \in [Resolves -> LookUp] /\ stage \in StageState
  /\ urls \subseteq Resolves /\ seen \subseteq Resolves

(* A preview is of a lookup that is over; one that was on screen is there  *)
(* still or let go, and one that is or will be is not.                     *)
UrlInv ==
  /\ \A i \in urls \cup seen : resolving[i].pc = "done"
  /\ stage.kind = "resolved" \/ stage.url = Partial
  /\ {painted.url, stage.url} \ {Partial} \subseteq urls
  /\ urls \cap seen \subseteq {painted.url}

(* After a deletion the lookups of this page are those pending before it.  *)
AfterDeleteInv ==
  deleteStage = "done" =>
    /\ \A i \in Resolves : Pending(i) /\ resolving[i].here => i \in underway
    /\ stage.kind = "resolved" => stage.url \in underway

RetrieveInv == RetrieveTypes /\ UrlInv /\ AfterDeleteInv

Inv == TypeOK /\ PhotoInv /\ RetrieveInv

-----------------------------------------------------------------------------
(* Types.                                                                  *)

AnswerTypes ==
  /\ cache \in [Resources -> {"none", "pending", "held"}]
  /\ view \in {"off", "loading", "error", "ready", "missing", "ready and error"}
RouterTypes == route \in Routes /\ crashed \in BOOLEAN /\ blocked \in Routes \cup {"nowhere"}
FormTypes ==
  /\ step \in Steps
  /\ selected \in Templates \cup {None} /\ mode \in {"upload", "capture", None}
  /\ editorState \in Edits \cup {None} /\ drawn \in Pages \cup {None}
  /\ staged \in Files \cup {None} /\ notice \in Files \cup {None}
PhotoTypes ==
  /\ sourceRef \in [Visits -> Files \cup {None}]
  /\ load \in [Files -> [pc : {"idle", "reading", "left", "over"}, visit : 0..MaxVisits]]
  /\ bitmaps \subseteq Files /\ late \subseteq Files
PageTypes == visit \in 0..MaxVisits /\ FormTypes /\ PhotoTypes
KeyTypes == key \in Keys \cup {Partial} /\ urls \subseteq Resolves /\ live \subseteq Keys

(* The types of App, by the part of the page they are about.               *)
LEMMA TypesByPart == TypeOK <=> RouterTypes /\ AnswerTypes /\ PageTypes /\ KeyTypes
BY DEF TypeOK, ShellTypeOK, RouterTypes, AnswerTypes, PageTypes, FormTypes, PhotoTypes, KeyTypes,
       Steps

(* What a component that is mounted, or none, does to the answers.         *)
LEMMA AwaitTyped ==
  ASSUME AnswerTypes, AwaitNothing \/ (\E r \in Resources : Await(r))
  PROVE  AnswerTypes'
<1>1. CASE AwaitNothing
  BY <1>1 DEF AwaitNothing, AnswerTypes
<1>2. ASSUME NEW r \in Resources, Await(r) PROVE AnswerTypes'
  BY <1>2 DEF Await, Fetch, AnswerTypes
<1> QED BY <1>1, <1>2

(* Going to another step.                                                  *)
LEMMA SetStepTyped ==
  ASSUME AnswerTypes, NEW s \in Steps, SetStep(s)
  PROVE  AnswerTypes' /\ step' = s /\ step' \in Steps /\ drawn' = None
BY AwaitTyped DEF SetStep, Resources

(* The page that asks for nothing, or for what it shows.                   *)
LEMMA AskServerTyped ==
  ASSUME AnswerTypes, NEW page, AskServer(page)
  PROVE  AnswerTypes'
BY AwaitTyped DEF AskServer, Resources

(* The photo of the page that is shown.                                    *)
LEMMA SourceTyped ==
  ASSUME PageTypes
  PROVE  /\ source \in Files \cup {None}
         /\ visit # 0 => visit \in Visits /\ source = sourceRef[visit]
BY CreateAssumption DEF PageTypes, PhotoTypes, source, Visits

(* The page set, and the page on screen.                                   *)
LEMMA ShownTyped ==
  ASSUME PageTypes
  PROVE  asked \in Pages /\ shown \in Pages
<1>1. asked \in Pages
  BY SourceTyped DEF PageTypes, FormTypes, asked, Pages
<1> QED BY <1>1 DEF PageTypes, FormTypes, shown

(* An upload step that is left.                                            *)
LEMMA LeaveUploadEffect ==
  ASSUME PhotoTypes, LeaveUpload
  PROVE  /\ load' \in [Files -> [pc : {"idle", "reading", "left", "over"}, visit : 0..MaxVisits]]
         /\ \A f \in Files :
              /\ load'[f].visit = load[f].visit
              /\ load'[f].pc = IF load[f].pc = "reading" THEN "left" ELSE load[f].pc
BY DEF LeaveUpload, Left, PhotoTypes

(* A photo is replaced: of the page of visit v.                            *)
LEMMA ReplaceEffect ==
  ASSUME PhotoTypes, NEW v \in 0..MaxVisits, NEW photo \in Files \cup {None},
         bitmaps' = (bitmaps \ {sourceRef[v]}) \cup ({photo} \ {None}),
         sourceRef' = [sourceRef EXCEPT ![v] = photo]
  PROVE  /\ bitmaps' \subseteq Files /\ bitmaps' \subseteq bitmaps \cup ({photo} \ {None})
         /\ sourceRef' \in [Visits -> Files \cup {None}]
         /\ v \in Visits => sourceRef'[v] = photo
         /\ \A w \in Visits : w # v => sourceRef'[w] = sourceRef[w]
BY DEF PhotoTypes


(* The create page goes.                                                   *)
LEMMA LeaveTyped ==
  ASSUME PageTypes, LeaveCreate
  PROVE  PageTypes'
<1>1. PhotoTypes
  BY DEF PageTypes
<1>2. LeaveUpload /\ visit' = visit /\ late' = late
  BY DEF LeaveCreate
<1>3. sourceRef' \in [Visits -> Files \cup {None}] /\ bitmaps' \subseteq Files
  BY <1>1 DEF LeaveCreate, PhotoTypes
<1>4. PhotoTypes'
  BY <1>1, <1>2, <1>3, LeaveUploadEffect DEF PhotoTypes
<1>5. FormTypes'
  BY DEF LeaveCreate, FormTypes, Steps
<1> QED BY <1>2, <1>4, <1>5 DEF PageTypes

(* A page is mounted.                                                      *)
LEMMA MountTyped ==
  ASSUME AnswerTypes, PageTypes, NEW page, Mount(page)
  PROVE  AnswerTypes' /\ PageTypes'
<1>1. CASE page = "create"
  <2>1. EnterCreate
    BY <1>1 DEF Mount
  <2>2. visit' \in 0..MaxVisits
    BY <2>1, CreateAssumption DEF EnterCreate, PageTypes
  <2>3. FormTypes' /\ PhotoTypes'
    BY <2>1 DEF EnterCreate, PageTypes, FormTypes, PhotoTypes, photos, Steps
  <2>4. AnswerTypes'
    BY <2>1, AwaitTyped DEF EnterCreate, Resources
  <2> QED BY <2>2, <2>3, <2>4 DEF PageTypes
<1>2. CASE page # "create"
  BY <1>2, AskServerTyped
  DEF Mount, create, form, photos, PageTypes, FormTypes, PhotoTypes
<1> QED BY <1>1, <1>2

(* Another page is gone to.                                                *)
LEMMA GoToTyped ==
  ASSUME TypeOK, NEW page \in Routes, GoTo(page)
  PROVE  TypeOK'
<1>1. RouterTypes /\ AnswerTypes /\ PageTypes /\ KeyTypes
  BY TypesByPart
<1>2. RouterTypes'
  BY <1>1 DEF GoTo, RouterTypes
<1>3. KeyTypes'
  BY <1>1 DEF GoTo, LeaveRetrieve, retrieve, fields, calls, KeyTypes
<1>4. AnswerTypes' /\ PageTypes'
  <2>1. CASE crashed
    BY <1>1, <2>1, AwaitTyped
    DEF GoTo, create, form, photos, PageTypes, FormTypes, PhotoTypes
  <2>2. CASE ~crashed /\ route = "create"
    BY <1>1, <2>2, LeaveTyped, AskServerTyped DEF GoTo
  <2>3. CASE ~crashed /\ route # "create"
    BY <1>1, <2>3, MountTyped DEF GoTo
  <2> QED BY <2>1, <2>2, <2>3
<1> QED BY <1>2, <1>3, <1>4
  DEF TypeOK, ShellTypeOK, RouterTypes, AnswerTypes, PageTypes, FormTypes, PhotoTypes, KeyTypes,
       Steps

(* The document is loaded anew.                                            *)
LEMMA ReloadTyped ==
  ASSUME TypeOK, NEW page \in Routes, Reload(page)
  PROVE  TypeOK'
<1>1. RouterTypes /\ AnswerTypes /\ PageTypes /\ KeyTypes
  BY TypesByPart
<1>2. RouterTypes' /\ AnswerTypes'
  BY DEF Reload, RouterTypes, AnswerTypes
<1>3. FormTypes' /\ visit' = visit
  BY DEF Reload, FormTypes, Steps
<1>4. KeyTypes'
  BY <1>1 DEF Reload, KeyTypes
<1>5. PhotoTypes'
  BY <1>1 DEF Reload, PageTypes, PhotoTypes
<1> QED BY <1>1, <1>2, <1>3, <1>4, <1>5
  DEF TypeOK, ShellTypeOK, RouterTypes, AnswerTypes, PageTypes, FormTypes, PhotoTypes, KeyTypes,
       Steps

(* The steps of the create page.                                           *)
LEMMA CreateTyped ==
  ASSUME TypeOK, CreateNext
  PROVE  RouterTypes' /\ AnswerTypes' /\ PageTypes'
<1> USE DEF PageTypes
<1>1. RouterTypes /\ AnswerTypes /\ visit \in 0..MaxVisits /\ FormTypes /\ PhotoTypes
  BY TypesByPart
<1>2. shown.source \in Files \cup {None} /\ shown.edits \in Edits \cup {None} /\ shown \in Pages
  BY <1>1, ShownTyped DEF Pages
<1>3. ASSUME NEW t \in Templates, SelectTemplate(t)
      PROVE  RouterTypes' /\ AnswerTypes' /\ PageTypes'
  <2>1. UNCHANGED <<router, visit, mode, staged, photos>> /\ selected' = t
    BY <1>3 DEF SelectTemplate
  <2>2. SetStep("source") \/ SetStep("review")
    BY <1>3 DEF SelectTemplate
  <2>3. AnswerTypes' /\ step' \in Steps /\ drawn' = None
    BY <1>1, <2>2, SetStepTyped DEF Steps
  <2>4. editorState' \in Edits \cup {None}
    BY <1>1, <1>2, <1>3 DEF SelectTemplate, FormTypes, Edits
  <2>5. notice' \in Files \cup {None}
    BY <1>1, <1>2, <1>3 DEF SelectTemplate, FormTypes
  <2> QED BY <1>1, <2>1, <2>3, <2>4, <2>5 DEF FormTypes, PhotoTypes, RouterTypes, router, photos
<1>4. ASSUME \E s \in Steps : SetStep(s),
             UNCHANGED <<visit, selected, editorState, staged, notice, sourceRef, bitmaps, late, router>>,
             mode' = mode \/ mode' \in {"upload", "capture"},
             load' = load \/ LeaveUpload
      PROVE  RouterTypes' /\ AnswerTypes' /\ PageTypes'
  <2>1. AnswerTypes' /\ step' \in Steps /\ drawn' = None
    BY <1>1, <1>4, SetStepTyped
  <2>2. PhotoTypes'
    BY <1>1, <1>4, LeaveUploadEffect DEF PhotoTypes
  <2> QED BY <1>1, <1>4, <2>1, <2>2 DEF FormTypes, RouterTypes, router
<1>5. CASE KeepTemplate \/ Confirm \/ ChangeTemplate \/ BackToEditor
  BY <1>4, <1>5 DEF KeepTemplate, Confirm, ChangeTemplate, BackToEditor, photos, Steps
<1>6. ASSUME NEW m \in {"upload", "capture"}, ChooseSource(m)
      PROVE  RouterTypes' /\ AnswerTypes' /\ PageTypes'
  BY <1>4, <1>6 DEF ChooseSource, photos, Steps
<1>7. ASSUME NEW m \in {"upload", "capture", "source"}, NEW to \in {"source", "template"},
             BackTo(m, to)
      PROVE  RouterTypes' /\ AnswerTypes' /\ PageTypes'
  BY <1>4, <1>7 DEF BackTo, Steps
<1>8. ASSUME NEW f \in Files, FileRefused(f)
      PROVE  RouterTypes' /\ AnswerTypes' /\ PageTypes'
  <2>1. load' \in [Files -> [pc : {"idle", "reading", "left", "over"}, visit : 0..MaxVisits]]
    BY <1>1, <1>8 DEF FileRefused, PhotoTypes
  <2>2. UNCHANGED <<visit, form, drawn, sourceRef, bitmaps, late, router, answers>>
    BY <1>8 DEF FileRefused
  <2> QED BY <1>1, <2>1, <2>2
          DEF router, answers, form, RouterTypes, AnswerTypes, FormTypes, PhotoTypes
<1>8a. ASSUME drawn' = None, AwaitNothing \/ UNCHANGED answers,
              load' \in [Files -> [pc : {"idle", "reading", "left", "over"}, visit : 0..MaxVisits]],
              UNCHANGED <<visit, form, sourceRef, bitmaps, late, router>>
       PROVE  RouterTypes' /\ AnswerTypes' /\ PageTypes'
  <2>1. AnswerTypes'
    BY <1>1, <1>8a, AwaitTyped DEF answers, AnswerTypes
  <2> QED BY <1>1, <1>8a, <2>1 DEF router, form, RouterTypes, FormTypes, PhotoTypes
<1>8b. ASSUME NEW f \in Files, ChooseFile(f)
       PROVE  RouterTypes' /\ AnswerTypes' /\ PageTypes'
  <2> DEFINE begun == [load EXCEPT ![f] = [pc |-> "reading", visit |-> visit]]
  <2>1. begun \in [Files -> [pc : {"idle", "reading", "left", "over"}, visit : 0..MaxVisits]]
    BY <1>1 DEF PhotoTypes
  <2>2. load' \in {begun, Left(begun)}
    BY <1>8b DEF ChooseFile
  <2>3. load' \in [Files -> [pc : {"idle", "reading", "left", "over"}, visit : 0..MaxVisits]]
    BY <2>1, <2>2 DEF Left
  <2> QED BY <1>8a, <1>8b, <2>3 DEF ChooseFile
<1>8c. CASE RenderPage
  BY <1>1, <1>8a, <1>8c, LeaveUploadEffect DEF RenderPage
<1>9. ASSUME NEW f \in Files, PhotoReady(f)
      PROVE  RouterTypes' /\ AnswerTypes' /\ PageTypes'
  <2>1. PICK v \in 0..MaxVisits : v = load[f].visit
    BY <1>1 DEF PhotoTypes
  <2>2. sourceRef' \in [Visits -> Files \cup {None}] /\ bitmaps' \subseteq Files
    BY <1>1, <1>9, <2>1, ReplaceEffect DEF PhotoReady, ReplaceSource
  <2>3. load' \in [Files -> [pc : {"idle", "reading", "left", "over"}, visit : 0..MaxVisits]]
    BY <1>1, <1>9 DEF PhotoReady, PhotoTypes
  <2>4. AnswerTypes' /\ step' \in Steps /\ drawn' \in Pages \cup {None}
    BY <1>1, <1>2, <1>9 DEF PhotoReady, QueueReview, Steps, answers, AnswerTypes, FormTypes
  <2>5. editorState' \in {editorState, None} /\ late' \subseteq Files
    BY <1>1, <1>9 DEF PhotoReady, ReplaceSource, PhotoTypes
  <2> QED BY <1>1, <1>9, <2>2, <2>3, <2>4, <2>5
          DEF PhotoReady, router, RouterTypes, FormTypes, PhotoTypes
<1>10. ASSUME NEW f \in Files, CameraReady(f)
       PROVE  RouterTypes' /\ AnswerTypes' /\ PageTypes'
  <2>1. sourceRef' \in [Visits -> Files \cup {None}] /\ bitmaps' \subseteq Files
    BY <1>1, <1>10, ReplaceEffect DEF CameraReady, ReplaceSource
  <2>2. load' \in [Files -> [pc : {"idle", "reading", "left", "over"}, visit : 0..MaxVisits]]
    BY <1>1, <1>10 DEF CameraReady, PhotoTypes
  <2>3. AnswerTypes' /\ step' \in Steps /\ drawn' \in Pages \cup {None}
    BY <1>1, <1>2, <1>10 DEF CameraReady, QueueReview, Steps, answers, AnswerTypes
  <2>4. editorState' = None
    BY <1>10 DEF CameraReady, ReplaceSource
  <2> QED BY <1>1, <1>10, <2>1, <2>2, <2>3, <2>4
          DEF CameraReady, router, RouterTypes, FormTypes, PhotoTypes
<1>11. ASSUME \E s \in Steps : SetStep(s), ReplaceSource(visit, None),
              UNCHANGED <<visit, notice, load, late, router>>,
              selected' \in {selected, None}, mode' \in {mode, None}, staged' \in {staged, None}
       PROVE  RouterTypes' /\ AnswerTypes' /\ PageTypes'
  <2>1. sourceRef' \in [Visits -> Files \cup {None}] /\ bitmaps' \subseteq Files
    BY <1>1, <1>11, ReplaceEffect DEF ReplaceSource
  <2>2. AnswerTypes' /\ step' \in Steps /\ drawn' = None
    BY <1>1, <1>11, SetStepTyped
  <2>3. editorState' = None
    BY <1>11 DEF ReplaceSource
  <2> QED BY <1>1, <1>11, <2>1, <2>2, <2>3 DEF router, RouterTypes, FormTypes, PhotoTypes
<1>12. CASE Retake \/ BackToSource
  BY <1>11, <1>12 DEF Retake, BackToSource, DiscardPhoto, Steps
<1>13. CASE Restart
  BY <1>11, <1>13 DEF Restart, Steps
<1>14. ASSUME NEW to \in {"review", "final"}, LeaveEditor(to)
       PROVE  RouterTypes' /\ AnswerTypes' /\ PageTypes'
  <2>1. AnswerTypes' /\ step' \in Steps /\ drawn' = None
    BY <1>1, <1>14, SetStepTyped DEF LeaveEditor, Steps
  <2>2. shown.source \in Files /\ selected \in Templates
    BY <1>1, <1>2, <1>14 DEF LeaveEditor, On, Blank, FormTypes
  <2>3. editorState' \in Edits
    BY <1>14, <2>2 DEF LeaveEditor, Edits
  <2> QED BY <1>1, <1>14, <2>1, <2>3
          DEF LeaveEditor, router, photos, RouterTypes, FormTypes, PhotoTypes
<1>15. ASSUME NEW receipt \in {None, shown.source}, OnStaged(receipt)
       PROVE  RouterTypes' /\ AnswerTypes' /\ PageTypes'
  <2>1. UNCHANGED <<visit, step, selected, mode, editorState, notice, photos, drawn, router, answers>>
    BY <1>15 DEF OnStaged
  <2>2. staged' \in Files \cup {None}
    BY <1>2, <1>15 DEF OnStaged
  <2>3. RouterTypes' /\ AnswerTypes' /\ PhotoTypes'
    BY <1>1, <2>1 DEF router, answers, photos, RouterTypes, AnswerTypes, PhotoTypes
  <2> QED BY <1>1, <2>1, <2>2, <2>3 DEF FormTypes
<1> QED
  BY <1>3, <1>5, <1>6, <1>7, <1>8, <1>9, <1>10, <1>12, <1>13, <1>14, <1>15, <1>8b, <1>8c
  DEF CreateNext

(* The retrieve page's field and object URLs.                              *)
LEMMA RetrieveTyped ==
  ASSUME KeyTypes, RetrieveNext
  PROVE  KeyTypes'
<1>1. CASE \E k \in Keys \cup {Partial} : TypeKey(k)
  BY <1>1 DEF TypeKey, Rendered, Paint, calls, KeyTypes
<1>2. CASE RenderStage \/ ResolveIncomplete \/ AskDelete \/ CancelDelete
  BY <1>2 DEF RenderStage, ResolveIncomplete, AskDelete, CancelDelete, Rendered, Paint, calls, KeyTypes
<1>3. ASSUME NEW i \in Resolves,
             \/ Resolve(i) \/ ResolveLost(i) \/ PhotoArrives(i) \/ RefusalArrives(i)
             \/ Serve(i, "sent", "token") \/ Serve(i, "token", "bytes")
      PROVE  KeyTypes'
  BY <1>3 DEF Resolve, ResolveLost, PhotoArrives, RefusalArrives, Serve, Rendered, Paint, Queue,
              fields, KeyTypes
<1>4. ASSUME NEW d \in Deletes,
             Remove(d) \/ ServeDelete(d) \/ DeleteLost(d) \/ DeleteAnswered(d) \/ DeleteFails(d)
      PROVE  KeyTypes'
  BY <1>4
  DEF Remove, ServeDelete, DeleteLost, DeleteAnswered, Deleted, DeleteFails, Rendered, Paint, Queue,
      fields, KeyTypes
<1> QED BY <1>1, <1>2, <1>3, <1>4 DEF RetrieveNext

(* Every step keeps the types.                                             *)
LEMMA TypeStep == TypeOK /\ [Next]_vars => TypeOK'
<1> SUFFICES ASSUME TypeOK, [Next]_vars PROVE TypeOK'
  OBVIOUS
<1> USE DEF PageTypes
<1>1. RouterTypes /\ AnswerTypes /\ PageTypes /\ KeyTypes
  BY TypesByPart
<1>2. SUFFICES RouterTypes' /\ AnswerTypes' /\ PageTypes' /\ KeyTypes'
  BY DEF TypeOK, ShellTypeOK, RouterTypes, AnswerTypes, FormTypes, PhotoTypes, KeyTypes, Steps
<1>3. ASSUME TypeOK' PROVE RouterTypes' /\ AnswerTypes' /\ PageTypes' /\ KeyTypes'
  BY <1>3 DEF TypeOK, ShellTypeOK, RouterTypes, AnswerTypes, FormTypes, PhotoTypes, KeyTypes, Steps
<1>4. ASSUME UNCHANGED create PROVE PageTypes'
  BY <1>1, <1>4 DEF create, form, photos, FormTypes, PhotoTypes
<1>5. ASSUME UNCHANGED retrieve PROVE KeyTypes'
  BY <1>1, <1>5 DEF retrieve, fields, calls, KeyTypes
<1>6. CASE CreateNext /\ UNCHANGED retrieve
  BY <1>5, <1>6, CreateTyped
<1>7. CASE RetrieveNext /\ UNCHANGED create
  <2>1. UNCHANGED <<router, answers>>
    BY <1>7 DEF RetrieveNext
  <2>2. RouterTypes' /\ AnswerTypes'
    BY <1>1, <2>1 DEF router, answers, RouterTypes, AnswerTypes
  <2> QED BY <1>1, <1>4, <1>7, <2>2, RetrieveTyped
<1>8. ASSUME NEW r \in Resources, Answered(r) \/ Failed(r) \/ RetryLoad,
             UNCHANGED <<create, retrieve>>
      PROVE  RouterTypes' /\ AnswerTypes' /\ PageTypes' /\ KeyTypes'
  <2>1. RouterTypes' /\ PageTypes' /\ KeyTypes'
    BY <1>1, <1>4, <1>5, <1>8 DEF Answered, Failed, RetryLoad, router, RouterTypes
  <2>2. view' \in {"off", "loading", "error", "ready", "missing", "ready and error"}
    BY <1>1, <1>8 DEF Answered, Failed, RetryLoad, AnswerTypes
  <2>3. cache' \in [Resources -> {"none", "pending", "held"}]
    BY <1>1, <1>8 DEF Answered, Failed, RetryLoad, Fetch, AnswerTypes
  <2> QED BY <2>1, <2>2, <2>3 DEF AnswerTypes
<1>9. ASSUME NEW page \in Routes, Navigate(page)
      PROVE  RouterTypes' /\ AnswerTypes' /\ PageTypes' /\ KeyTypes'
  <2>1. CASE GoTo(page)
    BY <1>3, <2>1, GoToTyped
  <2>2. CASE ~GoTo(page)
    <3>1. blocked' = page /\ UNCHANGED <<route, crashed, answers, create, retrieve>>
      BY <1>9, <2>2 DEF Navigate
    <3> QED BY <1>1, <1>4, <1>5, <3>1 DEF RouterTypes, AnswerTypes, answers
  <2> QED BY <2>1, <2>2
<1>10. ASSUME NEW page \in Routes, Reload(page)
       PROVE  RouterTypes' /\ AnswerTypes' /\ PageTypes' /\ KeyTypes'
  BY <1>3, <1>10, ReloadTyped
<1>11. CASE LeaveAnyway
  <2>1. blocked \in Routes /\ GoTo(blocked)
    BY <1>1, <1>11 DEF LeaveAnyway, RouterTypes
  <2> QED BY <1>3, <2>1, GoToTyped
<1>12. CASE Stay \/ UNCHANGED vars
  <2>1. UNCHANGED <<route, crashed, answers, create, retrieve>> /\ blocked' \in {blocked, "nowhere"}
    BY <1>12 DEF Stay, vars, router
  <2> QED BY <1>1, <1>4, <1>5, <2>1 DEF RouterTypes, AnswerTypes, answers
<1>13. CASE RenderFails
  <2>1. AnswerTypes' /\ PageTypes'
    BY <1>1, <1>13, AwaitTyped, LeaveTyped DEF RenderFails
  <2> QED BY <1>1, <1>5, <1>13, <2>1 DEF RenderFails, RouterTypes
<1>14. CASE RetryRender
  <2>1. AnswerTypes' /\ PageTypes'
    BY <1>1, <1>14, MountTyped DEF RetryRender
  <2> QED BY <1>1, <1>5, <1>14, <2>1 DEF RetryRender, RouterTypes
<1> QED
  BY <1>6, <1>7, <1>8, <1>9, <1>10, <1>11, <1>12, <1>13, <1>14 DEF Next, Resources
-----------------------------------------------------------------------------
(* The create page.                                                        *)

(* Nothing is read but by the upload step on screen.                       *)
LEMMA NothingRead ==
  ASSUME PhotoInv, shown.step # "upload" \/ ~Showing("create")
  PROVE  \A f \in Files : load[f].pc # "reading"
BY DEF PhotoInv, LoadInv

(* A page that shows a photo will not lose it to what waits.               *)
LEMMA ShownSource ==
  ASSUME PhotoInv
  PROVE  /\ shown.source # None => source # None
         /\ drawn # None => shown = drawn
         /\ drawn = None => shown = asked
         /\ asked.step = step /\ asked.source = source /\ asked.edits = editorState
BY DEF PhotoInv, DrawnInv, shown, asked

(* The user's steps that leave the photos alone render all there is.       *)
LEMMA FormStep ==
  ASSUME TypeOK, PhotoInv, Showing("create"), shown.step # "upload", drawn' = None,
         UNCHANGED <<router, visit, photos>>, Fits(asked)'
  PROVE  PhotoInv'
<1>1. \A f \in Files : load[f].pc # "reading"
  BY NothingRead
<1>2. load' = load /\ visit' = visit /\ sourceRef' = sourceRef /\ bitmaps' = bitmaps /\ late' = late
  BY DEF photos
<1>3. Showing("create")'
  BY DEF Showing, router
<1>4. source' = source
  BY <1>2 DEF source
<1>5. LoadInv'
  BY <1>1, <1>2 DEF PhotoInv, LoadInv
<1>6. AwayInv'
  BY <1>2, <1>3 DEF PhotoInv, AwayInv
<1>7. DrawnInv'
  BY DEF DrawnInv
<1>8. StepInv'
  <2>1. shown' = asked'
    BY DEF shown
  <2> QED BY <2>1 DEF StepInv, Fits
<1>9. BitmapInv'
  BY <1>2, <1>3, <1>4 DEF PhotoInv, BitmapInv
<1> QED BY <1>5, <1>6, <1>7, <1>8, <1>9 DEF PhotoInv

(* A page in its first state.                                              *)
LEMMA CleanPage ==
  ASSUME step' = "template", selected' = None, editorState' = None, source' = None, drawn' = None,
         \A f \in Files : load'[f].pc # "reading" /\ (load'[f].pc = "left" => load'[f].visit \in 1..visit'),
         Showing("create")' => visit' # 0,
         \A v \in Visits : v > visit' => sourceRef'[v] = None,
         bitmaps' \subseteq late'
  PROVE  PhotoInv'
<1>1. LoadInv' /\ AwayInv' /\ DrawnInv'
  BY DEF LoadInv, AwayInv, DrawnInv
<1>2. StepInv'
  BY DEF StepInv, Fits, shown, asked
<1>3. BitmapInv'
  BY DEF BitmapInv
<1> QED BY <1>1, <1>2, <1>3 DEF PhotoInv

(* Nothing happens to the page, or to the one that is not there.           *)
LEMMA PageFrame ==
  ASSUME PhotoInv, UNCHANGED <<visit, step, selected, editorState, drawn, photos>>,
         \/ UNCHANGED <<route, crashed>>
         \/ ~Showing("create") /\ ~Showing("create")'
  PROVE  PhotoInv'
<1>1. UNCHANGED <<visit, step, selected, editorState, drawn, sourceRef, load, bitmaps, late>>
  BY DEF photos
<1>2. Showing("create")' = Showing("create")
  BY DEF Showing
<1>3. source' = source
  BY <1>1 DEF source
<1>4. asked' = asked /\ shown' = shown
  BY <1>1, <1>3 DEF asked, shown
<1>5. LoadInv' /\ AwayInv' /\ DrawnInv'
  BY <1>1, <1>2, <1>3, <1>4 DEF PhotoInv, LoadInv, AwayInv, DrawnInv
<1>6. StepInv' /\ BitmapInv'
  BY <1>1, <1>2, <1>3, <1>4 DEF PhotoInv, StepInv, Fits, BitmapInv
<1> QED BY <1>5, <1>6 DEF PhotoInv

(* The page goes, and takes its photo with it.                             *)
LEMMA LeaveClean ==
  ASSUME TypeOK, PhotoInv, Showing("create"), LeaveCreate
  PROVE  PhotoInv'
<1>1. PhotoTypes /\ visit \in 0..MaxVisits /\ PageTypes
  BY TypesByPart DEF PageTypes
<1>2. visit' = visit /\ late' = late /\ LeaveUpload /\ visit # 0
  BY DEF LeaveCreate, PhotoInv, AwayInv
<1>3. visit \in Visits /\ source = sourceRef[visit]
  BY <1>1, <1>2, SourceTyped
<1>4. sourceRef' = [sourceRef EXCEPT ![visit] = None] /\ bitmaps' = bitmaps \ {source}
  BY DEF LeaveCreate
<1>5. source' = None
  BY <1>1, <1>2, <1>3, <1>4 DEF source, PhotoTypes
<1>6. bitmaps' \subseteq late'
  BY <1>2, <1>4 DEF PhotoInv, BitmapInv
<1>7. \A f \in Files : load'[f].pc # "reading" /\ (load'[f].pc = "left" => load'[f].visit \in 1..visit')
  <2> TAKE f \in Files
  <2>1. /\ load'[f].visit = load[f].visit
        /\ load'[f].pc = IF load[f].pc = "reading" THEN "left" ELSE load[f].pc
    BY <1>1, <1>2, LeaveUploadEffect
  <2> QED BY <1>2, <2>1 DEF PhotoInv, LoadInv
<1>8. \A v \in Visits : v > visit' => sourceRef'[v] = None
  BY <1>1, <1>2, <1>4 DEF PhotoInv, AwayInv, PhotoTypes
<1>9. step' = "template" /\ selected' = None /\ editorState' = None /\ drawn' = None
  BY DEF LeaveCreate
<1> QED BY <1>2, <1>5, <1>6, <1>7, <1>8, <1>9, CleanPage

(* The page is mounted: it is one that has not been.                       *)
LEMMA EnterClean ==
  ASSUME TypeOK, PhotoInv, ~Showing("create"), EnterCreate
  PROVE  PhotoInv'
<1>1. visit \in Nat /\ MaxVisits \in Nat /\ visit < MaxVisits /\ visit' = visit + 1
  BY TypesByPart, CreateAssumption DEF PageTypes, EnterCreate
<1>2. visit' # 0 /\ visit' > visit /\ visit' \in Visits /\ 1..visit \subseteq 1..visit'
  BY <1>1 DEF Visits
<1>3. UNCHANGED <<selected, editorState, drawn, sourceRef, load, bitmaps, late>> /\ step' = "template"
  BY DEF EnterCreate, photos
<1>4. selected' = None /\ editorState' = None /\ drawn' = None
  BY <1>3 DEF PhotoInv, AwayInv, DrawnInv
<1>5. source' = None
  BY <1>2, <1>3 DEF source, PhotoInv, AwayInv
<1>6. \A f \in Files : load'[f].pc # "reading" /\ (load'[f].pc = "left" => load'[f].visit \in 1..visit')
  BY <1>2, <1>3, NothingRead DEF PhotoInv, LoadInv
<1>7. \A v \in Visits : v > visit' => sourceRef'[v] = None
  BY <1>1, <1>3 DEF PhotoInv, AwayInv, Visits
<1>8. bitmaps' \subseteq late'
  BY <1>3 DEF PhotoInv, BitmapInv
<1> QED BY <1>2, <1>3, <1>4, <1>5, <1>6, <1>7, <1>8, CleanPage

(* A photo is replaced, on the page that is shown.                         *)
LEMMA SourceReplaced ==
  ASSUME TypeOK, PhotoInv, Showing("create"), UNCHANGED <<router, visit>>, late \subseteq late',
         NEW photo \in Files \cup {None}, ReplaceSource(visit, photo)
  PROVE  /\ Showing("create")' /\ source' = photo /\ editorState' = None
         /\ AwayInv' /\ BitmapInv'
<1>1. visit # 0 /\ visit' = visit
  BY DEF PhotoInv, AwayInv
<1>2. PageTypes /\ PhotoTypes /\ visit \in 0..MaxVisits
  BY TypesByPart DEF PageTypes
<1>3. visit \in Visits /\ source = sourceRef[visit]
  BY <1>1, <1>2, SourceTyped
<1>4. /\ bitmaps' = (bitmaps \ {source}) \cup ({photo} \ {None})
      /\ sourceRef' = [sourceRef EXCEPT ![visit] = photo] /\ editorState' = None
  BY <1>3 DEF ReplaceSource
<1>5. source' = photo /\ \A v \in Visits : v # visit => sourceRef'[v] = sourceRef[v]
  BY <1>1, <1>2, <1>3, <1>4 DEF source, PhotoTypes
<1>6. Showing("create")'
  BY DEF Showing, router
<1>7. AwayInv'
  <2>1. \A v \in Visits : v > visit => v # visit
    BY <1>2 DEF Visits
  <2> QED BY <1>1, <1>5, <1>6, <2>1 DEF PhotoInv, AwayInv
<1>8. BitmapInv'
  BY <1>4, <1>5, <1>6 DEF PhotoInv, BitmapInv
<1> QED BY <1>4, <1>5, <1>6, <1>7, <1>8

(* The user drops the photo.                                               *)
LEMMA DiscardStep ==
  ASSUME TypeOK, PhotoInv, Showing("create"), shown.step # "upload", drawn' = None,
         ReplaceSource(visit, None), UNCHANGED <<router, visit, load, late>>,
         \/ step' \in {"source", "upload", "capture"} /\ selected' # None
         \/ step' = "template"
  PROVE  PhotoInv'
<1>1. Showing("create")' /\ source' = None /\ editorState' = None /\ AwayInv' /\ BitmapInv'
  BY SourceReplaced
<1>2. \A f \in Files : load[f].pc # "reading"
  BY NothingRead
<1>3. LoadInv' /\ DrawnInv'
  BY <1>2 DEF PhotoInv, LoadInv, DrawnInv
<1>4. StepInv'
  BY <1>1 DEF StepInv, Fits, shown, asked
<1> QED BY <1>1, <1>3, <1>4 DEF PhotoInv

(* A photo is ready, and waits to be rendered.                             *)
LEMMA QueueStep ==
  ASSUME TypeOK, PhotoInv, Showing("create"), UNCHANGED <<router, visit, selected>>, QueueReview,
         NEW photo \in Files, ReplaceSource(visit, photo), late \subseteq late',
         \A f \in Files : load'[f].pc = "over" \/ load'[f] = load[f],
         shown.step \in {"upload", "capture"} \/ photo \in late'
  PROVE  PhotoInv'
<1>1. photo # None /\ photo \in Files \cup {None}
  BY CreateAssumption
<1>2. Showing("create")' /\ source' = photo /\ editorState' = None /\ AwayInv' /\ BitmapInv'
  BY <1>1, SourceReplaced
<1>3. shown \in Pages
  BY ShownTyped, TypesByPart
<1>4. step' = "review" /\ drawn' = shown /\ drawn' # None /\ shown' = shown
  BY <1>3, CreateAssumption DEF QueueReview, shown
<1>5. LoadInv'
  BY <1>2, <1>4 DEF PhotoInv, LoadInv
<1>6. DrawnInv'
  BY <1>1, <1>2, <1>4 DEF DrawnInv
<1>7. Fits(shown)'
  BY <1>4 DEF PhotoInv, StepInv, Fits
<1>8. Fits(asked)'
  <2>1. asked' = [step |-> "review", source |-> photo, edits |-> None]
    BY <1>2, <1>4 DEF asked
  <2>2. photo \in late' \/ selected' # None
    BY DEF PhotoInv, StepInv, Fits
  <2> QED BY <1>1, <2>1, <2>2 DEF Fits
<1>9. StepInv'
  BY <1>7, <1>8 DEF StepInv
<1> QED BY <1>2, <1>5, <1>6, <1>9 DEF PhotoInv

(* A file is loaded.                                                       *)
LEMMA PhotoReadyStep ==
  ASSUME TypeOK, PhotoInv, NEW f \in Files, PhotoReady(f)
  PROVE  PhotoInv'
<1>1. PageTypes /\ PhotoTypes /\ visit \in 0..MaxVisits
  BY TypesByPart DEF PageTypes
<1>2. PICK v \in 1..visit : v = load[f].visit
  BY DEF PhotoReady, PhotoInv, LoadInv
<1>3. v \in Visits /\ v \in 0..MaxVisits
  BY <1>1, <1>2, CreateAssumption DEF Visits
<1>4. /\ load[f].pc \in {"reading", "left"} /\ ReplaceSource(v, f)
      /\ late' = IF load[f].pc = "left" THEN late \cup {f} ELSE late
      /\ load' = [load EXCEPT ![f].pc = "over"]
      /\ UNCHANGED <<visit, selected, router>>
  BY <1>2 DEF PhotoReady
<1>5. \A g \in Files : /\ load'[g].visit = load[g].visit
                       /\ load'[g].pc = "over" \/ load'[g] = load[g]
  BY <1>1, <1>4 DEF PhotoTypes
<1>6. CASE Showing("create") /\ v = visit
  <2>1. QueueReview
    BY <1>2, <1>6 DEF PhotoReady
  <2>2. shown.step \in {"upload", "capture"} \/ f \in late'
    BY <1>4 DEF PhotoInv, LoadInv
  <2> QED BY <1>4, <1>5, <1>6, <2>1, <2>2, QueueStep
<1>7. CASE ~(Showing("create") /\ v = visit)
  <2>1. load[f].pc = "left"
    BY <1>2, <1>4, <1>7 DEF PhotoInv, LoadInv
  <2>2. step' = step /\ drawn' = drawn
    BY <1>2, <1>7 DEF PhotoReady
  <2>3. late' = late \cup {f}
    BY <1>4, <2>1
  <2>4. /\ bitmaps' \subseteq bitmaps \cup {f}
        /\ \A w \in Visits : w # v => sourceRef'[w] = sourceRef[w]
    BY <1>1, <1>3, <1>4, ReplaceEffect DEF ReplaceSource
  <2>5. Showing("create")' = Showing("create") /\ visit' = visit /\ selected' = selected
    BY <1>4 DEF Showing, router
  <2>6. editorState' = editorState \/ editorState' = None
    BY <1>4 DEF ReplaceSource
  <2>7. Showing("create") => source' = source /\ editorState' = editorState
    <3>1. SUFFICES ASSUME Showing("create") PROVE source' = source /\ editorState' = editorState
      OBVIOUS
    <3>2. visit # 0 /\ visit # v
      BY <1>7, <3>1 DEF PhotoInv, AwayInv
    <3>3. visit \in Visits
      BY <1>1, <3>2, SourceTyped
    <3> QED BY <1>4, <2>4, <2>5, <3>2, <3>3 DEF source, ReplaceSource
  <2>8. Showing("create") => asked' = asked /\ shown' = shown
    BY <2>2, <2>7 DEF asked, shown
  <2>9. LoadInv'
    BY <1>5, <2>5, <2>8 DEF PhotoInv, LoadInv
  <2>10. AwayInv'
    <3>1. \A w \in Visits : w > visit => w # v
      BY <1>1, <1>2 DEF Visits
    <3> QED BY <2>2, <2>4, <2>5, <2>6, <3>1 DEF PhotoInv, AwayInv
  <2>11. DrawnInv'
    BY <2>2, <2>3, <2>5, <2>7 DEF PhotoInv, DrawnInv
  <2>12. StepInv'
    BY <2>3, <2>5, <2>8 DEF PhotoInv, StepInv, Fits
  <2>13. BitmapInv'
    BY <2>3, <2>4, <2>5, <2>7 DEF PhotoInv, BitmapInv
  <2> QED BY <2>9, <2>10, <2>11, <2>12, <2>13 DEF PhotoInv
<1> QED BY <1>6, <1>7

(* The upload step is left: by the user, or when a photo is rendered.      *)
LEMMA UploadLeft ==
  ASSUME TypeOK, PhotoInv, Showing("create"), drawn' = None, Fits(asked)',
         \A f \in Files : /\ load'[f].pc # "reading"
                          /\ load'[f].pc = "left" => load'[f].visit \in 1..visit,
         UNCHANGED <<router, visit, sourceRef, bitmaps, late>>
  PROVE  PhotoInv'
<1>1. Showing("create")' /\ source' = source
  BY DEF Showing, router, source
<1>2. LoadInv' /\ DrawnInv'
  BY DEF LoadInv, DrawnInv
<1>3. AwayInv' /\ BitmapInv'
  BY <1>1 DEF PhotoInv, AwayInv, BitmapInv
<1>4. StepInv'
  <2>1. shown' = asked'
    BY DEF shown
  <2> QED BY <2>1 DEF StepInv, Fits
<1> QED BY <1>2, <1>3, <1>4 DEF PhotoInv

(* What is left of the files when it is.                                   *)
LEMMA LeftFiles ==
  ASSUME TypeOK, PhotoInv, LeaveUpload
  PROVE  \A f \in Files : /\ load'[f].pc # "reading"
                          /\ load'[f].pc = "left" => load'[f].visit \in 1..visit
<1>1. \A f \in Files :
        /\ load'[f].visit = load[f].visit
        /\ load'[f].pc = IF load[f].pc = "reading" THEN "left" ELSE load[f].pc
  BY LeaveUploadEffect, TypesByPart DEF PageTypes
<1> QED BY <1>1 DEF PhotoInv, LoadInv

(* A file is chosen.                                                       *)
LEMMA ChooseFileStep ==
  ASSUME TypeOK, PhotoInv, NEW f \in Files, ChooseFile(f)
  PROVE  PhotoInv'
<1> DEFINE begun == [load EXCEPT ![f] = [pc |-> "reading", visit |-> visit]]
<1>1. /\ Showing("create") /\ shown.step = "upload" /\ drawn' = None
      /\ UNCHANGED <<router, visit, step, selected, editorState, sourceRef, bitmaps, late>>
  BY DEF ChooseFile, On, form
<1>2. Showing("create")' /\ source' = source /\ asked' = asked /\ shown' = asked'
  BY <1>1 DEF Showing, router, source, asked, shown
<1>3. visit \in 1..visit
  BY <1>1, TypesByPart, CreateAssumption DEF PhotoInv, AwayInv, PageTypes
<1>4. \A g \in Files : IF g = f THEN begun[g].pc = "reading" /\ begun[g].visit = visit
                                ELSE begun[g] = load[g]
  BY TypesByPart DEF PageTypes, PhotoTypes
<1>5. Fits(asked)'
  BY <1>1, <1>2 DEF PhotoInv, StepInv, Fits
<1>6. CASE drawn = None
  <2>1. load' = begun /\ asked.step = "upload"
    BY <1>1, <1>6 DEF ChooseFile, shown
  <2>2. LoadInv'
    BY <1>1, <1>2, <1>3, <1>4, <2>1 DEF PhotoInv, LoadInv
  <2>3. AwayInv' /\ DrawnInv' /\ BitmapInv'
    BY <1>1, <1>2 DEF PhotoInv, AwayInv, DrawnInv, BitmapInv
  <2>4. StepInv'
    BY <1>2, <1>5 DEF StepInv, Fits
  <2> QED BY <2>2, <2>3, <2>4 DEF PhotoInv
<1>7. CASE drawn # None
  <2>1. load' = Left(begun)
    BY <1>7 DEF ChooseFile
  <2>2. \A g \in Files :
          load'[g] = IF begun[g].pc = "reading" THEN [begun[g] EXCEPT !.pc = "left"] ELSE begun[g]
    BY <2>1 DEF Left
  <2>3. load \in [Files -> [pc : {"idle", "reading", "left", "over"}, visit : 0..MaxVisits]]
    BY TypesByPart DEF PageTypes, PhotoTypes
  <2>4. begun \in [Files -> [pc : {"idle", "reading", "left", "over"}, visit : 0..MaxVisits]]
    BY <2>3, TypesByPart DEF PageTypes
  <2>5. \A g \in Files : /\ load'[g].pc # "reading"
                         /\ load'[g].pc = "left" => load'[g].visit \in 1..visit
    <3> TAKE g \in Files
    <3>1. begun[g] \in [pc : {"idle", "reading", "left", "over"}, visit : 0..MaxVisits]
      BY <2>4
    <3>2. load'[g].visit = begun[g].visit /\ load'[g].pc # "reading"
          /\ (load'[g].pc = "left" => begun[g].pc \in {"reading", "left"})
      BY <2>2, <3>1
    <3>3. begun[g].pc \in {"reading", "left"} => begun[g].visit \in 1..visit
      BY <1>3, <1>4 DEF PhotoInv, LoadInv
    <3> QED BY <3>2, <3>3
  <2> QED BY <1>1, <1>5, <2>5, UploadLeft
<1> QED BY <1>6, <1>7

(* The steps of the create page.                                           *)
LEMMA CreateStep ==
  ASSUME TypeOK, PhotoInv, CreateNext
  PROVE  PhotoInv'
<1>1. FormTypes /\ PhotoTypes /\ PageTypes /\ shown \in Pages /\ asked \in Pages
  BY TypesByPart, ShownTyped DEF PageTypes
<1>2. None \notin Files \cup Templates \cup Edits \cup Pages
  BY CreateAssumption
(* Those of the user that leave photos and edits alone: what the next step *)
(* needs is there.                                                         *)
<1>3. ASSUME UNCHANGED <<selected, editorState, photos, visit>>, selected # None, Showing("create"),
             \/ step' \in {"template", "source", "upload", "capture"}
             \/ step' \in {"review", "edit"} /\ source # None
      PROVE  Fits(asked)'
  <2>1. source' = source /\ late' = late
    BY <1>3 DEF photos, source
  <2>2. asked' = [step |-> step', source |-> source, edits |-> editorState]
    BY <1>3, <2>1 DEF asked
  <2>3. asked.source = source /\ asked.edits = editorState /\ Fits(asked)
    BY <1>3 DEF asked, PhotoInv, StepInv
  <2> QED BY <1>3, <2>1, <2>2, <2>3 DEF Fits
<1>4. ASSUME Showing("create"), shown.step # "upload", drawn' = None, selected # None,
             UNCHANGED <<router, visit, photos, selected, editorState>>,
             \/ step' \in {"template", "source", "upload", "capture"}
             \/ step' \in {"review", "edit"} /\ shown.source # None
      PROVE  PhotoInv'
  BY <1>3, <1>4, ShownSource, FormStep
(* What waits where there is no upload came too late.                      *)
<1>5. ASSUME drawn # None, shown.step \in {"template", "edit"} PROVE source \in late
  BY <1>5 DEF PhotoInv, DrawnInv, shown
<1>6. ASSUME NEW t \in Templates, SelectTemplate(t) PROVE PhotoInv'
  <2>1. /\ Showing("create") /\ shown.step = "template" /\ UNCHANGED <<router, visit, photos>>
        /\ selected' = t /\ t # None /\ drawn' = None
        /\ IF shown.source = None THEN step' = "source" ELSE step' = "review"
    BY <1>2, <1>6 DEF SelectTemplate, On, SetStep
  <2>2. source' = source /\ late' = late /\ Fits(shown)
    BY <2>1 DEF photos, source, PhotoInv, StepInv
  <2>3. asked' = [step |-> step', source |-> source, edits |-> editorState']
    BY <2>2 DEF asked
  <2>4. shown.edits = None \/ shown.source = None => editorState = None
    <3>1. CASE drawn # None
      BY <3>1 DEF PhotoInv, DrawnInv
    <3>2. CASE drawn = None
      <4>1. shown.edits = editorState /\ shown.source = source
        BY <3>2 DEF shown, asked
      <4>2. None \notin late /\ (editorState # None => editorState.photo # None)
        BY <1>1, <1>2 DEF FormTypes, PhotoTypes, Edits
      <4> QED BY <2>2, <4>1, <4>2 DEF Fits
    <3> QED BY <3>1, <3>2
  <2>5. editorState' # None =>
          editorState'.template = t /\ (editorState'.photo = source \/ source \in late)
    <3>1. SUFFICES ASSUME editorState' # None
                   PROVE  editorState'.template = t /\ (editorState'.photo = source \/ source \in late)
      OBVIOUS
    <3>2. shown.edits # None /\ editorState' = [shown.edits EXCEPT !.template = t]
      BY <1>6, <2>4, <3>1 DEF SelectTemplate
    <3>3. editorState'.photo = shown.edits.photo /\ editorState'.template = t
      BY <1>1, <3>2 DEF Pages, Edits
    <3>4. shown.edits.photo = shown.source \/ shown.source \in late
      BY <2>2, <3>2 DEF Fits
    <3>5. drawn = None => shown.source = source
      BY DEF shown, asked
    <3> QED BY <1>5, <2>1, <3>3, <3>4, <3>5
  <2>6. Fits(asked)'
    <3>1. step' = "review" => source # None
      BY <2>1, ShownSource
    <3> QED BY <2>1, <2>2, <2>3, <2>5, <3>1 DEF Fits
  <2> QED BY <2>1, <2>6, FormStep
<1>7. CASE KeepTemplate
  <2>1. /\ Showing("create") /\ shown.step = "template" /\ step' = "review" /\ shown.source # None
        /\ drawn' = None /\ UNCHANGED <<router, visit, photos, selected, editorState>>
    BY <1>7 DEF KeepTemplate, On, SetStep
  <2>2. selected # None
    BY <2>1 DEF PhotoInv, StepInv, Fits
  <2> QED BY <1>4, <2>1, <2>2
<1>8. ASSUME NEW m \in {"upload", "capture"}, ChooseSource(m) PROVE PhotoInv'
  <2>1. /\ Showing("create") /\ shown.step = "source" /\ step' \in {"upload", "capture"}
        /\ selected # None /\ drawn' = None
        /\ UNCHANGED <<router, visit, photos, selected, editorState>>
    BY <1>8 DEF ChooseSource, On, Blank, SetStep
  <2> QED BY <1>4, <2>1
<1>9. CASE BackTo("capture", "source") \/ BackTo("source", "template")
  <2>1. /\ Showing("create") /\ shown.step # "upload" /\ step' \in {"source", "template"}
        /\ selected # None /\ drawn' = None
        /\ UNCHANGED <<router, visit, photos, selected, editorState>>
    BY <1>9 DEF BackTo, On, Blank, SetStep, photos
  <2> QED BY <1>4, <2>1
<1>10. CASE BackTo("upload", "source")
  <2>1. /\ Showing("create") /\ step' = "source" /\ selected # None /\ LeaveUpload /\ drawn' = None
        /\ UNCHANGED <<router, visit, selected, editorState, sourceRef, bitmaps, late>>
    BY <1>10 DEF BackTo, On, Blank, SetStep
  <2>2. asked' = [step |-> "source", source |-> source, edits |-> editorState]
    BY <2>1 DEF asked, source
  <2>3. asked.source = source /\ asked.edits = editorState /\ Fits(asked)
    BY <2>1 DEF asked, PhotoInv, StepInv
  <2>4. Fits(asked)'
    BY <2>1, <2>2, <2>3 DEF Fits
  <2> QED BY <2>1, <2>4, LeftFiles, UploadLeft
<1>11. CASE RenderPage
  <2>1. /\ Showing("create") /\ drawn' = None /\ LeaveUpload
        /\ UNCHANGED <<router, visit, step, selected, editorState, sourceRef, bitmaps, late>>
    BY <1>11 DEF RenderPage, PhotoInv, DrawnInv, form
  <2>2. asked' = asked
    BY <2>1 DEF asked, source
  <2>3. Fits(asked)'
    BY <2>1, <2>2 DEF PhotoInv, StepInv, Fits
  <2> QED BY <2>1, <2>3, LeftFiles, UploadLeft
<1>12. ASSUME NEW f \in Files, FileRefused(f) PROVE PhotoInv'
  <2>1. /\ load' = [load EXCEPT ![f].pc = "over"]
        /\ UNCHANGED <<router, visit, step, selected, editorState, drawn, sourceRef, bitmaps, late>>
    BY <1>12 DEF FileRefused, form
  <2>2. Showing("create")' = Showing("create") /\ source' = source
    BY <2>1 DEF Showing, router, source
  <2>3. asked' = asked /\ shown' = shown
    BY <2>1, <2>2 DEF asked, shown
  <2>4. \A g \in Files : load'[g].pc \in {load[g].pc, "over"} /\ load'[g].visit = load[g].visit
    BY <1>1, <2>1 DEF PhotoTypes
  <2>5. LoadInv'
    BY <2>1, <2>2, <2>3, <2>4 DEF PhotoInv, LoadInv
  <2>6. AwayInv' /\ DrawnInv' /\ BitmapInv'
    BY <2>1, <2>2 DEF PhotoInv, AwayInv, DrawnInv, BitmapInv
  <2>7. StepInv'
    BY <2>1, <2>2, <2>3 DEF PhotoInv, StepInv, Fits
  <2> QED BY <2>5, <2>6, <2>7 DEF PhotoInv
<1>13. ASSUME NEW f \in Files, CameraReady(f) PROVE PhotoInv'
  <2>1. /\ Showing("create") /\ shown.step = "capture" /\ QueueReview
        /\ load' = [load EXCEPT ![f] = [pc |-> "over", visit |-> visit]]
        /\ ReplaceSource(visit, f) /\ UNCHANGED <<router, visit, selected, late>>
    BY <1>13 DEF CameraReady, On
  <2>2. \A g \in Files : load'[g].pc = "over" \/ load'[g] = load[g]
    BY <1>1, <2>1 DEF PhotoTypes
  <2> QED BY <2>1, <2>2, QueueStep
<1>14. CASE Confirm \/ ChangeTemplate
  <2>1. /\ Showing("create") /\ shown.step = "review" /\ step' \in {"edit", "template"}
        /\ selected # None /\ shown.source # None /\ drawn' = None
        /\ UNCHANGED <<router, visit, photos, selected, editorState>>
    BY <1>14 DEF Confirm, ChangeTemplate, On, Blank, SetStep
  <2> QED BY <1>4, <2>1
<1>15. CASE Retake \/ BackToSource
  <2>1. /\ Showing("create") /\ shown.step = "review" /\ selected # None /\ drawn' = None
        /\ step' \in {"source", "upload", "capture"} /\ selected' = selected
        /\ ReplaceSource(visit, None) /\ UNCHANGED <<router, visit, load, late>>
    BY <1>15 DEF Retake, BackToSource, DiscardPhoto, On, Blank, SetStep
  <2> QED BY <2>1, DiscardStep
<1>16. ASSUME NEW to \in {"review", "final"}, LeaveEditor(to) PROVE PhotoInv'
  <2>1. /\ Showing("create") /\ shown.step = "edit" /\ step' = to /\ selected # None
        /\ shown.source # None /\ drawn' = None
        /\ editorState' = [photo |-> shown.source, template |-> selected]
        /\ UNCHANGED <<router, visit, photos, selected>>
    BY <1>16 DEF LeaveEditor, On, Blank, SetStep
  <2>2. source' = source /\ late' = late /\ source # None
    BY <2>1, ShownSource DEF photos, source
  <2>3. editorState' # None
    <3>1. shown.source \in Files /\ selected \in Templates
      BY <1>1, <2>1 DEF FormTypes, Pages
    <3> QED BY <1>2, <2>1, <3>1 DEF Edits
  <2>4. asked' = [step |-> to, source |-> source, edits |-> editorState']
    BY <2>1, <2>2 DEF asked
  <2>5. shown.source = source \/ source \in late
    BY <1>5, <2>1, ShownSource
  <2>6. Fits(asked)'
    BY <2>1, <2>2, <2>3, <2>4, <2>5 DEF Fits
  <2> QED BY <2>1, <2>6, FormStep
<1>17. CASE BackToEditor
  <2>1. /\ Showing("create") /\ shown.step = "final" /\ step' = "edit" /\ selected # None
        /\ shown.source # None /\ drawn' = None
        /\ UNCHANGED <<router, visit, photos, selected, editorState>>
    BY <1>17 DEF BackToEditor, On, Blank, SetStep
  <2> QED BY <1>4, <2>1
<1>18. CASE Restart
  <2>1. /\ Showing("create") /\ shown.step = "final" /\ step' = "template" /\ drawn' = None
        /\ ReplaceSource(visit, None) /\ UNCHANGED <<router, visit, load, late>>
    BY <1>18 DEF Restart, On, SetStep
  <2> QED BY <2>1, DiscardStep
<1>19. ASSUME NEW receipt, OnStaged(receipt) PROVE PhotoInv'
  BY <1>19, PageFrame DEF OnStaged, router
<1> QED
  BY <1>6, <1>7, <1>8, <1>9, <1>10, <1>11, <1>12, ChooseFileStep, PhotoReadyStep, <1>13, <1>14, <1>15,
     <1>16, <1>17, <1>18, <1>19
  DEF CreateNext

(* Another page is gone to.                                                *)
LEMMA GoToStep ==
  ASSUME TypeOK, PhotoInv, NEW page, GoTo(page), ~crashed => page # route \/ route = "create"
  PROVE  PhotoInv'
<1>1. route' = page /\ crashed' = crashed
  BY DEF GoTo
<1>2. CASE crashed
  BY <1>1, <1>2, PageFrame DEF GoTo, Showing, create, form
<1>3. CASE ~crashed /\ route = "create"
  BY <1>3, LeaveClean DEF GoTo, Showing
<1>4. CASE ~crashed /\ route # "create" /\ page = "create"
  BY <1>4, EnterClean DEF GoTo, Mount, Showing
<1>5. CASE ~crashed /\ route # "create" /\ page # "create"
  BY <1>1, <1>5, PageFrame DEF GoTo, Mount, Showing, create, form
<1> QED BY <1>2, <1>3, <1>4, <1>5

(* Every step keeps what ties edits, bitmaps and late files together.      *)
LEMMA PhotoStep == TypeOK /\ PhotoInv /\ [Next]_vars => PhotoInv'
<1> SUFFICES ASSUME TypeOK, PhotoInv, [Next]_vars PROVE PhotoInv'
  OBVIOUS
<1>1. CASE CreateNext
  BY <1>1, CreateStep
<1>2. CASE RetrieveNext /\ UNCHANGED create
  BY <1>2, PageFrame DEF RetrieveNext, router, create, form
<1>3. ASSUME NEW r \in Resources, Answered(r) \/ Failed(r) \/ RetryLoad, UNCHANGED create
      PROVE  PhotoInv'
  BY <1>3, PageFrame DEF Answered, Failed, RetryLoad, router, create, form
<1>4. ASSUME NEW page \in Routes, Navigate(page) PROVE PhotoInv'
  <2>1. CASE GoTo(page)
    BY <1>4, <2>1, GoToStep DEF Navigate
  <2>2. CASE ~GoTo(page)
    BY <1>4, <2>2, PageFrame DEF Navigate, create, form
  <2> QED BY <2>1, <2>2
<1>5. ASSUME NEW page \in Routes, Reload(page) PROVE PhotoInv'
  <2>1. /\ step' = "template" /\ selected' = None /\ editorState' = None /\ drawn' = None
        /\ visit' = visit
        /\ ~Showing("create")' /\ bitmaps' = {} /\ late' = {}
        /\ sourceRef' = [v \in Visits |-> None]
        /\ load' = [f \in Files |-> IF load[f].pc = "idle" THEN load[f]
                                    ELSE [load[f] EXCEPT !.pc = "over"]]
    BY <1>5 DEF Reload, Showing
  <2>2. PhotoTypes /\ visit \in 0..MaxVisits
    BY TypesByPart DEF PageTypes
  <2>3. \A f \in Files : load'[f].pc \in {"idle", "over"}
    BY <2>1, <2>2 DEF PhotoTypes
  <2>4. source' = None
    BY <2>1, <2>2, CreateAssumption DEF source, Visits
  <2> QED BY <2>1, <2>3, <2>4, CleanPage
<1>6. CASE LeaveAnyway
  BY <1>6, GoToStep DEF LeaveAnyway, Showing
<1>7. CASE Stay \/ UNCHANGED vars
  BY <1>7, PageFrame DEF Stay, vars, router, create, form
<1>8. CASE RenderFails
  BY <1>8, LeaveClean DEF RenderFails, On
<1>9. CASE RetryRender
  <2>1. CASE route = "create"
    BY <1>9, <2>1, EnterClean DEF RetryRender, Mount, Showing
  <2>2. CASE route # "create"
    BY <1>9, <2>2, PageFrame DEF RetryRender, Mount, Showing, create, form
  <2> QED BY <2>1, <2>2
<1> QED BY <1>1, <1>2, <1>3, <1>4, <1>5, <1>6, <1>7, <1>8, <1>9 DEF Next, Resources

-----------------------------------------------------------------------------
(* The retrieve page.                                                      *)

(* Nothing happens to it.                                                  *)
LEMMA RetrieveFrame ==
  ASSUME RetrieveInv, UNCHANGED <<stage, deleteStage, painted, seen, resolving, urls, underway>>
  PROVE  RetrieveInv'
<1>1. RetrieveTypes'
  BY DEF RetrieveInv, RetrieveTypes
<1>2. UrlInv'
  BY DEF RetrieveInv, UrlInv
<1>3. AfterDeleteInv'
  BY DEF RetrieveInv, AfterDeleteInv, Pending
<1> QED BY <1>1, <1>2, <1>3 DEF RetrieveInv

(* Its lookups go on, none begins and none is over.                        *)
LEMMA LookupsGoOn ==
  ASSUME RetrieveInv, UNCHANGED <<stage, deleteStage, painted, seen, urls, underway>>,
         resolving' \in [Resolves -> LookUp],
         \A i \in Resolves :
           /\ resolving'[i].here = resolving[i].here
           /\ resolving'[i] = resolving[i] \/ (Pending(i) /\ resolving[i].pc # "done")
  PROVE  RetrieveInv'
<1>1. RetrieveTypes'
  BY DEF RetrieveInv, RetrieveTypes
<1>2. UrlInv'
  BY DEF RetrieveInv, RetrieveTypes, UrlInv
<1>3. AfterDeleteInv'
  BY DEF RetrieveInv, AfterDeleteInv, Pending
<1> QED BY <1>1, <1>2, <1>3 DEF RetrieveInv

(* The page is rendered: the preview it showed is let go.                  *)
LEMMA RenderedEffect ==
  ASSUME RetrieveInv, NEW s \in StageState, NEW d, Rendered(s, d),
         s.url = Partial \/ (s.url \in urls /\ s.kind = "resolved"),
         resolving' \in [Resolves -> LookUp],
         \A i \in urls \cup seen : resolving'[i].pc = "done"
  PROVE  RetrieveTypes' /\ UrlInv' /\ stage' = s /\ deleteStage' = d
<1>1. /\ stage' = s /\ deleteStage' = d /\ painted'.url = s.url
      /\ seen' = seen \cup ({s.url} \ {Partial}) /\ urls' = urls \ ({painted.url} \ {s.url})
  BY DEF Rendered, Paint
<1>2. urls \subseteq Resolves /\ seen \subseteq Resolves /\ urls \cap seen \subseteq {painted.url}
  BY DEF RetrieveInv, RetrieveTypes, UrlInv
<1>3. RetrieveTypes'
  BY <1>1, <1>2 DEF RetrieveTypes
<1>4. \A i \in urls' \cup seen' : resolving'[i].pc = "done"
  BY <1>1
<1>5. {painted'.url, stage'.url} \ {Partial} \subseteq urls'
  BY <1>1
<1>6. urls' \cap seen' \subseteq {painted'.url}
  BY <1>1, <1>2
<1> QED BY <1>1, <1>3, <1>4, <1>5, <1>6 DEF UrlInv

(* What the user does but looking up, and what waits, is rendered.         *)
LEMMA UserStep ==
  ASSUME RetrieveInv, UNCHANGED <<resolving, underway>>, NEW s \in {stage, Shown("error")}, NEW d,
         Rendered(s, d), d = deleteStage \/ d # "done"
  PROVE  RetrieveInv'
<1>1. /\ s \in StageState /\ (s.url = Partial \/ (s.url \in urls /\ s.kind = "resolved"))
      /\ s.kind = "resolved" => s = stage
  BY DEF RetrieveInv, RetrieveTypes, UrlInv, StageState, Shown
<1>2. resolving' \in [Resolves -> LookUp] /\ \A i \in urls \cup seen : resolving'[i].pc = "done"
  BY DEF RetrieveInv, RetrieveTypes, UrlInv
<1>3. RetrieveTypes' /\ UrlInv' /\ stage' = s /\ deleteStage' = d
  BY <1>1, <1>2, RenderedEffect
<1>4. AfterDeleteInv'
  BY <1>1, <1>3 DEF RetrieveInv, AfterDeleteInv, Pending
<1> QED BY <1>3, <1>4 DEF RetrieveInv

(* A page in its first state.                                              *)
LEMMA CleanRetrieve ==
  ASSUME RetrieveInv, stage' = Shown("idle"), deleteStage' = "idle", painted'.url = Partial,
         resolving' \in [Resolves -> LookUp], urls' \subseteq urls, seen' \subseteq seen,
         urls' \cap seen' = {}, \A i \in urls' \cup seen' : resolving'[i].pc = "done"
  PROVE  RetrieveInv'
<1>1. stage' \in StageState /\ stage'.kind = "idle" /\ stage'.url = Partial
  BY DEF Shown, StageState
<1>2. RetrieveTypes'
  BY <1>1 DEF RetrieveInv, RetrieveTypes
<1>3. UrlInv'
  BY <1>1 DEF UrlInv
<1>4. AfterDeleteInv'
  BY DEF AfterDeleteInv
<1> QED BY <1>2, <1>3, <1>4 DEF RetrieveInv

(* The page goes.                                                          *)
LEMMA LeaveRetrieveStep ==
  ASSUME RetrieveInv, LeaveRetrieve
  PROVE  RetrieveInv'
<1>1. /\ stage' = Shown("idle") /\ deleteStage' = "idle" /\ painted'.url = Partial
      /\ urls' = urls \ {painted.url} /\ seen' = seen
      /\ resolving' = [i \in Resolves |-> [resolving[i] EXCEPT !.here = FALSE]]
  BY DEF LeaveRetrieve
<1>2. /\ resolving' \in [Resolves -> LookUp]
      /\ \A i \in Resolves : resolving'[i].pc = resolving[i].pc
  BY <1>1 DEF RetrieveInv, RetrieveTypes, LookUp
<1>3. urls' \cap seen' = {} /\ \A i \in urls' \cup seen' : resolving'[i].pc = "done"
  BY <1>1, <1>2 DEF RetrieveInv, RetrieveTypes, UrlInv
<1> QED BY <1>1, <1>2, <1>3, CleanRetrieve

(* A lookup begins, or its answer reaches the page.                        *)
LEMMA LookupStep ==
  ASSUME RetrieveInv, KeyTypes, NEW i \in Resolves,
         \/ Resolve(i) \/ ResolveLost(i) \/ PhotoArrives(i) \/ RefusalArrives(i)
         \/ Serve(i, "sent", "token") \/ Serve(i, "token", "bytes")
  PROVE  RetrieveInv'
<1>1. resolving \in [Resolves -> LookUp] /\ resolving[i] \in LookUp
  BY DEF RetrieveInv, RetrieveTypes
<1>2. \A j \in urls \cup seen : j \in Resolves /\ resolving[j].pc = "done"
  BY DEF RetrieveInv, RetrieveTypes, UrlInv
<1>3. ASSUME NEW to \in {"token", "bytes", "refused"}, resolving' = [resolving EXCEPT ![i].pc = to],
             Pending(i), UNCHANGED <<fields, urls, underway>>
      PROVE  RetrieveInv'
  <2>1. /\ resolving' \in [Resolves -> LookUp]
        /\ \A j \in Resolves : /\ resolving'[j].here = resolving[j].here
                               /\ j # i => resolving'[j] = resolving[j]
    BY <1>1, <1>3 DEF LookUp
  <2>2. resolving[i].pc # "done"
    BY <1>3 DEF Pending
  <2>3. \A j \in Resolves :
          /\ resolving'[j].here = resolving[j].here
          /\ resolving'[j] = resolving[j] \/ (Pending(j) /\ resolving[j].pc # "done")
    <3> TAKE j \in Resolves
    <3>1. CASE j = i
      BY <1>3, <2>1, <2>2, <3>1 DEF Pending
    <3>2. CASE j # i
      BY <2>1, <3>2
    <3> QED BY <3>1, <3>2
  <2>4. UNCHANGED <<stage, deleteStage, painted, seen, urls, underway>>
    BY <1>3 DEF fields
  <2> QED BY <2>1, <2>3, <2>4, LookupsGoOn
<1>4. CASE ResolveLost(i) \/ Serve(i, "sent", "token") \/ Serve(i, "token", "bytes")
  <2>1. /\ \E to \in {"token", "bytes", "refused"} : resolving' = [resolving EXCEPT ![i].pc = to]
        /\ Pending(i) /\ UNCHANGED <<fields, urls, underway>>
    BY <1>4 DEF ResolveLost, Serve, Pending
  <2> QED BY <1>3, <2>1
<1>5. CASE Resolve(i)
  <2>1. /\ resolving' = [resolving EXCEPT ![i] = [pc |-> "sent", key |-> key, here |-> TRUE]]
        /\ resolving[i].pc = "idle" /\ Rendered(Shown("resolving"), "idle")
    BY <1>5 DEF Resolve
  <2>2. /\ resolving' \in [Resolves -> LookUp]
        /\ \A j \in Resolves : j # i => resolving'[j] = resolving[j]
    BY <1>1, <2>1 DEF LookUp, KeyTypes
  <2>3. Shown("resolving") \in StageState /\ Shown("resolving").url = Partial
    BY DEF Shown, StageState
  <2>4. \A j \in urls \cup seen : resolving'[j].pc = "done"
    BY <1>2, <2>1, <2>2
  <2>5. RetrieveTypes' /\ UrlInv' /\ deleteStage' = "idle"
    BY <2>1, <2>2, <2>3, <2>4, RenderedEffect
  <2> QED BY <2>5 DEF RetrieveInv, AfterDeleteInv
<1>6. ASSUME NEW s \in StageState, NEW created \in SUBSET {i},
             resolving' = [resolving EXCEPT ![i].pc = "done"], Pending(i),
             Queue(s, deleteStage, resolving[i].here), urls' = urls \cup created,
             \/ s = Preview(i) /\ i \in created
             \/ s = Shown("error") /\ created = {},
             UNCHANGED underway
      PROVE  RetrieveInv'
  <2>1. /\ resolving' \in [Resolves -> LookUp]
        /\ \A j \in Resolves : /\ resolving'[j].here = resolving[j].here
                               /\ j # i => resolving'[j] = resolving[j]
        /\ resolving'[i].pc = "done"
    BY <1>1, <1>6 DEF LookUp
  <2>2. /\ painted' = painted /\ seen' = seen /\ deleteStage' = deleteStage
        /\ stage' = IF resolving[i].here THEN s ELSE stage
    BY <1>6 DEF Queue
  <2>3. /\ s.url = Partial \/ (s.url = i /\ s.kind = "resolved" /\ i \in urls')
        /\ s.kind = "resolved" => s.url = i
    BY <1>6 DEF Shown, Preview
  <2>4. RetrieveTypes'
    BY <1>6, <2>1, <2>2 DEF RetrieveInv, RetrieveTypes
  <2>5. \A j \in urls' \cup seen' : resolving'[j].pc = "done"
    BY <1>2, <1>6, <2>1, <2>2
  <2>6. i \notin seen
    BY <1>2, <1>6 DEF Pending
  <2>7. UrlInv'
    BY <1>6, <2>2, <2>3, <2>5, <2>6 DEF RetrieveInv, UrlInv
  <2>8. ASSUME deleteStage' = "done", NEW j \in Resolves, Pending(j)', resolving'[j].here
        PROVE  j \in underway'
    <3>1. j # i
      BY <2>1, <2>8 DEF Pending
    <3>2. Pending(j) /\ resolving[j].here
      BY <2>1, <2>8, <3>1 DEF Pending
    <3> QED BY <1>6, <2>2, <2>8, <3>2 DEF RetrieveInv, AfterDeleteInv
  <2>9. ASSUME deleteStage' = "done", stage'.kind = "resolved"
        PROVE  stage'.url \in underway'
    <3>1. CASE resolving[i].here
      BY <1>6, <2>2, <2>3, <2>9, <3>1 DEF RetrieveInv, AfterDeleteInv
    <3>2. CASE ~resolving[i].here
      BY <1>6, <2>2, <2>9, <3>2 DEF RetrieveInv, AfterDeleteInv
    <3> QED BY <3>1, <3>2
  <2>10. AfterDeleteInv'
    BY <2>8, <2>9 DEF AfterDeleteInv
  <2> QED BY <2>4, <2>7, <2>10 DEF RetrieveInv
<1>7. CASE PhotoArrives(i)
  <2>1. Preview(i) \in StageState
    BY DEF Preview, StageState
  <2> QED BY <1>6, <1>7, <2>1 DEF PhotoArrives, Pending
<1>8. CASE RefusalArrives(i)
  <2>1. Shown("error") \in StageState
    BY DEF Shown, StageState
  <2>2. urls' = urls \cup {}
    BY <1>8 DEF RefusalArrives
  <2> QED BY <1>6, <1>8, <2>1, <2>2 DEF RefusalArrives, Pending
<1> QED BY <1>4, <1>5, <1>7, <1>8

(* A deletion is begun, served or answered.                                *)
LEMMA DeletionStep ==
  ASSUME RetrieveInv, NEW d \in Deletes,
         Remove(d) \/ ServeDelete(d) \/ DeleteLost(d) \/ DeleteAnswered(d) \/ DeleteFails(d)
  PROVE  RetrieveInv'
<1>1. ASSUME UNCHANGED <<stage, painted, seen, resolving, urls, underway>>,
             deleteStage' = deleteStage \/ deleteStage' # "done"
      PROVE  RetrieveInv'
  <2>1. RetrieveTypes' /\ UrlInv'
    BY <1>1 DEF RetrieveInv, RetrieveTypes, UrlInv
  <2>2. AfterDeleteInv'
    BY <1>1 DEF RetrieveInv, AfterDeleteInv, Pending
  <2> QED BY <2>1, <2>2 DEF RetrieveInv
<1>2. CASE Remove(d)
  BY <1>2, UserStep DEF Remove
<1>3. CASE ServeDelete(d) \/ DeleteLost(d) \/ DeleteFails(d)
  BY <1>1, <1>3 DEF ServeDelete, DeleteLost, DeleteFails, Queue, fields
<1>4. CASE DeleteAnswered(d) /\ deleting[d].here
  <2>1. /\ stage' = Shown("idle") /\ underway' = {i \in Resolves : Pending(i)}
        /\ UNCHANGED <<painted, seen, resolving, urls>>
    BY <1>4 DEF DeleteAnswered, Deleted, Queue
  <2>2. Shown("idle") \in StageState /\ Shown("idle").url = Partial /\ Shown("idle").kind = "idle"
    BY DEF Shown, StageState
  <2>3. RetrieveTypes' /\ UrlInv'
    BY <2>1, <2>2 DEF RetrieveInv, RetrieveTypes, UrlInv
  <2>4. AfterDeleteInv'
    BY <2>1, <2>2 DEF AfterDeleteInv, Pending
  <2> QED BY <2>3, <2>4 DEF RetrieveInv
<1>5. CASE DeleteAnswered(d) /\ ~deleting[d].here
  BY <1>1, <1>5 DEF DeleteAnswered, Deleted, Queue
<1> QED BY <1>2, <1>3, <1>4, <1>5

(* Every step keeps what ties previews, lookups and the deletion together. *)
LEMMA RetrieveStep == TypeOK /\ RetrieveInv /\ [Next]_vars => RetrieveInv'
<1> SUFFICES ASSUME TypeOK, RetrieveInv, [Next]_vars PROVE RetrieveInv'
  OBVIOUS
<1>1. KeyTypes
  BY TypesByPart
<1>2. ASSUME UNCHANGED retrieve PROVE RetrieveInv'
  BY <1>2, RetrieveFrame DEF retrieve, fields, calls
<1>3. CASE RetrieveNext
  <2>1. ASSUME NEW k \in Keys \cup {Partial}, TypeKey(k) PROVE RetrieveInv'
    BY <2>1, UserStep DEF TypeKey, calls
  <2>2. CASE RenderStage \/ ResolveIncomplete
    BY <2>2, UserStep DEF RenderStage, ResolveIncomplete, calls
  <2>3. CASE AskDelete \/ CancelDelete
    BY <2>3, UserStep DEF AskDelete, CancelDelete, calls
  <2> QED BY <1>1, <1>3, <2>1, <2>2, <2>3, LookupStep, DeletionStep DEF RetrieveNext
<1>4. ASSUME NEW page, GoTo(page) PROVE RetrieveInv'
  BY <1>2, <1>4, LeaveRetrieveStep DEF GoTo
<1>5. ASSUME NEW page \in Routes, Reload(page) PROVE RetrieveInv'
  <2>1. /\ stage' = Shown("idle") /\ deleteStage' = "idle" /\ urls' = {} /\ seen' = {}
        /\ painted'.url = Partial
        /\ resolving' = [i \in Resolves |-> [resolving[i] EXCEPT !.pc =
                           IF @ = "idle" THEN @ ELSE "done", !.here = FALSE]]
    BY <1>5 DEF Reload
  <2>2. resolving' \in [Resolves -> LookUp]
    BY <2>1 DEF RetrieveInv, RetrieveTypes, LookUp
  <2> QED BY <2>1, <2>2, CleanRetrieve
<1>6. CASE \E page \in Routes : Navigate(page)
  BY <1>2, <1>4, <1>6 DEF Navigate
<1>7. CASE LeaveAnyway
  BY <1>4, <1>7 DEF LeaveAnyway
<1>8. CASE Stay \/ RenderFails \/ RetryRender \/ UNCHANGED vars
  BY <1>2, <1>8 DEF Stay, RenderFails, RetryRender, vars
<1> QED BY <1>2, <1>3, <1>5, <1>6, <1>7, <1>8 DEF Next

-----------------------------------------------------------------------------
(* The invariant, and what follows from it.                                *)

(* The page starts with all of it.                                         *)
LEMMA InvInit == Init => Inv
<1> SUFFICES ASSUME Init PROVE Inv
  OBVIOUS
<1> USE DEF Init, ShellInit, CreateInit, FormInit, RetrieveInit
<1>1. RouterTypes /\ AnswerTypes
  BY DEF RouterTypes, AnswerTypes
<1>2. PageTypes /\ KeyTypes
  BY CreateAssumption DEF PageTypes, FormTypes, PhotoTypes, KeyTypes, Steps
<1>3. LoadInv /\ AwayInv /\ DrawnInv /\ ~Showing("create")
  BY DEF LoadInv, AwayInv, DrawnInv, Showing
<1>4. StepInv /\ BitmapInv
  BY <1>3 DEF StepInv, BitmapInv
<1>5. stage \in StageState /\ stage.kind = "idle" /\ stage.url = Partial /\ painted.url = Partial
  BY DEF Shown, StageState
<1>6. RetrieveTypes /\ UrlInv /\ AfterDeleteInv
  BY <1>5 DEF RetrieveTypes, LookUp, UrlInv, AfterDeleteInv
<1> QED BY <1>1, <1>2, <1>3, <1>4, <1>6, TypesByPart DEF Inv, PhotoInv, RetrieveInv

(* All of it holds always.                                                 *)
LEMMA Invariant == Spec => []Inv
<1>1. Inv /\ [Next]_vars => Inv'
  BY TypeStep, PhotoStep, RetrieveStep DEF Inv
<1> QED BY InvInit, <1>1, PTL DEF Spec

(* Every variable keeps its type.                                          *)
THEOREM TypeCorrect == Spec => []TypeOK
<1>1. Inv => TypeOK
  BY DEF Inv
<1> QED BY Invariant, <1>1, PTL

(* The edits on screen are of the template chosen and of the photo shown,  *)
(* unless this was decoded after its upload step was left.                 *)
THEOREM NoForeignEdits == Spec => []EditsBelongToSource
<1>1. Inv => EditsBelongToSource
  <2> SUFFICES ASSUME Inv PROVE EditsBelongToSource
    OBVIOUS
  <2>1. CASE Showing("create")
    BY <2>1 DEF Inv, PhotoInv, StepInv, Fits, EditsBelongToSource
  <2>2. CASE ~Showing("create")
    <3>1. drawn = None /\ editorState = None
      BY <2>2 DEF Inv, PhotoInv, AwayInv, DrawnInv
    <3> QED BY <3>1 DEF EditsBelongToSource, shown, asked
  <2> QED BY <2>1, <2>2
<1> QED BY Invariant, <1>1, PTL

(* Only a file decoded after its upload step was left takes the page to a  *)
(* step it cannot draw.                                                    *)
THEOREM OnlyLateUploadsBlank == Spec => []BlankOnlyAfterLateUpload
<1>1. Inv => BlankOnlyAfterLateUpload
  BY DEF Inv, PhotoInv, StepInv, Fits, Blank, BlankOnlyAfterLateUpload
<1> QED BY Invariant, <1>1, PTL

(* Photos are let go, but those that came too late, and so are previews    *)
(* that were on screen.                                                    *)
THEOREM NothingLeaks == Spec => []NothingElseHeld
<1>1. Inv => NothingElseHeld
  BY DEF Inv, PhotoInv, BitmapInv, RetrieveInv, UrlInv, NothingElseHeld
<1> QED BY Invariant, <1>1, PTL

(* No photo is shown after its deletion but by a lookup already pending.   *)
THEOREM DeletedIsNotShown == Spec => []ShownAfterDeleteOnlyIfPending
<1>1. Inv => ShownAfterDeleteOnlyIfPending
  BY DEF Inv, RetrieveInv, AfterDeleteInv, ShownAfterDeleteOnlyIfPending
<1> QED BY Invariant, <1>1, PTL

-----------------------------------------------------------------------------
(* The rate limiter: what RateLimit is about.                              *)

(* A request that has not been counted has no place in its window; one     *)
(* that has, has a place of its own, and passes only if it is an early one.*)
PlaceInv ==
  /\ \A r \in Requests :
       /\ pc[r] \in {"idle", "record"} => ord[r] = 0
       /\ pc[r] \in Passed \cup {"reread"} => ord[r] # 0
       /\ pc[r] \in Passed => ord[r] <= IpLimit
       /\ ord[r] <= ipCount[req[r].ip][req[r].window]
  /\ \A q, r \in Requests : SameBucket(q, r) /\ ord[q] = ord[r] /\ ord[q] # 0 => q = r

(* Each failure is counted once, for its KEY and in its window.            *)
FailInv ==
  /\ \A r \in Requests : pc[r] \notin {"unavailable"} => failed[r] = {}
  /\ \A k \in Buckets, t \in Windows : failCount[k][t] = Cardinality(Failures(k, t))

LimitInv == LimitTypeOK /\ PlaceInv /\ FailInv

(* The window of the present is one.                                       *)
LEMMA StartInWindows == ASSUME LimitTypeOK PROVE Start(now) \in Windows
BY DEF LimitTypeOK, Windows

(* Types are kept.                                                         *)
LEMMA LimitTypeStep == LimitTypeOK /\ [LimitNext]_limitVars => LimitTypeOK'
<1> SUFFICES ASSUME LimitTypeOK, [LimitNext]_limitVars PROVE LimitTypeOK'
  OBVIOUS
<1> USE DEF LimitTypeOK, Goto
<1>1. ASSUME NEW r \in Requests, Arrive(r) PROVE LimitTypeOK'
  <2>1. Start(now) \in Windows
    BY StartInWindows
  <2> QED BY <1>1, <2>1 DEF Arrive
<1>2. ASSUME NEW r \in Requests, Record(r) PROVE LimitTypeOK'
  <2>1. ipCount' \in [Ips -> [Windows -> Nat]]
    BY <1>2 DEF Record
  <2>2. ord' \in [Requests -> Nat]
    BY <1>2 DEF Record
  <2> QED BY <1>2, <2>1, <2>2 DEF Record
<1>3. ASSUME NEW r \in Requests, Reread(r) \/ Lookup(r) \/ Gate(r) \/ Error(r) PROVE LimitTypeOK'
  BY <1>3 DEF Reread, Lookup, Gate, Error
<1>4. ASSUME NEW r \in Requests, RecordFailure(r) PROVE LimitTypeOK'
  <2>1. Start(now) \in Windows
    BY StartInWindows
  <2>2. failCount' \in [Buckets -> [Windows -> Nat]]
    BY <1>4, <2>1 DEF RecordFailure
  <2> QED BY <1>4, <2>1, <2>2 DEF RecordFailure
<1>5. ASSUME NEW k \in Codes, LifeGoesOn(k) PROVE LimitTypeOK'
  BY <1>5 DEF LifeGoesOn
<1>6. CASE Tick
  BY <1>6, LimitAssumption DEF Tick
<1>7. CASE UNCHANGED limitVars
  BY <1>7 DEF limitVars
<1> QED BY <1>1, <1>2, <1>3, <1>4, <1>5, <1>6, <1>7 DEF LimitNext

(* Places in a window are kept apart.                                      *)
LEMMA PlaceStep == LimitTypeOK /\ PlaceInv /\ [LimitNext]_limitVars => PlaceInv'
<1> SUFFICES ASSUME LimitTypeOK, PlaceInv, [LimitNext]_limitVars PROVE PlaceInv'
  OBVIOUS
<1> USE LimitAssumption DEF LimitTypeOK, PlaceInv, SameBucket, Goto, Passed
<1>1. ASSUME NEW r \in Requests, Arrive(r) PROVE PlaceInv'
  <2>1. Start(now) \in Windows
    BY StartInWindows
  <2>2. /\ pc[r] = "idle" /\ pc'[r] = "record" /\ ord[r] = 0
        /\ req'[r].window = Start(now) /\ req'[r].ip = req[r].ip
        /\ \A q \in Requests : q # r => req'[q] = req[q] /\ pc'[q] = pc[q]
        /\ ord' = ord /\ ipCount' = ipCount
    BY <1>1 DEF Arrive
  <2>3. ord[r] <= ipCount[req'[r].ip][req'[r].window]
    BY <2>1, <2>2
  <2>4. \A q \in Requests : ord'[q] <= ipCount'[req'[q].ip][req'[q].window]
    BY <2>2, <2>3
  <2>5. \A q, s \in Requests : SameBucket(q, s)' /\ ord'[q] = ord'[s] /\ ord'[q] # 0 => q = s
    <3>1. \A q \in Requests : ord[q] # 0 => q # r /\ req'[q] = req[q]
      BY <2>2
    <3> QED BY <2>2, <3>1
  <2>6. \A q \in Requests :
          /\ pc'[q] \in {"idle", "record"} => ord'[q] = 0
          /\ pc'[q] \in Passed \cup {"reread"} => ord'[q] # 0
          /\ pc'[q] \in Passed => ord'[q] <= IpLimit
    BY <2>2
  <2> QED BY <2>4, <2>5, <2>6
<1>2. ASSUME NEW r \in Requests, Record(r) PROVE PlaceInv'
  <2> DEFINE i == req[r].ip
             t == req[r].window
  <2>1. /\ pc[r] = "record" /\ \A q \in Requests : pc'[q] = IF q = r THEN "reread" ELSE pc[q]
        /\ req' = req
        /\ \A q \in Requests : ord'[q] = IF q = r THEN ipCount[i][t] + 1 ELSE ord[q]
    BY <1>2 DEF Record
  <2>2. \A j \in Ips, u \in Windows : ipCount'[j][u] =
          IF j = i /\ u = t THEN ipCount[i][t] + 1 ELSE ipCount[j][u]
    BY <1>2 DEF Record
  <2>3. i \in Ips /\ t \in Windows /\ ipCount[i][t] \in Nat
    OBVIOUS
  <2>4. ASSUME NEW q \in Requests PROVE ord'[q] <= ipCount'[req'[q].ip][req'[q].window]
    <3>1. /\ req[q].ip \in Ips /\ req[q].window \in Windows /\ ord[q] \in Nat
          /\ ord[q] <= ipCount[req[q].ip][req[q].window]
          /\ ipCount[req[q].ip][req[q].window] \in Nat
      OBVIOUS
    <3>2. req'[q] = req[q]
      BY <2>1
    <3> HIDE DEF LimitTypeOK, PlaceInv
    <3>3. CASE q = r
      BY <2>1, <2>2, <2>3, <3>1, <3>2, <3>3
    <3>4. CASE q # r
      BY <2>1, <2>2, <2>3, <3>1, <3>2, <3>4
    <3> QED BY <3>3, <3>4
  <2>5. \A q \in Requests : q # r /\ SameBucket(q, r) => ord'[q] # ord'[r]
    BY <2>1, <2>3
  <2>6. \A q, s \in Requests : SameBucket(q, s)' /\ ord'[q] = ord'[s] /\ ord'[q] # 0 => q = s
    BY <2>1, <2>5
  <2>7. \A q \in Requests :
          /\ pc'[q] \in {"idle", "record"} => ord'[q] = 0
          /\ pc'[q] \in Passed \cup {"reread"} => ord'[q] # 0
          /\ pc'[q] \in Passed => ord'[q] <= IpLimit
    BY <2>1, <2>3
  <2> QED BY <2>4, <2>6, <2>7
<1>3. ASSUME NEW r \in Requests, Reread(r) PROVE PlaceInv'
  BY <1>3 DEF Reread, WithinIpLimit
<1>4. ASSUME NEW r \in Requests, Lookup(r) \/ Gate(r) \/ RecordFailure(r) \/ Error(r)
      PROVE  PlaceInv'
  BY <1>4 DEF Lookup, Gate, RecordFailure, Error
<1>5. ASSUME NEW k \in Codes, LifeGoesOn(k) PROVE PlaceInv'
  BY <1>5 DEF LifeGoesOn
<1>6. CASE Tick
  BY <1>6 DEF Tick
<1>7. CASE UNCHANGED limitVars
  BY <1>7 DEF limitVars
<1> QED BY <1>1, <1>2, <1>3, <1>4, <1>5, <1>6, <1>7 DEF LimitNext

(* Failures are counted once.                                              *)
LEMMA FailStep == LimitTypeOK /\ FailInv /\ [LimitNext]_limitVars => FailInv'
<1> SUFFICES ASSUME LimitTypeOK, FailInv, [LimitNext]_limitVars PROVE FailInv'
  OBVIOUS
<1>1. ASSUME failCount' = failCount, failed' = failed,
             \A r \in Requests : req'[r].key = req[r].key,
             \A r \in Requests : pc[r] = "unavailable" => pc'[r] = "unavailable"
      PROVE  FailInv'
  BY <1>1 DEF FailInv, Failures
<1>2. ASSUME NEW r \in Requests, RecordFailure(r) PROVE FailInv'
  <2> DEFINE b == req[r].key
             w == Start(now)
  <2>1. w \in Windows /\ b \in Buckets
    BY StartInWindows DEF LimitTypeOK
  <2>2. failed[r] = {} /\ \A q \in Requests : failed'[q] = IF q = r THEN {w} ELSE failed[q]
    BY <1>2 DEF RecordFailure, Goto, FailInv, LimitTypeOK
  <2>3. \A k \in Buckets, t \in Windows :
          failCount'[k][t] = IF k = b /\ t = w THEN failCount[b][w] + 1 ELSE failCount[k][t]
    BY <1>2 DEF RecordFailure, LimitTypeOK
  <2>4. req' = req /\ \A q \in Requests : q # r => pc'[q] = pc[q]
    BY <1>2 DEF RecordFailure, Goto, LimitTypeOK
  <2>5. pc'[r] = "unavailable"
    BY <1>2 DEF RecordFailure, Goto, LimitTypeOK
  <2>6. ASSUME NEW k \in Buckets, NEW t \in Windows
        PROVE  failCount'[k][t] = Cardinality(Failures(k, t)')
    <3>1. CASE k = b /\ t = w
      <4>1. Failures(k, t)' = Failures(k, t) \cup {r} /\ r \notin Failures(k, t)
        BY <2>2, <2>4, <3>1 DEF Failures
      <4>2. IsFiniteSet(Failures(k, t))
        BY LimitAssumption, FS_Subset DEF Failures
      <4>3. Cardinality(Failures(k, t)') = Cardinality(Failures(k, t)) + 1
        BY <4>1, <4>2, FS_AddElement
      <4> QED BY <2>1, <2>3, <3>1, <4>3 DEF FailInv
    <3>2. CASE ~(k = b /\ t = w)
      <4>1. Failures(k, t)' = Failures(k, t)
        BY <2>2, <2>4, <3>2 DEF Failures
      <4> QED BY <2>3, <3>2, <4>1 DEF FailInv
    <3> QED BY <3>1, <3>2
  <2>7. \A q \in Requests : pc'[q] \notin {"unavailable"} => failed'[q] = {}
    BY <2>2, <2>4, <2>5 DEF FailInv
  <2> QED BY <2>6, <2>7 DEF FailInv
<1>3. ASSUME NEW r \in Requests,
             Arrive(r) \/ Record(r) \/ Reread(r) \/ Lookup(r) \/ Gate(r) \/ Error(r)
      PROVE  FailInv'
  <2>1. failCount' = failCount /\ failed' = failed
    BY <1>3 DEF Arrive, Record, Reread, Lookup, Gate, Error
  <2>2. \A q \in Requests : req'[q].key = req[q].key
    <3>1. CASE Arrive(r)
      BY <3>1 DEF Arrive, LimitTypeOK
    <3> QED BY <1>3, <3>1 DEF Record, Reread, Lookup, Gate, Error
  <2>3. \A q \in Requests : pc[q] = "unavailable" => pc'[q] = "unavailable"
    BY <1>3 DEF Arrive, Record, Reread, Lookup, Gate, Error, Goto, LimitTypeOK
  <2> QED BY <1>1, <2>1, <2>2, <2>3
<1>4. CASE (\E k \in Codes : LifeGoesOn(k)) \/ Tick \/ UNCHANGED limitVars
  BY <1>1, <1>4 DEF LifeGoesOn, Tick, limitVars
<1> QED BY <1>2, <1>3, <1>4 DEF LimitNext

(* At the start nothing is counted.                                        *)
LEMMA LimitInitInv == LimitInit => LimitInv
<1> SUFFICES ASSUME LimitInit PROVE LimitInv
  OBVIOUS
<1>1. 0 \in Windows
  <2>1. 0 \in 0 .. MaxTime /\ Start(0) = 0
    BY LimitAssumption DEF Start
  <2> QED BY <2>1 DEF Windows
<1>2. LimitTypeOK
  BY <1>1, LimitAssumption DEF LimitInit, LimitTypeOK
<1>3. PlaceInv
  BY <1>1 DEF LimitInit, PlaceInv, Passed
<1>4. \A k \in Buckets, t \in Windows : Failures(k, t) = {}
  BY DEF LimitInit, Failures
<1>5. FailInv
  BY <1>4, FS_EmptySet DEF LimitInit, FailInv
<1> QED BY <1>2, <1>3, <1>5 DEF LimitInv

(* The invariant holds throughout.                                         *)
LEMMA LimitInvAlways == LimitSpec => []LimitInv
<1>1. LimitInv /\ [LimitNext]_limitVars => LimitInv'
  BY LimitTypeStep, PlaceStep, FailStep DEF LimitInv
<1> QED BY <1>1, LimitInitInv, PTL DEF LimitSpec

(* However the commits and the reads of one address's requests interleave, *)
(* at most resolve_ip_limit of them get past check in one window.          *)
THEOREM IpLimitCorrect == LimitSpec => []IpLimitHolds
<1>1. LimitInv => IpLimitHolds
  <2> SUFFICES ASSUME LimitInv, NEW i \in Ips, NEW t \in Windows
               PROVE  Cardinality({r \in Requests :
                        pc[r] \in Passed /\ req[r].ip = i /\ req[r].window = t}) <= IpLimit
    BY DEF IpLimitHolds
  <2> DEFINE S == {r \in Requests : pc[r] \in Passed /\ req[r].ip = i /\ req[r].window = t}
             f == [r \in S |-> ord[r]]
  <2>1. \A r \in S : ord[r] \in 1 .. IpLimit
    BY LimitAssumption DEF LimitInv, LimitTypeOK, PlaceInv
  <2>2. f \in Injection(S, 1 .. IpLimit)
    BY <2>1 DEF LimitInv, PlaceInv, SameBucket, Injection, IsInjective
  <2>3. IsFiniteSet(1 .. IpLimit) /\ Cardinality(1 .. IpLimit) = IpLimit
    BY LimitAssumption, FS_Interval
  <2> HIDE DEF S, f
  <2>4. Cardinality(S) <= Cardinality(1 .. IpLimit)
    BY <2>2, <2>3, FS_Injection
  <2> QED BY <2>3, <2>4 DEF S
<1> QED BY <1>1, LimitInvAlways, PTL

(* The gate closes exactly when resolve_fail_limit resolves of this KEY    *)
(* have failed in the window of the clock peek reads.                      *)
THEOREM GateCorrect == LimitSpec => GateCountsFailures
<1>1. LimitInv /\ [LimitNext]_limitVars =>
        [\A r \in Requests : pc[r] = "gate" /\ pc'[r] \in {"gated", "granted"} =>
           (pc'[r] = "gated" <=> Cardinality(Failures(req[r].key, Start(now))) >= FailLimit)]_limitVars
  <2> SUFFICES ASSUME LimitInv, LimitNext, NEW r \in Requests, pc[r] = "gate", pc'[r] \in {"gated", "granted"}
               PROVE  pc'[r] = "gated" <=>
                        Cardinality(Failures(req[r].key, Start(now))) >= FailLimit
    OBVIOUS
  <2>1. Gate(r)
    <3>1. ASSUME NEW q \in Requests,
                 \/ Arrive(q) \/ Record(q) \/ Reread(q) \/ Lookup(q)
                 \/ RecordFailure(q) \/ Error(q)
          PROVE  FALSE
      BY <3>1 DEF Arrive, Record, Reread, Lookup, RecordFailure, Error, Goto, LimitInv, LimitTypeOK
    <3>2. ASSUME NEW q \in Requests, Gate(q) PROVE q = r
      BY <3>2 DEF Gate, Goto, LimitInv, LimitTypeOK
    <3> QED BY <3>1, <3>2 DEF LimitNext, LifeGoesOn, Tick
  <2>2. pc'[r] = "gated" <=> failCount[req[r].key][Start(now)] >= FailLimit
    BY <2>1 DEF Gate, Goto, LimitInv, LimitTypeOK
  <2>3. failCount[req[r].key][Start(now)] = Cardinality(Failures(req[r].key, Start(now)))
    BY StartInWindows DEF LimitInv, FailInv, LimitTypeOK
  <2> QED BY <2>2, <2>3
<1> QED BY <1>1, LimitInvAlways, PTL DEF LimitSpec, GateCountsFailures
=============================================================================

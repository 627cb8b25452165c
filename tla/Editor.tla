-------------------------------- MODULE Editor --------------------------------
(***************************************************************************)
(* Editing one photo: EditorStep (frontend/src/editor/editor-step.tsx)     *)
(* between the confirm step, where the output size and the template can be *)
(* changed, and the final step (create/create-page.tsx).                   *)
(*                                                                         *)
(* shown is the transform last rendered, which the handlers read, through  *)
(* transformRef or their closure.  A click or a key is rendered before the *)
(* next event; pointer moves may be handled two and more at a time.        *)
(***************************************************************************)
EXTENDS EditTransform, FiniteSets

CONSTANTS
  Templates,    (* the revisions on offer                                  *)
  Fingers,      (* pointers on the canvas                                  *)
  UndoLimit,    (* UNDO_LIMIT                                              *)
  TypedScales,  (* what may be typed as zoom                               *)
  TypedAngles,  (* what may be typed as rotation                           *)
  Pans,         (* positions typed, and distances moved                    *)
  MaxEdits,     (* bound on changes made in the editor                     *)
  MaxMoves      (* bound on size changes and template switches             *)

ASSUME EditorAssumption ==
  /\ Templates \subseteq Revision /\ UndoLimit \in Nat \ {0, 1}
  /\ TypedScales \subseteq Int /\ TypedAngles \subseteq Int /\ Pans \subseteq Int
  /\ MaxEdits \in Nat /\ MaxMoves \in Nat

VARIABLES
  step,        (* "review", "edit" or "final"                              *)
  template,
  size,        (* selectedSize: None is the template's default             *)
  saved,       (* editorState of CreatePage                                *)
  edit,        (* transform and history of the mounted editor              *)
  shown,       (* the transform last rendered                              *)
  outOfBounds, (* the warning that disables "Next"                         *)
  down,        (* pointers pressed on the canvas                           *)
  dragging,    (* dragRef is set                                           *)
  pinching,    (* pinchRef is set                                          *)
  edits, moves

gesture == <<down, dragging, pinching>>
page == <<step, template, size, saved, moves>>
vars == <<page, edit, shown, outOfBounds, gesture, edits>>

Out == ResolveOutputSize(template, size)

Init ==
  /\ step = "review" /\ template \in Templates /\ size = None /\ saved = None
  /\ edit = InitialState /\ shown = Identity /\ outOfBounds = FALSE
  /\ down = {} /\ dragging = FALSE /\ pinching = FALSE
  /\ edits = 0 /\ moves = 0

-----------------------------------------------------------------------------
(* What the page enables: the canvas with its pads and sliders, the        *)
(* buttons.  The handlers of locked controls refuse as well.               *)

MayCompose == ~ComposeLocked(template)
MayRotate == ~RotateLocked(template)
MayMirror == ~MirrorLocked(template)
CanUndo == edit.undo # <<>>
CanRedo == edit.redo # <<>>
CanReset == ~edit.transform.pristine
MayGoOn == ~outOfBounds

-----------------------------------------------------------------------------
(* The steps around the editor.                                            *)

(* A template that locks the composition keeps rotation and mirror only.   *)
StartTransform ==
  IF Out # None /\ ComposeLocked(template) /\ saved # None
  THEN FitTransform([Identity EXCEPT !.rot = saved.transform.rot,
                                     !.flip = saved.transform.flip,
                                     !.pristine = FALSE], Out)
  ELSE IF saved = None THEN Identity ELSE saved.transform

Mount ==
  /\ step' = "edit"
  /\ edit' = [IF saved = None THEN InitialState ELSE saved EXCEPT !.transform = StartTransform]
  /\ shown' = StartTransform
  /\ outOfBounds' = (Out # None /\ saved # None /\ ~IsValid(saved.transform, Out))
  /\ UNCHANGED <<template, size, saved, moves, gesture, edits>>

Confirm == step = "review" /\ Mount
BackToEdit == step = "final" /\ Mount

(* Leaving takes the fingers' events with it.                              *)
Leave(to, state) ==
  /\ step = "edit" /\ step' = to /\ saved' = state
  /\ down' = {} /\ dragging' = FALSE /\ pinching' = FALSE
  /\ UNCHANGED <<template, size, moves, edit, shown, outOfBounds, edits>>

Done ==
  IF Out = None THEN Leave("final", IF saved = None THEN InitialState ELSE saved)
  ELSE shown = edit.transform /\ MayGoOn /\ Leave("final", edit)

Back ==
  IF Out = None THEN Leave("review", InitialState)
  ELSE shown = edit.transform /\ Leave("review", edit)

CanMove == moves < MaxMoves /\ moves' = moves + 1

ChangeSize(s) ==
  /\ step = "review" /\ CanMove
  /\ s \in AllowedOutputSizes(template) /\ Cardinality(AllowedOutputSizes(template)) > 1
  /\ size' = s
  /\ UNCHANGED <<step, template, saved, edit, shown, outOfBounds, gesture, edits>>

(* The artifact was too large at the selected size.                        *)
UseDefaultSize ==
  /\ step = "final" /\ CanMove
  /\ size # None /\ OutputSize(template) # None /\ size # OutputSize(template)
  /\ size' = None
  /\ UNCHANGED <<step, template, saved, edit, shown, outOfBounds, gesture, edits>>

(* onSelect of the template step, entered from the confirm step.           *)
SwitchTemplate(rev) ==
  /\ step = "review" /\ CanMove
  /\ template' = rev /\ size' = None
  /\ saved' = IF saved = None \/ (rev # template /\ ComposeLocked(rev))
              THEN None ELSE Reproject(saved, rev)
  /\ UNCHANGED <<step, edit, shown, outOfBounds, gesture, edits>>

-----------------------------------------------------------------------------
(* Changes.                                                                *)

LastOf(stack, n) == SubSeq(stack, AtLeast(1, Len(stack) - n + 1), Len(stack))
Front(stack) == SubSeq(stack, 1, Len(stack) - 1)
Top(stack) == stack[Len(stack)]

Editing == step = "edit" /\ Out # None /\ edits < MaxEdits
Counted == edits' = edits + 1
Rendered == shown' = edit'.transform

(* Mutant: what the handler read is pushed, not what it replaces.          *)
ApplyOverShown(next) ==
  LET fitted == [FitTransform(next, Out) EXCEPT !.pristine = FALSE] IN
  /\ next.scale # 0
  /\ edit' = [transform |-> fitted,
              undo |-> Append(LastOf(edit.undo, UndoLimit - 1), shown), redo |-> <<>>]
  /\ outOfBounds' = ~IsValid(fitted, Out)

(* A scale of zero throws "singular matrix" before anything is set.        *)
Apply(next) ==
  LET fitted == [FitTransform(next, Out) EXCEPT !.pristine = FALSE] IN
  /\ next.scale # 0
  /\ edit' = [transform |-> fitted,
              undo |-> Append(LastOf(edit.undo, UndoLimit - 1), edit.transform),
              redo |-> <<>>]
  /\ outOfBounds' = ~IsValid(fitted, Out)

(* A change made by a click, a key or in a field.                          *)
Change(next) ==
  /\ Editing /\ Counted
  /\ Apply(next) /\ Rendered
  /\ UNCHANGED <<page, gesture>>

Pan(p) == MayCompose /\ Change([shown EXCEPT !.pos = p])
Centre == Pan(0)
Nudge(d) == MayCompose /\ Change([shown EXCEPT !.pos = @ + d])
Zoom(s) == MayCompose /\ Change([shown EXCEPT !.scale = s])
ZoomIn == Zoom(AtMost(MaxScale, shown.scale + 1))
ZoomOut == Zoom(AtLeast(MinScale, shown.scale - 1))
Rotate(angle) == MayRotate /\ Change([shown EXCEPT !.rot = angle])
Slide(angle) == angle \in -Quarter .. Quarter /\ Rotate(NormalizeRotation(angle))
Rotate90 ==
  /\ MayRotate /\ Out # None
  /\ Change([shown EXCEPT !.rot = NormalizeRotation(@ + Quarter),
                          !.scale = @ * QuarterGrowth(Out)])
ToggleFlip == MayMirror /\ Change([shown EXCEPT !.flip = ~@])

(* undo, redo and reset leave the warning as it is, and do not cut the     *)
(* stack: a reset may make it longer than UndoLimit.                       *)
Undo ==
  /\ Editing /\ Counted /\ CanUndo
  /\ edit' = [transform |-> Top(edit.undo), undo |-> Front(edit.undo),
              redo |-> Append(edit.redo, edit.transform)]
  /\ Rendered /\ UNCHANGED <<page, gesture, outOfBounds>>

Redo ==
  /\ Editing /\ Counted /\ CanRedo
  /\ edit' = [transform |-> Top(edit.redo), undo |-> Append(edit.undo, edit.transform),
              redo |-> Front(edit.redo)]
  /\ Rendered /\ UNCHANGED <<page, gesture, outOfBounds>>

Reset ==
  /\ Editing /\ Counted /\ CanReset
  /\ edit' = [transform |-> Identity, undo |-> Append(edit.undo, edit.transform), redo |-> <<>>]
  /\ Rendered /\ UNCHANGED <<page, gesture, outOfBounds>>

-----------------------------------------------------------------------------
(* Pointers on the canvas.                                                 *)

PointerDown(f) ==
  /\ Editing /\ MayCompose /\ f \notin down
  /\ down' = down \cup {f}
  /\ IF Cardinality(down') = 2 THEN pinching' = TRUE /\ dragging' = FALSE
     ELSE dragging' = TRUE /\ UNCHANGED pinching
  /\ UNCHANGED <<page, edit, shown, outOfBounds, edits>>

Moved(next) ==
  /\ Editing /\ Counted /\ MayCompose
  /\ Apply(next)
  /\ UNCHANGED <<page, gesture, shown>>

Pinch(s) ==
  /\ pinching /\ Cardinality(down) >= 2
  /\ s \in MinScale .. MaxScale
  /\ Moved([shown EXCEPT !.scale = s])

Drag(d) ==
  /\ dragging /\ down # {} /\ ~(pinching /\ Cardinality(down) >= 2)
  /\ Moved([shown EXCEPT !.pos = @ + d])

Render ==
  /\ step = "edit" /\ shown # edit.transform /\ shown' = edit.transform
  /\ UNCHANGED <<page, edit, outOfBounds, gesture, edits>>

PointerUp(f) ==
  /\ step = "edit" /\ f \in down
  /\ down' = down \ {f}
  /\ pinching' = (pinching /\ Cardinality(down') >= 2)
  /\ dragging' = (dragging /\ down' # {})
  /\ UNCHANGED <<page, edit, shown, outOfBounds, edits>>

Next ==
  \/ Confirm \/ BackToEdit \/ Done \/ Back \/ UseDefaultSize
  \/ \E s \in Sizes : ChangeSize(s)
  \/ \E rev \in Templates : SwitchTemplate(rev)
  \/ \E p \in Pans : Pan(p) \/ Nudge(p) \/ Drag(p)
  \/ \E s \in TypedScales : Zoom(s)
  \/ Centre \/ ZoomIn \/ ZoomOut \/ Rotate90 \/ ToggleFlip
  \/ \E angle \in TypedAngles : Rotate(angle) \/ Slide(angle)
  \/ Undo \/ Redo \/ Reset \/ Render
  \/ \E f \in Fingers : PointerDown(f) \/ PointerUp(f)
  \/ \E s \in MinScale .. MaxScale : Pinch(s)

Spec == Init /\ [][Next]_vars

-----------------------------------------------------------------------------
(* Properties.                                                             *)

TransformsOf(state) ==
  {state.transform} \cup {state.undo[i] : i \in DOMAIN state.undo}
                    \cup {state.redo[i] : i \in DOMAIN state.redo}

(* Types, with the gestures: a pinch takes two fingers, a drag one.        *)
TypeOK ==
  /\ step \in {"review", "edit", "final"} /\ template \in Templates
  /\ size \in AllowedOutputSizes(template) \cup {None}
  /\ saved \in EditorState \cup {None} /\ edit \in EditorState /\ shown \in Transform
  /\ outOfBounds \in BOOLEAN /\ down \subseteq Fingers
  /\ pinching \in BOOLEAN /\ dragging \in BOOLEAN
  /\ pinching => Cardinality(down) >= 2
  /\ dragging => down # {}

(* What the template forbids is nowhere in the edits, in the undo and redo *)
(* stacks neither, so that no sequence of template switches, undo and redo *)
(* brings a mirror, a rotation or a composition back that the template on  *)
(* screen forbids.                                                         *)
Respects(state, rev) ==
  \A t \in TransformsOf(state) :
    /\ MirrorLocked(rev) => ~t.flip
    /\ RotateLocked(rev) => t.rot = 0
    /\ ComposeLocked(rev) => t.pos = 0 /\ (RotateLocked(rev) => t.scale = 1)

LocksHold ==
  /\ saved # None => Respects(saved, template)
  /\ step = "edit" => Respects(edit, template)

(* Undo and redo only move along the history, and every other change of    *)
(* the transform leaves the one it replaced on top of the undo stack, also *)
(* when two pointer moves were handled before a rendering.                 *)
EveryChangeCanBeUndone ==
  [][step = "edit" /\ step' = "edit" /\ edit' # edit =>
       \/ edit'.undo # <<>> /\ Top(edit'.undo) = edit.transform
       \/ edit'.redo # <<>> /\ Top(edit'.redo) = edit.transform
            /\ edit.undo = Append(edit'.undo, edit'.transform)]_vars

(* After a template switch every transform, of the stacks too, lies within *)
(* the photo at the new template's size.                                   *)
SwitchedEditsFit ==
  [][template' # template /\ saved' # None /\ OutputSize(template') # None =>
       \A t \in TransformsOf(saved') : IsValid(t, OutputSize(template'))]_vars

(* What final-artifact.ts takes for granted: the editor hands it only      *)
(* transforms projected into the valid region.                             *)
FinalTransformValid == step = "final" /\ Out # None => IsValid(saved.transform, Out)
=============================================================================

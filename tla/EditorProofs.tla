---------------------------- MODULE EditorProofs ----------------------------
(***************************************************************************)
(* Proofs about Editor and EditTransform, for any templates, output sizes, *)
(* photos (Need), fingers, limits of the stack and numbers of edits.       *)
(***************************************************************************)
EXTENDS Editor, SequenceTheorems, FiniteSetTheorems, TLAPS

(* The transforms that a template allows, and the edits made of them.      *)
Lawful(rev) ==
  {t \in Transform :
     /\ MirrorLocked(rev) => ~t.flip
     /\ RotateLocked(rev) => t.rot = 0
     /\ ComposeLocked(rev) => t.pos = 0 /\ (RotateLocked(rev) => t.scale = 1)}
States(S) == [transform : S, undo : Seq(S), redo : Seq(S)]

(* What is kept, and what is being edited, is allowed by the template, as  *)
(* is what the handlers read, which may be older than what is edited.      *)
LawInv ==
  /\ saved # None => saved \in States(Lawful(template))
  /\ step = "edit" => edit \in States(Lawful(template)) /\ shown \in Lawful(template)

Inv == TypeOK /\ IsFiniteSet(down) /\ LawInv

-----------------------------------------------------------------------------
(* Angles and scales.                                                      *)

(* An angle has its place in a full turn.                                  *)
LEMMA Turn == ASSUME NEW n \in Int PROVE n % FullTurn \in 0 .. FullTurn - 1
BY EditAssumption

(* Upright, the frame fits at scale one.                                   *)
LEMMA Upright == ASSUME NEW out \in Sizes PROVE Need[out][0 % FullTurn] = 1
<1>1. 0 % FullTurn = 0
  BY EditAssumption
<1> QED BY <1>1, EditAssumption

(* The least scale is a number.                                            *)
LEMMA NeedIs ==
  ASSUME NEW t \in Transform, NEW out \in Sizes
  PROVE  NeedAt(t, out) \in Nat \ {0} /\ (t.rot = 0 => NeedAt(t, out) = 1)
<1>1. t.rot % FullTurn \in 0 .. FullTurn - 1
  BY Turn DEF Transform
<1>2. NeedAt(t, out) \in Nat \ {0}
  BY <1>1, EditAssumption DEF NeedAt
<1> QED BY <1>2, Upright DEF NeedAt

(* A quarter turn is an angle.                                             *)
LEMMA QuarterIs == /\ Quarter \in Nat
                   /\ \A out \in Sizes : QuarterGrowth(out) \in Nat \ {0}
<1>1. Quarter \in 0 .. FullTurn - 1
  BY EditAssumption DEF Quarter
<1> QED BY <1>1, EditAssumption DEF QuarterGrowth

(* A normalized angle is an angle.                                         *)
LEMMA NormalizeIs == ASSUME NEW n \in Int PROVE NormalizeRotation(n) \in Int
<1>1. n % FullTurn \in Int /\ (-n) % FullTurn \in Int /\ FullTurn \in Int
  BY Turn, EditAssumption
<1>2. PICK rest : rest = IF n < 0 THEN -((-n) % FullTurn) ELSE n % FullTurn
  OBVIOUS
<1>3. rest \in Int
  BY <1>1, <1>2
<1>4. NormalizeRotation(n) = CASE rest > 2 * Quarter -> rest - FullTurn
                                [] rest < -2 * Quarter -> rest + FullTurn
                                [] OTHER -> rest
  BY <1>2 DEF NormalizeRotation
<1> QED BY <1>1, <1>3, <1>4

-----------------------------------------------------------------------------
(* Fitting.                                                                *)

(* Room to pan is a number, the more the larger the scale.                 *)
LEMMA RoomIs ==
  ASSUME NEW t \in Transform, NEW out \in Sizes
  PROVE  /\ Room(t, out) \in Int /\ Abs(t.scale) \in Nat /\ Abs(t.pos) \in Nat
         /\ Centred(t) \in Transform /\ Room(Centred(t), out) = Room(t, out)
         /\ IsValid(Centred(t), out) <=> Room(t, out) >= 0
<1>1. Abs(t.scale) \in Nat /\ Abs(t.pos) \in Nat /\ Abs(0) = 0
  BY DEF Transform, Abs
<1>2. /\ Centred(t) \in Transform /\ Centred(t).pos = 0 /\ Centred(t).scale = t.scale
      /\ Centred(t).rot = t.rot
  BY DEF Transform, Centred
<1>3. Room(t, out) \in Int
  BY <1>1, NeedIs DEF Room
<1>4. Room(Centred(t), out) = Room(t, out)
  BY <1>2 DEF Room, NeedAt
<1> QED BY <1>1, <1>2, <1>3, <1>4 DEF IsValid

(* The pan is brought within the photo where that is possible, and only it *)
(* is changed; what is centred stays centred.                              *)
LEMMA ClampIs ==
  ASSUME NEW t \in Transform, NEW out \in Sizes, NEW c, c = ClampTranslation(t, out)
  PROVE  /\ c \in Transform /\ c.scale = t.scale /\ c.rot = t.rot /\ c.flip = t.flip
         /\ t.pos = 0 => c.pos = 0
         /\ IsValid(Centred(t), out) => IsValid(c, out)
<1>1. CASE IsValid(t, out)
  <2>1. c = t
    BY <1>1 DEF ClampTranslation
  <2> QED BY <1>1, <2>1
<1>2. CASE ~IsValid(t, out) /\ ~IsValid(Centred(t), out)
  <2>1. c = Centred(t)
    BY <1>2 DEF ClampTranslation
  <2> QED BY <1>2, <2>1, RoomIs DEF Centred, Transform
<1>3. CASE ~IsValid(t, out) /\ IsValid(Centred(t), out)
  <2>1. Room(t, out) \in Nat
    BY <1>3, RoomIs
  <2>2. PICK p \in Int : p = IF t.pos < 0 THEN -Room(t, out) ELSE Room(t, out)
    BY <2>1
  <2>3. c = [t EXCEPT !.pos = p]
    BY <1>3, <2>2 DEF ClampTranslation
  <2>4. /\ c \in Transform /\ c.scale = t.scale /\ c.rot = t.rot /\ c.flip = t.flip
        /\ c.pos = p
    BY <2>3 DEF Transform
  <2>5. Abs(p) = Room(t, out)
    BY <2>1, <2>2 DEF Abs
  <2>6. Room(c, out) = Room(t, out)
    BY <2>4 DEF Room, NeedAt
  <2>7. IsValid(c, out)
    BY <2>1, <2>4, <2>5, <2>6 DEF IsValid
  <2>8. t.pos # 0
    <3>1. t.pos = 0 => Centred(t) = t
      BY DEF Centred, Transform
    <3> QED BY <1>3, <3>1
  <2> QED BY <2>4, <2>7, <2>8
<1> QED BY <1>1, <1>2, <1>3

(* Fitting changes scale and pan only, and neither of an upright centred   *)
(* frame at scale one.                                                     *)
LEMMA FitIs ==
  ASSUME NEW t \in Transform, NEW out \in Sizes, NEW f, f = FitTransform(t, out)
  PROVE  /\ f \in Transform /\ f.rot = t.rot /\ f.flip = t.flip
         /\ t.pos = 0 => f.pos = 0
         /\ t.rot = 0 /\ t.scale = 1 => f.scale = 1
<1>1. PICK scale : scale = MinScaleForRotation(t, out)
  OBVIOUS
<1>2. scale = None \/ scale \in Int
  BY <1>1, NeedIs DEF MinScaleForRotation, Transform
<1>3. t.rot = 0 /\ t.scale = 1 => scale = 1
  <2>1. t.rot = 0 /\ t.scale = 1 => Room(t, out) = 0
    BY NeedIs DEF Room, Abs
  <2>2. t.rot = 0 /\ t.scale = 1 => IsValid(Centred(t), out)
    BY <2>1, RoomIs
  <2> QED BY <1>1, <2>2 DEF MinScaleForRotation
<1>4. PICK u : u = IF scale = None THEN t ELSE [t EXCEPT !.scale = scale]
  OBVIOUS
<1>5. /\ u \in Transform /\ u.rot = t.rot /\ u.flip = t.flip /\ u.pos = t.pos
      /\ t.rot = 0 /\ t.scale = 1 => u.scale = 1
  BY <1>2, <1>3, <1>4 DEF Transform
<1>6. f = ClampTranslation(u, out)
  BY <1>1, <1>4 DEF FitTransform
<1> QED BY <1>5, <1>6, ClampIs

(* Fitting keeps to what a template allows.                                *)
LEMMA FitLawful ==
  ASSUME NEW rev, NEW t \in Lawful(rev), NEW out \in Sizes
  PROVE  /\ FitTransform(t, out) \in Lawful(rev)
         /\ [FitTransform(t, out) EXCEPT !.pristine = FALSE] \in Lawful(rev)
<1>1. PICK f : f = FitTransform(t, out)
  OBVIOUS
<1>2. t \in Transform
  BY DEF Lawful
<1>3. /\ f \in Transform /\ f.rot = t.rot /\ f.flip = t.flip
      /\ t.pos = 0 => f.pos = 0
      /\ t.rot = 0 /\ t.scale = 1 => f.scale = 1
  BY <1>1, <1>2, FitIs
<1>4. f \in Lawful(rev)
  BY <1>3 DEF Lawful
<1>5. [f EXCEPT !.pristine = FALSE] \in Lawful(rev)
  BY <1>4 DEF Lawful, Transform
<1> QED BY <1>1, <1>4, <1>5

(* The untouched photo is allowed by every template, and fits every size.  *)
LEMMA IdentityIs ==
  /\ Identity \in Transform /\ [Identity EXCEPT !.pristine = FALSE] \in Transform
  /\ \A rev : Identity \in Lawful(rev) /\ [Identity EXCEPT !.pristine = FALSE] \in Lawful(rev)
  /\ \A out \in Sizes : IsValid([Identity EXCEPT !.pristine = FALSE], out)
<1>1. Identity \in Transform /\ [Identity EXCEPT !.pristine = FALSE] \in Transform
  <2>1. \A p, q \in BOOLEAN :
          [pos |-> 0, scale |-> 1, rot |-> 0, flip |-> p, pristine |-> q] \in Transform
    BY DEF Transform
  <2>2. Identity \in Transform
    BY <2>1 DEF Identity
  <2>3. \A t \in Transform : [t EXCEPT !.pristine = FALSE] \in Transform
    BY DEF Transform
  <2> QED BY <2>2, <2>3
<1>2. \A rev : Identity \in Lawful(rev) /\ [Identity EXCEPT !.pristine = FALSE] \in Lawful(rev)
  BY <1>1 DEF Identity, Lawful
<1>3. ASSUME NEW out \in Sizes PROVE IsValid([Identity EXCEPT !.pristine = FALSE], out)
  <2>1. PICK t : t = [Identity EXCEPT !.pristine = FALSE]
    OBVIOUS
  <2>2. t \in Transform /\ t.pos = 0 /\ t.scale = 1 /\ t.rot = 0
    BY <1>1, <2>1 DEF Identity
  <2>3. NeedAt(t, out) = 1
    BY <2>2, NeedIs
  <2> QED BY <2>1, <2>2, <2>3 DEF IsValid, Room, Abs
<1> QED BY <1>1, <1>2, <1>3

(* A template that is switched to gets transforms it allows, within its    *)
(* photo, from any; one that locks the composition only from those it      *)
(* allows.                                                                 *)
LEMMA ProjectIs ==
  ASSUME NEW rev \in Revision, NEW t \in Transform, NEW p, p = Project(t, rev),
         ComposeLocked(rev) => t \in Lawful(rev)
  PROVE  p \in Lawful(rev) /\ (OutputSize(rev) # None => IsValid(p, OutputSize(rev)))
<1>1. PICK n : n = Normalize(t, rev)
  OBVIOUS
<1>2. n \in Lawful(rev)
  <2>1. /\ n \in Transform /\ n.pos = t.pos /\ n.scale = t.scale
        /\ n.flip = (t.flip /\ ~MirrorLocked(rev))
        /\ n.rot = IF RotateLocked(rev) THEN 0 ELSE t.rot
    <3>1. PICK flip \in BOOLEAN : flip = (t.flip /\ ~MirrorLocked(rev))
      OBVIOUS
    <3>2. PICK rot \in Int : rot = IF RotateLocked(rev) THEN 0 ELSE t.rot
      BY DEF Transform
    <3>3. n = [t EXCEPT !.flip = flip, !.rot = rot, !.pristine = FALSE]
      BY <1>1, <3>1, <3>2 DEF Normalize
    <3>4. n \in Transform /\ n.pos = t.pos /\ n.scale = t.scale /\ n.flip = flip /\ n.rot = rot
      BY <3>3 DEF Transform
    <3> QED BY <3>1, <3>2, <3>4
  <2> QED BY <2>1 DEF Lawful
<1>3. OutputSize(rev) # None => OutputSize(rev) \in Sizes
  BY DEF OutputSize, Revision, Output
<1>4. CASE OutputSize(rev) = None
  <2>1. p = n
    BY <1>1, <1>4 DEF Project
  <2> QED BY <1>2, <1>4, <2>1
<1>5. CASE OutputSize(rev) # None
  <2>1. PICK f : f = FitTransform(n, OutputSize(rev))
    OBVIOUS
  <2>2. f \in Lawful(rev)
    BY <1>2, <1>3, <1>5, <2>1, FitLawful
  <2>3. p = IF IsValid(f, OutputSize(rev)) THEN f ELSE [Identity EXCEPT !.pristine = FALSE]
    BY <1>1, <1>5, <2>1 DEF Project
  <2> QED BY <1>3, <1>5, <2>2, <2>3, IdentityIs
<1> QED BY <1>4, <1>5

(* What the editor's controls make of what a template allows, it allows,   *)
(* when the control is not locked.                                         *)
LEMMA ControlsLawful ==
  ASSUME NEW rev, NEW t \in Lawful(rev)
  PROVE  /\ ~ComposeLocked(rev) =>
              \A n \in Int : [t EXCEPT !.pos = n] \in Lawful(rev) /\ [t EXCEPT !.scale = n] \in Lawful(rev)
         /\ ~RotateLocked(rev) =>
              \A n, m \in Int : /\ [t EXCEPT !.rot = n] \in Lawful(rev)
                               /\ [t EXCEPT !.rot = n, !.scale = m] \in Lawful(rev)
         /\ ~MirrorLocked(rev) => [t EXCEPT !.flip = ~@] \in Lawful(rev)
<1>1. /\ t \in Transform /\ (MirrorLocked(rev) => ~t.flip) /\ (RotateLocked(rev) => t.rot = 0)
      /\ ComposeLocked(rev) => t.pos = 0 /\ (RotateLocked(rev) => t.scale = 1)
  BY DEF Lawful
<1>2. ASSUME ~ComposeLocked(rev), NEW n \in Int
      PROVE  [t EXCEPT !.pos = n] \in Lawful(rev) /\ [t EXCEPT !.scale = n] \in Lawful(rev)
  BY <1>1, <1>2 DEF Lawful, Transform
<1>3. ASSUME ~RotateLocked(rev), NEW n \in Int
      PROVE  [t EXCEPT !.rot = n] \in Lawful(rev)
  BY <1>1, <1>3 DEF Lawful, Transform
<1>4. ASSUME ~RotateLocked(rev), NEW n \in Int, NEW m \in Int
      PROVE  [t EXCEPT !.rot = n, !.scale = m] \in Lawful(rev)
  BY <1>1, <1>4 DEF Lawful, Transform
<1>5. ASSUME ~MirrorLocked(rev)
      PROVE  [t EXCEPT !.flip = ~@] \in Lawful(rev)
  <2>1. PICK flip \in BOOLEAN : flip = ~t.flip
    OBVIOUS
  <2>2. [t EXCEPT !.flip = flip] \in Lawful(rev)
    BY <1>1, <1>5 DEF Lawful, Transform
  <2> QED BY <2>1, <2>2
<1> QED BY <1>2, <1>3, <1>4, <1>5

-----------------------------------------------------------------------------
(* Stacks.                                                                 *)

(* What was pushed is on top.                                              *)
LEMMA PushIs ==
  ASSUME NEW S, NEW stack \in Seq(S), NEW e \in S
  PROVE  Append(stack, e) \in Seq(S) /\ Append(stack, e) # <<>> /\ Top(Append(stack, e)) = e
BY AppendProperties, LenProperties DEF Top

(* A stack is what is below its top, and the top.                          *)
LEMMA PopIs ==
  ASSUME NEW S, NEW stack \in Seq(S), stack # <<>>
  PROVE  /\ Top(stack) \in S /\ Front(stack) \in Seq(S)
         /\ stack = Append(Front(stack), Top(stack))
<1>1. PICK s \in Seq(S), e \in S : stack = Append(s, e)
  BY SequenceEmptyOrAppend
<1>2. /\ Len(s) \in Nat /\ Len(stack) = Len(s) + 1 /\ stack[Len(s) + 1] = e
      /\ \A i \in 1 .. Len(s) : stack[i] = s[i] /\ s[i] \in S
  BY <1>1, AppendProperties, LenProperties, ElementOfSeq
<1>3. Top(stack) = e
  BY <1>2 DEF Top
<1>4. Front(stack) = SubSeq(stack, 1, Len(s))
  BY <1>2 DEF Front
<1>5. /\ Front(stack) \in Seq(S) /\ Len(Front(stack)) = Len(s)
      /\ \A i \in 1 .. Len(s) : Front(stack)[i] = s[i]
  <2>1. \A i \in 1 .. Len(s) : stack[i] \in S
    BY <1>2
  <2>2. /\ SubSeq(stack, 1, Len(s)) \in Seq(S)
        /\ Len(SubSeq(stack, 1, Len(s))) = IF 1 <= Len(s) THEN Len(s) - 1 + 1 ELSE 0
        /\ \A i \in 1 .. Len(s) - 1 + 1 : SubSeq(stack, 1, Len(s))[i] = stack[1 + i - 1]
    BY <1>2, <2>1, SubSeqProperties
  <2> QED BY <1>2, <1>4, <2>2
<1>6. Front(stack) = s
  BY <1>5, SeqEqual
<1> QED BY <1>1, <1>3, <1>6

(* The last entries of a stack are a stack.                                *)
LEMMA LastOfIs ==
  ASSUME NEW S, NEW stack \in Seq(S), NEW n \in Int
  PROVE  LastOf(stack, n) \in Seq(S)
<1>1. PICK m \in Int : m = AtLeast(1, Len(stack) - n + 1) /\ m >= 1
  <2>1. Len(stack) \in Nat
    BY LenProperties
  <2> QED BY <2>1 DEF AtLeast
<1>2. \A i \in m .. Len(stack) : stack[i] \in S
  BY <1>1, LenProperties, ElementOfSeq
<1>3. SubSeq(stack, m, Len(stack)) \in Seq(S)
  BY <1>2, LenProperties, SubSeqProperties
<1> QED BY <1>1, <1>3 DEF LastOf

(* An editor state of more transforms, and its parts.                      *)
LEMMA StatesIs ==
  ASSUME NEW rev, NEW state \in States(Lawful(rev))
  PROVE  /\ state \in EditorState
         /\ state.transform \in Lawful(rev) /\ state.undo \in Seq(Lawful(rev))
         /\ state.redo \in Seq(Lawful(rev))
<1>1. /\ state.transform \in Lawful(rev) /\ state.undo \in Seq(Lawful(rev))
      /\ state.redo \in Seq(Lawful(rev))
      /\ state = [transform |-> state.transform, undo |-> state.undo, redo |-> state.redo]
  BY DEF States
<1>2. Lawful(rev) \subseteq Transform
  BY DEF Lawful
<1>3. state.undo \in Seq(Transform) /\ state.redo \in Seq(Transform)
  BY <1>1, <1>2, SeqMonotonic
<1> QED BY <1>1, <1>2, <1>3 DEF EditorState

(* Before any edit there is nothing but the untouched photo.               *)
LEMMA InitialIs ==
  /\ InitialState \in EditorState
  /\ \A rev : InitialState \in States(Lawful(rev))
<1>1. ASSUME NEW rev PROVE InitialState \in States(Lawful(rev))
  <2>1. Identity \in Lawful(rev) /\ <<>> \in Seq(Lawful(rev))
    BY IdentityIs, EmptySeq
  <2> QED BY <2>1 DEF InitialState, States
<1> QED BY <1>1, StatesIs

(* Carried over, every transform of the edits and of the stacks is what    *)
(* the template switched to allows, and within its photo.                  *)
LEMMA ReprojectIs ==
  ASSUME NEW rev \in Revision, NEW state \in EditorState,
         ComposeLocked(rev) => state \in States(Lawful(rev)),
         NEW r, r = Reproject(state, rev)
  PROVE  /\ r \in States(Lawful(rev))
         /\ OutputSize(rev) # None => \A t \in TransformsOf(r) : IsValid(t, OutputSize(rev))
<1> DEFINE Fits(t) == t \in Lawful(rev) /\ (OutputSize(rev) # None => IsValid(t, OutputSize(rev)))
<1>1. Fits(Project(state.transform, rev))
  <2>1. state.transform \in Transform
    BY DEF EditorState
  <2>2. ComposeLocked(rev) => state.transform \in Lawful(rev)
    BY StatesIs
  <2> QED BY <2>1, <2>2, ProjectIs
<1>2. ASSUME NEW stack \in Seq(Transform), ComposeLocked(rev) => stack \in Seq(Lawful(rev)),
             NEW q, q = [i \in DOMAIN stack |-> Project(stack[i], rev)]
      PROVE  q \in Seq(Lawful(rev)) /\ \A i \in DOMAIN q : Fits(q[i])
  <2>1. Len(stack) \in Nat /\ DOMAIN stack = 1 .. Len(stack)
    BY <1>2, LenProperties
  <2>2. ASSUME NEW i \in 1 .. Len(stack) PROVE Fits(Project(stack[i], rev))
    <3>1. stack[i] \in Transform /\ (ComposeLocked(rev) => stack[i] \in Lawful(rev))
      BY <1>2, <2>2, ElementOfSeq
    <3> QED BY <3>1, ProjectIs
  <2>3. q \in [1 .. Len(stack) -> Lawful(rev)] /\ \A i \in 1 .. Len(stack) : Fits(q[i])
    BY <1>2, <2>1, <2>2
  <2>4. q \in Seq(Lawful(rev))
    BY <2>1, <2>3, SeqDef
  <2> QED BY <2>3, <2>4
<1>3. /\ r.transform = Project(state.transform, rev)
      /\ r.undo = [i \in DOMAIN state.undo |-> Project(state.undo[i], rev)]
      /\ r.redo = [i \in DOMAIN state.redo |-> Project(state.redo[i], rev)]
      /\ r = [transform |-> r.transform, undo |-> r.undo, redo |-> r.redo]
  BY DEF Reproject
<1>4. /\ r.undo \in Seq(Lawful(rev)) /\ \A i \in DOMAIN r.undo : Fits(r.undo[i])
      /\ r.redo \in Seq(Lawful(rev)) /\ \A i \in DOMAIN r.redo : Fits(r.redo[i])
  <2>1. state.undo \in Seq(Transform) /\ state.redo \in Seq(Transform)
    BY DEF EditorState
  <2>2. ComposeLocked(rev) => state.undo \in Seq(Lawful(rev)) /\ state.redo \in Seq(Lawful(rev))
    BY StatesIs
  <2>3. r.undo \in Seq(Lawful(rev)) /\ \A i \in DOMAIN r.undo : Fits(r.undo[i])
    BY <1>2, <1>3, <2>1, <2>2
  <2>4. r.redo \in Seq(Lawful(rev)) /\ \A i \in DOMAIN r.redo : Fits(r.redo[i])
    BY <1>2, <1>3, <2>1, <2>2
  <2> QED BY <2>3, <2>4
<1>5. r \in States(Lawful(rev))
  BY <1>1, <1>3, <1>4 DEF States
<1>6. ASSUME NEW t \in TransformsOf(r) PROVE Fits(t)
  <2> HIDE DEF Fits
  <2>1. \/ t = r.transform
        \/ \E i \in DOMAIN r.undo : t = r.undo[i]
        \/ \E i \in DOMAIN r.redo : t = r.redo[i]
    BY <1>6 DEF TransformsOf
  <2> QED BY <1>1, <1>3, <1>4, <2>1
<1> QED BY <1>5, <1>6

-----------------------------------------------------------------------------
(* The steps keep the invariant.                                           *)

(* The template and the size the editor works at.                          *)
LEMMA OutIs ==
  ASSUME Inv
  PROVE  /\ template \in Revision
         /\ Out \in Sizes \cup {None}
         /\ \A rev \in Revision : AllowedOutputSizes(rev) \subseteq Sizes
<1>1. template \in Revision
  BY EditorAssumption DEF Inv, TypeOK
<1>2. ASSUME NEW rev \in Revision
      PROVE  rev.output.default \in Sizes /\ AllowedOutputSizes(rev) \subseteq Sizes
  <2>1. rev.output \in Output
    BY DEF Revision
  <2>2. /\ rev.output.default \in Sizes /\ rev.output.largest \in Sizes
        /\ rev.output.listed \subseteq Sizes
    BY <2>1 DEF Output
  <2> QED BY <2>2 DEF AllowedOutputSizes
<1>3. OutputSize(template) \in Sizes \cup {None}
  BY <1>1, <1>2 DEF OutputSize
<1> QED BY <1>1, <1>2, <1>3 DEF Out, ResolveOutputSize

(* A step within the editor that leaves the page and the fingers alone     *)
(* keeps the invariant when what it sets is allowed.                       *)
LEMMA EditKeeps ==
  ASSUME Inv, step = "edit", UNCHANGED <<page, gesture>>, outOfBounds' \in BOOLEAN,
         edit' \in States(Lawful(template)), shown' \in Lawful(template)
  PROVE  Inv'
<1>1. /\ step' = step /\ template' = template /\ size' = size /\ saved' = saved
      /\ down' = down /\ dragging' = dragging /\ pinching' = pinching
  BY DEF page, gesture
<1>2. edit' \in EditorState /\ shown' \in Transform
  BY StatesIs DEF Lawful
<1>3. TypeOK'
  BY <1>1, <1>2 DEF Inv, TypeOK
<1> QED BY <1>1, <1>3 DEF Inv, LawInv

(* Fitting a change and pushing what it replaces.                          *)
LEMMA ApplyKeeps ==
  ASSUME Inv, Editing, NEW next \in Lawful(template), Apply(next)
  PROVE  /\ edit' \in States(Lawful(template)) /\ outOfBounds' \in BOOLEAN
         /\ edit'.transform \in Lawful(template)
<1> DEFINE fitted == [FitTransform(next, Out) EXCEPT !.pristine = FALSE]
           undo == Append(LastOf(edit.undo, UndoLimit - 1), edit.transform)
<1>1. fitted \in Lawful(template)
  BY OutIs, FitLawful DEF Editing
<1>2. edit.transform \in Lawful(template) /\ edit.undo \in Seq(Lawful(template))
  BY StatesIs DEF Inv, LawInv, Editing
<1>3. LastOf(edit.undo, UndoLimit - 1) \in Seq(Lawful(template))
  BY <1>2, LastOfIs, EditorAssumption
<1>4. undo \in Seq(Lawful(template))
  BY <1>2, <1>3, PushIs
<1>5. edit' = [transform |-> fitted, undo |-> undo, redo |-> <<>>]
  BY DEF Apply
<1>6. outOfBounds' \in BOOLEAN
  BY DEF Apply, IsValid
<1>7. <<>> \in Seq(Lawful(template))
  BY EmptySeq
<1> HIDE DEF fitted, undo
<1> QED BY <1>1, <1>4, <1>5, <1>6, <1>7 DEF States

(* A change by click, key or field.                                        *)
LEMMA ChangeKeeps ==
  ASSUME Inv, NEW next \in Lawful(template), Change(next)
  PROVE  Inv'
<1>1. /\ edit' \in States(Lawful(template)) /\ outOfBounds' \in BOOLEAN
      /\ edit'.transform \in Lawful(template)
  BY ApplyKeeps DEF Change
<1> QED BY <1>1, EditKeeps DEF Change, Rendered, Editing

(* A pointer move: what is shown waits for a rendering.                    *)
LEMMA MovedKeeps ==
  ASSUME Inv, NEW next \in Lawful(template), Moved(next)
  PROVE  Inv'
<1>1. edit' \in States(Lawful(template)) /\ outOfBounds' \in BOOLEAN
  BY ApplyKeeps DEF Moved
<1>2. shown' \in Lawful(template)
  BY DEF Moved, Inv, LawInv, Editing
<1> QED BY <1>1, <1>2, EditKeeps DEF Moved, Editing

(* The controls.                                                           *)
LEMMA ControlsKeep ==
  ASSUME Inv,
         \/ \E p \in Pans : Pan(p) \/ Nudge(p) \/ Drag(p)
         \/ \E s \in TypedScales : Zoom(s)
         \/ Centre \/ ZoomIn \/ ZoomOut \/ Rotate90 \/ ToggleFlip
         \/ \E angle \in TypedAngles : Rotate(angle) \/ Slide(angle)
         \/ \E s \in MinScale .. MaxScale : Pinch(s)
  PROVE  Inv'
<1> DEFINE law == Lawful(template)
<1>1. /\ step = "edit" => shown \in law
      /\ shown \in Transform /\ shown.pos \in Int /\ shown.scale \in Int /\ shown.rot \in Int
  BY DEF Inv, LawInv, TypeOK, Transform
<1>2. /\ Pans \subseteq Int /\ TypedScales \subseteq Int /\ TypedAngles \subseteq Int
      /\ MaxScale \in Nat /\ MinScale = 1 /\ Quarter \in Nat
  BY EditorAssumption, EditAssumption, QuarterIs DEF MinScale
<1>3. ASSUME NEW p \in Int, Pan(p) PROVE Inv'
  <2>1. [shown EXCEPT !.pos = p] \in law
    BY <1>1, <1>2, <1>3, ControlsLawful DEF MayCompose, Pan, Change, Editing
  <2> QED BY <1>3, <2>1, ChangeKeeps DEF Pan
<1>4. ASSUME NEW d \in Pans, Nudge(d) PROVE Inv'
  <2>1. PICK p \in Int : p = shown.pos + d
    BY <1>1, <1>2
  <2>2. [shown EXCEPT !.pos = p] \in law
    BY <1>1, <1>4, ControlsLawful DEF MayCompose, Nudge, Change, Editing
  <2>3. [shown EXCEPT !.pos = @ + d] = [shown EXCEPT !.pos = p]
    BY <2>1
  <2> QED BY <1>4, <2>2, <2>3, ChangeKeeps DEF Nudge
<1>5. ASSUME NEW d \in Pans, Drag(d) PROVE Inv'
  <2>1. PICK p \in Int : p = shown.pos + d
    BY <1>1, <1>2
  <2>2. [shown EXCEPT !.pos = p] \in law
    BY <1>1, <1>5, ControlsLawful DEF MayCompose, Drag, Moved, Editing
  <2>3. [shown EXCEPT !.pos = @ + d] = [shown EXCEPT !.pos = p]
    BY <2>1
  <2> QED BY <1>5, <2>2, <2>3, MovedKeeps DEF Drag
<1>6. ASSUME NEW s \in Int, Zoom(s) PROVE Inv'
  <2>1. [shown EXCEPT !.scale = s] \in law
    BY <1>1, <1>6, ControlsLawful DEF MayCompose, Zoom, Change, Editing
  <2> QED BY <1>6, <2>1, ChangeKeeps DEF Zoom
<1>7. /\ AtMost(MaxScale, shown.scale + 1) \in Int /\ AtLeast(MinScale, shown.scale - 1) \in Int
  BY <1>1, <1>2 DEF AtMost, AtLeast
<1>8. ASSUME NEW angle \in Int, Rotate(angle) PROVE Inv'
  <2>1. [shown EXCEPT !.rot = angle] \in law
    BY <1>1, <1>8, ControlsLawful DEF MayRotate, Rotate, Change, Editing
  <2> QED BY <1>8, <2>1, ChangeKeeps DEF Rotate
<1>9. ASSUME NEW angle \in TypedAngles, Slide(angle) PROVE Inv'
  <2>1. NormalizeRotation(angle) \in Int
    BY <1>2, NormalizeIs
  <2> QED BY <1>8, <1>9, <2>1 DEF Slide
<1>10. CASE Rotate90
  <2>1. Out \in Sizes
    BY <1>10, OutIs DEF Rotate90
  <2>2. PICK rot \in Int : rot = NormalizeRotation(shown.rot + Quarter)
    BY <1>1, <1>2, NormalizeIs
  <2>3. PICK scale \in Int : scale = shown.scale * QuarterGrowth(Out)
    BY <1>1, <2>1, QuarterIs
  <2>4. [shown EXCEPT !.rot = rot, !.scale = scale] \in law
    BY <1>1, <1>10, ControlsLawful DEF MayRotate, Rotate90, Change, Editing
  <2>5. [shown EXCEPT !.rot = NormalizeRotation(@ + Quarter), !.scale = @ * QuarterGrowth(Out)]
          = [shown EXCEPT !.rot = rot, !.scale = scale]
    BY <1>1, <2>2, <2>3 DEF Transform
  <2> QED BY <1>10, <2>4, <2>5, ChangeKeeps DEF Rotate90
<1>11. CASE ToggleFlip
  <2>1. [shown EXCEPT !.flip = ~@] \in law
    BY <1>1, <1>11, ControlsLawful DEF MayMirror, ToggleFlip, Change, Editing
  <2> QED BY <1>11, <2>1, ChangeKeeps DEF ToggleFlip
<1>12. ASSUME NEW s \in MinScale .. MaxScale, Pinch(s) PROVE Inv'
  <2>1. s \in Int
    BY <1>2, <1>12
  <2>2. step = "edit" /\ ~ComposeLocked(template)
    BY <1>12 DEF MayCompose, Pinch, Moved, Editing
  <2>3. [shown EXCEPT !.scale = s] \in law
    BY <1>1, <2>1, <2>2, ControlsLawful
  <2> QED BY <1>12, <2>3, MovedKeeps DEF Pinch
<1> QED BY <1>2, <1>3, <1>4, <1>5, <1>6, <1>7, <1>8, <1>9, <1>10, <1>11, <1>12 DEF Centre, ZoomIn, ZoomOut

(* Moving along the history.                                               *)
LEMMA HistoryKeeps ==
  ASSUME Inv, Undo \/ Redo \/ Reset \/ Render
  PROVE  Inv'
<1> DEFINE law == Lawful(template)
<1>1. step = "edit"
  BY DEF Undo, Redo, Reset, Render, Editing
<1>2. /\ edit \in States(law) /\ edit.transform \in law /\ edit.undo \in Seq(law)
      /\ edit.redo \in Seq(law) /\ outOfBounds \in BOOLEAN
  BY <1>1, StatesIs DEF Inv, LawInv, TypeOK
<1>3. CASE Undo
  <2>1. Top(edit.undo) \in law /\ Front(edit.undo) \in Seq(law)
    BY <1>2, <1>3, PopIs DEF Undo, CanUndo
  <2>2. Append(edit.redo, edit.transform) \in Seq(law)
    BY <1>2, PushIs
  <2>3. edit' = [transform |-> Top(edit.undo), undo |-> Front(edit.undo),
                 redo |-> Append(edit.redo, edit.transform)]
    BY <1>3 DEF Undo
  <2>4. edit' \in States(law) /\ edit'.transform \in law
    BY <2>1, <2>2, <2>3 DEF States
  <2> QED BY <1>1, <1>2, <1>3, <2>4, EditKeeps DEF Undo, Rendered
<1>4. CASE Redo
  <2>1. Top(edit.redo) \in law /\ Front(edit.redo) \in Seq(law)
    BY <1>2, <1>4, PopIs DEF Redo, CanRedo
  <2>2. Append(edit.undo, edit.transform) \in Seq(law)
    BY <1>2, PushIs
  <2>3. edit' = [transform |-> Top(edit.redo), undo |-> Append(edit.undo, edit.transform),
                 redo |-> Front(edit.redo)]
    BY <1>4 DEF Redo
  <2>4. edit' \in States(law) /\ edit'.transform \in law
    BY <2>1, <2>2, <2>3 DEF States
  <2> QED BY <1>1, <1>2, <1>4, <2>4, EditKeeps DEF Redo, Rendered
<1>5. CASE Reset
  <2>1. Append(edit.undo, edit.transform) \in Seq(law) /\ <<>> \in Seq(law)
    BY <1>2, PushIs, EmptySeq
  <2>2. Identity \in law
    BY IdentityIs
  <2>3. edit' = [transform |-> Identity, undo |-> Append(edit.undo, edit.transform), redo |-> <<>>]
    BY <1>5 DEF Reset
  <2>4. edit' \in States(law) /\ edit'.transform \in law
    BY <2>1, <2>2, <2>3 DEF States
  <2> QED BY <1>1, <1>2, <1>5, <2>4, EditKeeps DEF Reset, Rendered
<1>6. CASE Render
  <2>1. shown' \in law /\ edit' \in States(law) /\ outOfBounds' \in BOOLEAN
    BY <1>2, <1>6 DEF Render
  <2> QED BY <1>1, <1>6, <2>1, EditKeeps DEF Render
<1> QED BY <1>3, <1>4, <1>5, <1>6

(* Entering the editor from either side of it.                             *)
LEMMA MountKeeps ==
  ASSUME Inv, Mount
  PROVE  Inv'
<1> DEFINE law == Lawful(template)
<1>1. saved # None => /\ saved \in States(law) /\ saved.transform \in law /\ saved.undo \in Seq(law)
                      /\ saved.redo \in Seq(law)
  BY StatesIs DEF Inv, LawInv
<1>2. StartTransform \in law
  <2>1. CASE Out # None /\ ComposeLocked(template) /\ saved # None
    <3>1. PICK u : u = [Identity EXCEPT !.rot = saved.transform.rot,
                                        !.flip = saved.transform.flip, !.pristine = FALSE]
      OBVIOUS
    <3>2. u = [pos |-> 0, scale |-> 1, rot |-> saved.transform.rot,
               flip |-> saved.transform.flip, pristine |-> FALSE]
      BY <3>1 DEF Identity
    <3>3. saved.transform \in Transform /\ (MirrorLocked(template) => ~saved.transform.flip)
          /\ (RotateLocked(template) => saved.transform.rot = 0)
      BY <1>1, <2>1 DEF Lawful
    <3>4. u \in law
      <4>1. \A flip \in BOOLEAN, rot \in Int :
              [pos |-> 0, scale |-> 1, rot |-> rot, flip |-> flip, pristine |-> FALSE] \in Transform
        BY DEF Transform
      <4>2. saved.transform.flip \in BOOLEAN /\ saved.transform.rot \in Int
        BY <3>3 DEF Transform
      <4>3. u \in Transform
        BY <3>2, <4>1, <4>2
      <4> QED BY <3>2, <3>3, <4>3 DEF Lawful
    <3>5. FitTransform(u, Out) \in law
      BY <2>1, <3>4, OutIs, FitLawful
    <3> QED BY <2>1, <3>1, <3>5 DEF StartTransform
  <2>2. CASE ~(Out # None /\ ComposeLocked(template) /\ saved # None)
    BY <1>1, <2>2, IdentityIs DEF StartTransform
  <2> QED BY <2>1, <2>2
<1>3. PICK before \in States(law) : before = IF saved = None THEN InitialState ELSE saved
  BY <1>1, InitialIs
<1>4. edit' = [before EXCEPT !.transform = StartTransform]
  BY <1>3 DEF Mount
<1>5. edit' \in States(law)
  BY <1>2, <1>3, <1>4 DEF States
<1>6. shown' \in law /\ outOfBounds' \in BOOLEAN /\ step' = "edit"
      /\ template' = template /\ size' = size /\ saved' = saved
      /\ down' = down /\ dragging' = dragging /\ pinching' = pinching
  BY <1>2 DEF Mount, gesture, IsValid
<1>7. edit' \in EditorState /\ shown' \in Transform
  BY <1>5, <1>6, StatesIs DEF Lawful
<1>8. TypeOK'
  BY <1>6, <1>7 DEF Inv, TypeOK
<1> QED BY <1>5, <1>6, <1>8 DEF Inv, LawInv

(* Leaving the editor for either side of it.                               *)
LEMMA LeaveKeeps ==
  ASSUME Inv, Done \/ Back
  PROVE  Inv'
<1>1. PICK to \in {"review", "final"}, state \in States(Lawful(template)) : Leave(to, state)
  <2>1. step = "edit"
    BY DEF Done, Back, Leave
  <2>2. edit \in States(Lawful(template)) /\ InitialState \in States(Lawful(template))
        /\ (saved # None => saved \in States(Lawful(template)))
    BY <2>1, InitialIs DEF Inv, LawInv
  <2>3. PICK kept \in States(Lawful(template)) : kept = IF saved = None THEN InitialState ELSE saved
    BY <2>2
  <2> QED BY <2>2, <2>3 DEF Done, Back
<1>2. /\ step' = to /\ saved' = state /\ template' = template /\ size' = size /\ edit' = edit
      /\ shown' = shown /\ outOfBounds' = outOfBounds
      /\ down' = {} /\ dragging' = FALSE /\ pinching' = FALSE
  BY <1>1 DEF Leave
<1>3. saved' \in EditorState
  BY <1>1, <1>2, StatesIs
<1>4. TypeOK'
  BY <1>1, <1>2, <1>3 DEF Inv, TypeOK
<1>5. IsFiniteSet(down')
  BY <1>2, FS_EmptySet
<1> QED BY <1>1, <1>2, <1>4, <1>5 DEF Inv, LawInv

(* Another size of the same template.                                      *)
LEMMA SizeKeeps ==
  ASSUME Inv, UseDefaultSize \/ \E s \in Sizes : ChangeSize(s)
  PROVE  Inv'
<1>1. /\ step' = step /\ template' = template /\ saved' = saved /\ edit' = edit
      /\ shown' = shown /\ outOfBounds' = outOfBounds
      /\ down' = down /\ dragging' = dragging /\ pinching' = pinching
      /\ size' \in AllowedOutputSizes(template) \cup {None}
  BY DEF UseDefaultSize, ChangeSize, gesture
<1>2. TypeOK'
  BY <1>1 DEF Inv, TypeOK
<1> QED BY <1>1, <1>2 DEF Inv, LawInv

(* Another template, or the same one selected again.                       *)
LEMMA SwitchKeeps ==
  ASSUME Inv, NEW rev \in Templates, SwitchTemplate(rev)
  PROVE  /\ Inv'
         /\ template' = rev /\ step = "review" /\ step' = "review"
         /\ saved' # None /\ OutputSize(rev) # None =>
              \A t \in TransformsOf(saved') : IsValid(t, OutputSize(rev))
<1>1. /\ step = "review" /\ step' = step /\ template' = rev /\ size' = None /\ edit' = edit
      /\ shown' = shown /\ outOfBounds' = outOfBounds
      /\ down' = down /\ dragging' = dragging /\ pinching' = pinching
  BY DEF SwitchTemplate, gesture
<1>2. rev \in Revision
  BY EditorAssumption
<1>3. \/ saved' = None
      \/ saved' # None /\ saved' \in States(Lawful(rev)) /\ saved' \in EditorState
           /\ (OutputSize(rev) # None =>
                \A t \in TransformsOf(saved') : IsValid(t, OutputSize(rev)))
  <2>1. CASE saved = None \/ (rev # template /\ ComposeLocked(rev))
    BY <2>1 DEF SwitchTemplate
  <2>2. CASE saved # None /\ ~(rev # template /\ ComposeLocked(rev))
    <3>1. saved \in EditorState /\ (ComposeLocked(rev) => saved \in States(Lawful(rev)))
      BY <2>2 DEF Inv, TypeOK, LawInv
    <3>2. saved' = Reproject(saved, rev)
      BY <2>2 DEF SwitchTemplate
    <3> QED BY <1>2, <3>1, <3>2, ReprojectIs, StatesIs
  <2> QED BY <2>1, <2>2
<1>4. TypeOK'
  BY <1>1, <1>3 DEF Inv, TypeOK
<1> QED BY <1>1, <1>3, <1>4 DEF Inv, LawInv

(* Fingers on the canvas: a pinch takes two of them, a drag one.           *)
LEMMA FingersKeep ==
  ASSUME Inv, NEW f \in Fingers, PointerDown(f) \/ PointerUp(f)
  PROVE  Inv'
<1>1. /\ step = "edit" /\ step' = step /\ template' = template /\ size' = size /\ saved' = saved
      /\ edit' = edit /\ shown' = shown /\ outOfBounds' = outOfBounds
  BY DEF PointerDown, PointerUp, Editing, page
<1>2. /\ IsFiniteSet(down) /\ down \subseteq Fingers /\ pinching \in BOOLEAN /\ dragging \in BOOLEAN
      /\ Cardinality(down) \in Nat /\ (pinching => Cardinality(down) >= 2)
      /\ (dragging => down # {})
  BY FS_CardinalityType DEF Inv, TypeOK
<1>3. /\ IsFiniteSet(down') /\ down' \subseteq Fingers /\ pinching' \in BOOLEAN
      /\ dragging' \in BOOLEAN /\ (pinching' => Cardinality(down') >= 2)
      /\ (dragging' => down' # {})
  <2>1. CASE PointerDown(f)
    <3>1. /\ down' = down \cup {f} /\ f \notin down
          /\ \/ Cardinality(down') = 2 /\ pinching' = TRUE /\ dragging' = FALSE
             \/ dragging' = TRUE /\ pinching' = pinching
      BY <2>1 DEF PointerDown
    <3>2. IsFiniteSet(down') /\ Cardinality(down') = Cardinality(down) + 1
      BY <1>2, <3>1, FS_AddElement
    <3>3. (Cardinality(down') = 2 \/ Cardinality(down) >= 2) => Cardinality(down') >= 2
      BY <1>2, <3>2
    <3>4. pinching' \in BOOLEAN /\ dragging' \in BOOLEAN
      BY <1>2, <3>1
    <3>5. pinching' => Cardinality(down') >= 2
      BY <1>2, <3>1, <3>3, Zenon
    <3> QED BY <1>2, <3>1, <3>2, <3>4, <3>5
  <2>2. CASE PointerUp(f)
    <3>1. /\ down' = down \ {f}
          /\ pinching' = (pinching /\ Cardinality(down') >= 2)
          /\ dragging' = (dragging /\ down' # {})
      BY <2>2 DEF PointerUp
    <3>2. IsFiniteSet(down')
      BY <1>2, <3>1, FS_RemoveElement
    <3> QED BY <1>2, <3>1, <3>2
  <2> QED BY <2>1, <2>2
<1>4. TypeOK'
  BY <1>1, <1>3 DEF Inv, TypeOK
<1> QED BY <1>1, <1>3, <1>4 DEF Inv, LawInv

(* Before any step there is the untouched photo and no finger.             *)
LEMMA InitKeeps == Init => Inv
<1> SUFFICES ASSUME Init PROVE Inv
  OBVIOUS
<1>1. edit \in EditorState /\ shown \in Transform
  BY InitialIs, IdentityIs DEF Init
<1>2. TypeOK
  BY <1>1 DEF Init, TypeOK
<1> QED BY <1>2, FS_EmptySet DEF Init, Inv, LawInv

(* Every step keeps the invariant.                                         *)
LEMMA NextKeeps == Inv /\ [Next]_vars => Inv'
<1> SUFFICES ASSUME Inv, [Next]_vars PROVE Inv'
  OBVIOUS
<1>1. CASE Confirm \/ BackToEdit
  BY <1>1, MountKeeps DEF Confirm, BackToEdit
<1>2. CASE Done \/ Back
  BY <1>2, LeaveKeeps
<1>3. CASE UseDefaultSize \/ \E s \in Sizes : ChangeSize(s)
  BY <1>3, SizeKeeps
<1>4. CASE \E rev \in Templates : SwitchTemplate(rev)
  BY <1>4, SwitchKeeps
<1>5. CASE \/ \E p \in Pans : Pan(p) \/ Nudge(p) \/ Drag(p)
           \/ \E s \in TypedScales : Zoom(s)
           \/ Centre \/ ZoomIn \/ ZoomOut \/ Rotate90 \/ ToggleFlip
           \/ \E angle \in TypedAngles : Rotate(angle) \/ Slide(angle)
           \/ \E s \in MinScale .. MaxScale : Pinch(s)
  BY <1>5, ControlsKeep
<1>6. CASE Undo \/ Redo \/ Reset \/ Render
  BY <1>6, HistoryKeeps
<1>7. CASE \E f \in Fingers : PointerDown(f) \/ PointerUp(f)
  BY <1>7, FingersKeep
<1>8. CASE UNCHANGED vars
  BY <1>8 DEF vars, page, gesture, Inv, TypeOK, LawInv
<1> QED BY <1>1, <1>2, <1>3, <1>4, <1>5, <1>6, <1>7, <1>8 DEF Next

(* The invariant.                                                          *)
LEMMA Invariant == Spec => []Inv
BY InitKeeps, NextKeeps, PTL DEF Spec

-----------------------------------------------------------------------------
(* What follows from the invariant.                                        *)

(* Every variable keeps its type, no pinch goes on with one finger and no  *)
(* drag with none: what EditorStep's refs and state hold.                  *)
THEOREM TypeCorrect == Spec => []TypeOK
<1>1. Inv => TypeOK
  BY DEF Inv
<1> QED BY <1>1, Invariant, PTL

(* What the template on screen forbids is in none of the transforms that   *)
(* CreatePage keeps or EditorStep edits, can undo to or can redo.          *)
THEOREM LocksAlwaysHold == Spec => []LocksHold
<1>1. ASSUME NEW rev, NEW state \in States(Lawful(rev)) PROVE Respects(state, rev)
  <2>1. ASSUME NEW t \in TransformsOf(state) PROVE t \in Lawful(rev)
    <3>1. /\ state.transform \in Lawful(rev) /\ state.undo \in Seq(Lawful(rev))
          /\ state.redo \in Seq(Lawful(rev))
      BY StatesIs
    <3>2. /\ \A i \in DOMAIN state.undo : state.undo[i] \in Lawful(rev)
          /\ \A i \in DOMAIN state.redo : state.redo[i] \in Lawful(rev)
      BY <3>1, LenProperties, ElementOfSeq
    <3> QED BY <2>1, <3>1, <3>2 DEF TransformsOf
  <2> QED BY <2>1 DEF Respects, Lawful
<1>2. Inv => LocksHold
  BY <1>1 DEF Inv, LawInv, LocksHold
<1> QED BY <1>2, Invariant, PTL

(* Within the editor a step that changes the edits leaves the transform it *)
(* replaced on top of a stack; from the redo stack it is got back.         *)
THEOREM ChangesCanBeUndone == Spec => EveryChangeCanBeUndone
<1> DEFINE kept == step = "edit" /\ step' = "edit" /\ edit' # edit =>
                     \/ edit'.undo # <<>> /\ Top(edit'.undo) = edit.transform
                     \/ edit'.redo # <<>> /\ Top(edit'.redo) = edit.transform
                          /\ edit.undo = Append(edit'.undo, edit'.transform)
<1>1. ASSUME Inv, [Next]_vars PROVE [kept]_vars
  <2> SUFFICES ASSUME step = "edit", step' = "edit", edit' # edit, Next PROVE kept
    BY <1>1 DEF vars
  <2>1. /\ edit.transform \in Lawful(template) /\ edit.undo \in Seq(Lawful(template))
        /\ edit.redo \in Seq(Lawful(template))
    BY <1>1, StatesIs DEF Inv, LawInv
  <2>2. ASSUME NEW next, Apply(next) PROVE kept
    <3>1. UndoLimit - 1 \in Int
      BY EditorAssumption
    <3>2. LastOf(edit.undo, UndoLimit - 1) \in Seq(Lawful(template))
      BY <2>1, <3>1, LastOfIs
    <3>3. edit'.undo = Append(LastOf(edit.undo, UndoLimit - 1), edit.transform)
      BY <2>2 DEF Apply
    <3>4. edit'.undo # <<>> /\ Top(edit'.undo) = edit.transform
      BY <2>1, <3>2, <3>3, PushIs
    <3> QED BY <3>4
  <2>3. CASE Undo
    <3>1. /\ edit'.transform = Top(edit.undo) /\ edit'.undo = Front(edit.undo)
          /\ edit'.redo = Append(edit.redo, edit.transform) /\ edit.undo # <<>>
      BY <2>3 DEF Undo, CanUndo
    <3>2. edit'.redo # <<>> /\ Top(edit'.redo) = edit.transform
      BY <2>1, <3>1, PushIs
    <3>3. edit.undo = Append(Front(edit.undo), Top(edit.undo))
      BY <2>1, <3>1, PopIs
    <3>4. edit.undo = Append(edit'.undo, edit'.transform)
      BY <3>1, <3>3
    <3> QED BY <3>2, <3>4
  <2>4. CASE Redo \/ Reset
    <3>1. edit'.undo = Append(edit.undo, edit.transform)
      BY <2>4 DEF Redo, Reset
    <3>2. edit'.undo # <<>> /\ Top(edit'.undo) = edit.transform
      BY <2>1, <3>1, PushIs
    <3> QED BY <3>2
  <2>5. \/ Undo \/ Redo \/ Reset \/ \E next : Apply(next)
    BY DEF Next, Confirm, BackToEdit, Mount, Done, Back, Leave, UseDefaultSize, ChangeSize,
       SwitchTemplate, Pan, Centre, Nudge, Drag, Zoom, ZoomIn, ZoomOut, Rotate90, ToggleFlip, Rotate, Slide,
       Render, PointerDown, PointerUp, Pinch, Change, Moved
  <2> QED BY <2>2, <2>3, <2>4, <2>5
<1> QED BY <1>1, Invariant, PTL DEF Spec, EveryChangeCanBeUndone

(* After a switch of template every transform that is kept lies within the *)
(* photo at the size the new template asks for.                            *)
THEOREM SwitchedEditsAreValid == Spec => SwitchedEditsFit
<1> DEFINE fit == template' # template /\ saved' # None /\ OutputSize(template') # None =>
                    \A t \in TransformsOf(saved') : IsValid(t, OutputSize(template'))
<1>1. ASSUME Inv, [Next]_vars PROVE [fit]_vars
  <2> SUFFICES ASSUME Next, template' # template PROVE fit
    BY <1>1
  <2>1. PICK rev \in Templates : SwitchTemplate(rev)
    BY DEF Next, Confirm, BackToEdit, Mount, Done, Back, Leave, UseDefaultSize, ChangeSize, Pan, Centre,
       Nudge, Drag, Zoom, ZoomIn, ZoomOut, Rotate90, ToggleFlip, Rotate, Slide, Undo, Redo, Reset, Render,
       PointerDown, PointerUp, Pinch, Change, Moved, page
  <2> QED BY <1>1, <2>1, SwitchKeeps
<1> QED BY <1>1, Invariant, PTL DEF Spec, SwitchedEditsFit
=============================================================================

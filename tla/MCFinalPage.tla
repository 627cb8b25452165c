----------------------------- MODULE MCFinalPage -----------------------------
(* Instances of FinalPage for TLC: capped templates without rules, and     *)
(* templates without a cap, one for each rule.                             *)
EXTENDS FinalPage

Canvas == [width |-> 4, height |-> 4]
LargerCanvas == [width |-> 6, height |-> 6]

Rules ==
  [metric : {"chin_bottom_margin", "eye_line_from_bottom", "head_height"}, space : {"px"},
   min : {None, 1, 2}, max : {None, 2, 3}]
  \cup [metric : {"chin_bottom_margin"}, space : {"ratio"}, min : {None, 1}, max : {1, 2}]
  \cup [metric : {"head_height", "face_left_margin"}, space : {"mm", "degrees"},
        min : {None}, max : {1}]
  \cup [metric : {"face_center_offset_x"}, space : {"mm"}, min : {-1, 0, 1}, max : {0, 1}]

Plain(output, rules) ==
  [output |-> output, capped |-> FALSE, rules |-> rules, size |-> Canvas, larger |-> None,
   active |-> output = "pixels", manual |-> rules = {}]

Catalogue ==
  {[Plain("pixels", {}) EXCEPT !.capped = TRUE, !.larger = LargerCanvas],
   [Plain("physical", {}) EXCEPT !.capped = TRUE], Plain("portal", {})}
  \cup {Plain(IF r.space = "mm" THEN "physical" ELSE "pixels", {r}) : r \in Rules}

Portraits == {[chin |-> c, eyes |-> c - 1, hairline |-> 1, centre |-> c] : c \in {0, 2, 3}}
             \cup {[chin |-> 4, eyes |-> 3, hairline |-> -1, centre |-> 2]}

(* A recheck finds the face and the pose, no model at all, or nobody.      *)
SomeRechecks ==
  [pose : {"ready"}, exposure : {{}}, background : {{}}, face : Portraits]
  \cup {[pose |-> None, exposure |-> {"dark"}, background |-> {"shadow"}, face |-> None],
        [pose |-> "adjust", exposure |-> None, background |-> None, face |-> None], None}

Segment(kind) == [kind |-> kind, dpi |-> 72]
Headers == {<<Segment("jfif"), Segment("scan")>>, <<Segment("scan"), Segment("jfif")>>,
            <<Segment("exif"), Segment("jfif"), Segment("jfif")>>}

Able == [canvas |-> TRUE, valid |-> TRUE, encoder |-> TRUE, pixels |-> TRUE,
         segments |-> <<Segment("jfif"), Segment("scan")>>]
AbleAndNot ==
  {Able, [Able EXCEPT !.canvas = FALSE], [Able EXCEPT !.valid = FALSE],
   [Able EXCEPT !.encoder = FALSE], [Able EXCEPT !.pixels = FALSE]}
  \cup {[Able EXCEPT !.segments = h] : h \in Headers}
=============================================================================

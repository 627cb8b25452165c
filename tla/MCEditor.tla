------------------------------ MODULE MCEditor ------------------------------
(* Instances of Editor for TLC: a portrait photo, which a quarter turn     *)
(* fits only when zoomed to twice its size, and not at all at the wide     *)
(* size.                                                                   *)
EXTENDS Editor, TLC

MCNeed ==
  [small |-> [a \in 0 .. 3 |-> IF a % 2 = 0 THEN 1 ELSE 2],
   large |-> [a \in 0 .. 3 |-> IF a % 2 = 0 THEN 1 ELSE 2],
   wide  |-> [a \in 0 .. 3 |-> IF a % 2 = 0 THEN 1 ELSE 4]]

Of(kind, default, largest) ==
  [kind |-> kind, default |-> default, largest |-> largest, listed |-> {}, inRange |-> {}]

Free == [id |-> "free", output |-> [Of("ranged", "small", "large") EXCEPT
           !.listed = {"small", "large", "wide"}, !.inRange = {"small", "large"}],
         crop |-> "allowed", rotate |-> "allowed", mirror |-> "warn"]
Wide == [id |-> "wide", output |-> Of("pixels", "wide", "wide"),
         crop |-> "allowed", rotate |-> "allowed", mirror |-> "forbidden"]
Upright == [id |-> "upright", output |-> Of("ranged", "small", "large"),
            crop |-> "allowed", rotate |-> "forbidden", mirror |-> "allowed"]
Locked == [id |-> "locked", output |-> Of("pixels", "small", "small"),
           crop |-> "forbidden", rotate |-> "warn", mirror |-> "allowed"]
Fixed == [id |-> "fixed", output |-> Of("pixels", "large", "large"),
          crop |-> "forbidden", rotate |-> "forbidden", mirror |-> "forbidden"]
Portal == [id |-> "portal", output |-> Of("portal", "small", "small"),
           crop |-> "allowed", rotate |-> "allowed", mirror |-> "forbidden"]

Catalogue == {Free, Wide, Upright, Locked, Fixed, Portal}
SizeNames == {"small", "large", "wide"}
Angles == {-1, 0, 1, 2}
Distances == {-1, 1}
FewScales == {-1, 0, 3}

Symmetry == Permutations(Fingers)
=============================================================================

----------------------------- MODULE MCPictures -----------------------------
(* Pictures with the files of MCSourceLoading, templates of every kind and *)
(* JPEGs near every limit of the server, with lengths that grow with the   *)
(* quality, that never fit, and that do not grow at all.                   *)
EXTENDS Pictures, MCSourceLoading

Square == Size(6, 6)
Wide == Size(6, 4)
Large == Size(9, 6)

Exact(kind, size) == [kind |-> kind, default |-> size, min |-> size, max |-> size,
                      aspect |-> size, listed |-> {}, ppi |-> 300]
Ranged(default, max, listed) ==
  [Exact("ranged", default) EXCEPT !.min = Size(3, 2), !.max = max, !.aspect = Size(3, 2),
                                   !.listed = listed]

SomeRevisions ==
  [output : {Exact("pixels", Wide), Exact("physical", Wide), Exact("portal", Wide),
             Ranged(Wide, Large, {}), Ranged(Wide, Large, {Wide, Square, Size(3, 2)}),
             Ranged(Square, Large, {}), Ranged(Size(3, 2), Large, {Large})},
   maxBytes : {Unset, 2, 4}]

Lengths ==
  {[q \in Qualities |-> 3], [q \in Qualities |-> IF q > 60 THEN 3 ELSE 2],
   [q \in Qualities |-> IF q \in {44, 52} THEN 1 ELSE 4], [q \in Qualities |-> IF q = 40 THEN 2 ELSE 4]}

Sent(size) == [bytes |-> 1, format |-> "jpeg", frames |-> 1, size |-> size, turned |-> FALSE]
Pixels == {Square, Wide, Large, Size(4, 6), Size(3, 2)}

SomeUploads ==
  {[bytes |-> p.bytes, format |-> p.format, frames |-> p.frames, size |-> p.size,
    turned |-> p.turned, length |-> l] :
     p \in {Sent(s) : s \in Pixels} \cup {[Sent(s) EXCEPT !.turned = TRUE] : s \in Pixels}
           \cup {[Sent(Wide) EXCEPT !.bytes = b] : b \in 2..4}
           \cup {[Sent(Wide) EXCEPT !.format = "other"], [Sent(Wide) EXCEPT !.frames = 2],
                 Sent(Size(20, 1)), Sent(Size(10, 10))},
     l \in Lengths}
=============================================================================

--------------------------- MODULE MCSourceLoading ---------------------------
(* Photos of a few shapes with every orientation, in every format, with    *)
(* the metadata in every place; and files at and beyond each limit.  The   *)
(* limits are smaller than the program's, those of WebP's misread          *)
(* dimensions aside.                                                       *)
EXTENDS SourceLoading

Part(kind, size) == [kind |-> kind, width |-> size.width, height |-> size.height,
                     order |-> "little", orientation |-> 1]
Exif(order, tag) == [Part("exif", Size(0, 0)) EXCEPT !.order = order, !.orientation = tag]

Shapes == {Size(4, 2), Size(500, 90), Size(256, 64), Size(300, 200)}

JpegParts(size, exif) ==
  {<<exif, Part("frame", size), Part("data", size)>>, <<Part("other", size), exif, Part("frame", size)>>,
   <<Part("frame", size), exif, Part("data", size)>>}
PngParts(size, exif) ==
  {<<exif, Part("data", size)>>, <<Part("data", size), exif>>}
WebpParts(size, exif) ==
  {<<Part("extended", size), Part("lossy", size), exif>>, <<Part("frame", size)>>,
   <<Part("lossy", size)>>, <<Part("extended", size), exif, Part("frame", size)>>}

Photo(format, parts, size, decodes) ==
  [format |-> format, bytes |-> 1, parts |-> parts, inWindow |-> Len(parts),
   pixels |-> size, decodes |-> decodes]

Photos ==
  UNION {UNION {UNION {
    {Photo("jpeg", p, size, d) : p \in JpegParts(size, exif)}
    \cup {Photo("png", p, size, d) : p \in PngParts(size, exif)}
    \cup {Photo("webp", p, size, d) : p \in WebpParts(size, exif)}
    : d \in {{"plain", "turned"}, {"turned"}}}
    : exif \in {Exif(order, tag) : order \in {"little", "big"}, tag \in 1..8}}
    : size \in Shapes}

Jpeg(size) == Photo("jpeg", <<Part("frame", size)>>, size, {"plain", "turned"})
Others ==
  {[Jpeg(Size(4, 2)) EXCEPT !.bytes = MaxBytes + 1], Jpeg(Size(MaxEdge + 1, 2)),
   Jpeg(Size(MaxEdge, MaxEdge)), [Jpeg(Size(4, 2)) EXCEPT !.decodes = {}],
   [Jpeg(Size(4, 2)) EXCEPT !.inWindow = 0], [Jpeg(Size(4, 2)) EXCEPT !.format = "heif"],
   [Jpeg(Size(4, 2)) EXCEPT !.format = "none"]}

SampleFiles == Photos \cup Others
=============================================================================

----------------------------- MODULE SourcePhoto -----------------------------
(***************************************************************************)
(* Loading a photo file (frontend/src/image/source.ts, header.ts, exif.ts, *)
(* as create/source-step.tsx uses it): what is read of its header, limits *)
(* applied before it is decoded, and how the raw pixels are turned and     *)
(* scaled onto the working bitmap.                                         *)
(*                                                                         *)
(* A file is its size in bytes, its format, the parts of it (JPEG          *)
(* segments, PNG chunks after IHDR, WebP chunks) of which the first        *)
(* inWindow lie in the bytes that are read, and the pixels a decoder finds *)
(* in it.  A part says what it is: "exif", with its byte order and the     *)
(* orientation; "frame" and "extended", with dimensions; "lossy", the      *)
(* plain VP8 chunk; "data", compressed pixels; or "other".  decodes lists  *)
(* the ways in which the decoder takes it: "plain", with orientation       *)
(* "none", and "turned", as its metadata say.                              *)
(***************************************************************************)
EXTENDS Integers, Sequences, FiniteSetsExt

CONSTANTS
  MaxBytes, MaxPixels, MaxEdge, MaxWorkPixels,  (* SourceLimits            *)
  None          (* no header, no part, no complaint                        *)

ASSUME SourceAssumption == {MaxBytes, MaxPixels, MaxEdge, MaxWorkPixels} \subseteq Nat \ {0}

FilePart ==
  [kind : {"exif", "frame", "extended", "lossy", "data", "other"}, order : {"little", "big"},
   orientation : Nat, width : Nat, height : Nat]
File ==
  [bytes : Nat, format : {"jpeg", "png", "webp", "heif", "none"}, parts : Seq(FilePart),
   inWindow : Nat, pixels : [width : Nat \ {0}, height : Nat \ {0}],
   decodes : SUBSET {"plain", "turned"}]

Size(width, height) == [width |-> width, height |-> height]
Point(x, y) == [x |-> x, y |-> y]

-----------------------------------------------------------------------------
(* header.ts.                                                              *)

(* The parts up to and including the first of the kinds that stop the walk.*)
Walk(file, stops) ==
  LET seen == SubSeq(file.parts, 1, file.inWindow)
      at == {i \in DOMAIN seen : seen[i].kind \in stops}
  IN  IF at = {} THEN seen ELSE SubSeq(seen, 1, Min(at))

LastOf(walked, kinds) ==
  LET at == {i \in DOMAIN walked : walked[i].kind \in kinds}
  IN  IF at = {} THEN None ELSE walked[Max(at)]

(* The magic number is compared in little-endian order only, so that of a  *)
(* big-endian block is taken for a foreign one.                            *)
TiffOrientation(exif) ==
  IF exif # None /\ exif.order = "little" THEN exif.orientation ELSE 1

(* Where the dimensions of a lossy frame are looked for, its start code is *)
(* found, and the low byte of its width.                                   *)
VP8Size(frame) == Size(413, 42 + 256 * (frame.width % 64))

DimensionsOf(part) ==
  IF part = None THEN None
  ELSE IF part.kind = "lossy" THEN VP8Size(part) ELSE Size(part.width, part.height)

ParseHeader(file) ==
  LET jpeg == Walk(file, {"frame", "data"})
      png == Walk(file, {"exif", "data"})
      webp == Walk(file, {"exif", "lossy", "frame"})
      Header(dimensions, exif) ==
        IF dimensions = None THEN None
        ELSE [size |-> dimensions, orientation |-> TiffOrientation(exif)]
  IN  CASE file.format = "jpeg" ->
             Header(DimensionsOf(LastOf(jpeg, {"frame"})), LastOf(jpeg, {"exif"}))
        [] file.format = "png" -> Header(file.pixels, LastOf(png, {"exif"}))
        [] file.format = "webp" ->
             Header(DimensionsOf(LastOf(webp, {"extended", "lossy", "frame"})),
                    LastOf(webp, {"exif"}))
        [] OTHER -> None

-----------------------------------------------------------------------------
(* exif.ts.                                                                *)

NormalizedSize(size, orientation) ==
  IF orientation \in 5..8 THEN Size(size.height, size.width) ELSE size

(* applyTransform after orientationTransform: where the raw point p lies   *)
(* on the normalized canvas.                                               *)
Oriented(orientation, raw, p) ==
  CASE orientation = 2 -> Point(raw.width - p.x, p.y)
    [] orientation = 3 -> Point(raw.width - p.x, raw.height - p.y)
    [] orientation = 4 -> Point(p.x, raw.height - p.y)
    [] orientation = 5 -> Point(p.y, p.x)
    [] orientation = 6 -> Point(p.y, raw.width - p.x)
    [] orientation = 7 -> Point(raw.height - p.y, raw.width - p.x)
    [] orientation = 8 -> Point(raw.height - p.y, p.x)
    [] OTHER -> p

Corners(size) == [x : {0, size.width}, y : {0, size.height}]

-----------------------------------------------------------------------------
(* source.ts.                                                              *)

(* What a decoder that honours the metadata turns the file by.             *)
Tag(file) ==
  LET exif == LastOf(file.parts, {"exif"})
  IN  IF exif = None THEN 1 ELSE exif.orientation

(* Older browsers refuse the option, turn the pixels themselves and leave  *)
(* nothing to apply.                                                       *)
Fallback(file) == "plain" \notin file.decodes
Decoded(file) == IF Fallback(file) THEN NormalizedSize(file.pixels, Tag(file)) ELSE file.pixels
ApplyTwice(file) == ParseHeader(file).orientation
AppliedOrientation(file) == IF Fallback(file) THEN 1 ELSE ParseHeader(file).orientation

(* Math.round of the square root of n / d, which is at most top.           *)
RoundedRoot(n, d, top) ==
  CHOOSE r \in 0..top : /\ r = 0 \/ (2 * r - 1) * (2 * r - 1) * d <= 4 * n
                        /\ 4 * n < (2 * r + 1) * (2 * r + 1) * d

(* Both edges shrink alike until the area is that of the budget.           *)
WorkingSize(size) ==
  IF size.width * size.height <= MaxWorkPixels THEN size
  ELSE Size(Max({1, RoundedRoot(size.width * MaxWorkPixels, size.height, size.width)}),
            Max({1, RoundedRoot(size.height * MaxWorkPixels, size.width, size.height)}))

(* The working bitmap: the canvas before scaling, the canvas, and where    *)
(* the corners of the decoded pixels are drawn before scaling.             *)
Normalize(file) ==
  LET raw == Decoded(file)
      orientation == AppliedOrientation(file)
      normalized == NormalizedSize(raw, orientation)
  IN  [normalized |-> normalized, canvas |-> WorkingSize(normalized),
       drawn |-> [p \in Corners(raw) |-> Oriented(orientation, raw, p)]]

(* SourceErrorKind.                                                        *)
LoadErrors ==
  {"file-too-large", "heif-unsupported", "unsupported-format", "dimension-too-large", "decode-failed"}

(* The first complaint of loadSourceImage, or None.                        *)
LoadError(file) ==
  LET head == ParseHeader(file)
  IN  IF file.bytes > MaxBytes THEN "file-too-large"
      ELSE IF file.format = "heif" THEN "heif-unsupported"
      ELSE IF head = None THEN "unsupported-format"
      ELSE IF head.size.width * head.size.height > MaxPixels
              \/ Max({head.size.width, head.size.height}) > MaxEdge
           THEN "dimension-too-large"
      ELSE IF file.decodes = {} THEN "decode-failed"
      ELSE None
=============================================================================

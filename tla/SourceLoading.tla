---------------------------- MODULE SourceLoading ----------------------------
(***************************************************************************)
(* loadSourceImage (frontend/src/image/source.ts) on files of every make:  *)
(* its checks in their order, the decoder it falls back on, and what       *)
(* becomes of the picture.                                                 *)
(***************************************************************************)
EXTENDS SourcePhoto

CONSTANT Samples  (* photo files                                           *)

(* The formats limit an edge to far less than this.                        *)
ASSUME LoadingAssumption ==
  /\ Samples \subseteq File /\ None \notin FilePart \cup LoadErrors
  /\ \A f \in Samples :
       /\ f.inWindow <= Len(f.parts)
       /\ f.pixels.width <= 4 * MaxWorkPixels /\ f.pixels.height <= 4 * MaxWorkPixels

VARIABLES
  file,     (* the file being loaded                                       *)
  phase,    (* how far it has come                                         *)
  error,    (* why it was refused                                          *)
  picture   (* the working bitmap                                          *)

vars == <<file, phase, error, picture>>

Init == file \in Samples /\ phase = "chosen" /\ error = None /\ picture = None

(* The checks before the decoder is called.                                *)
Check ==
  /\ phase = "chosen"
  /\ IF LoadError(file) \in {None, "decode-failed"}
     THEN phase' = "checked" /\ UNCHANGED error
     ELSE phase' = "refused" /\ error' = LoadError(file)
  /\ UNCHANGED <<file, picture>>

(* Decoded one way or the other, turned and scaled; or undecodable.        *)
Decode ==
  /\ phase = "checked"
  /\ IF LoadError(file) = None
     THEN phase' = "loaded" /\ picture' = Normalize(file) /\ UNCHANGED error
     ELSE phase' = "refused" /\ error' = LoadError(file) /\ UNCHANGED picture
  /\ UNCHANGED file

Next == Check \/ Decode

Spec == Init /\ [][Next]_vars

-----------------------------------------------------------------------------
(* Safety.                                                                 *)

(* Where EXIF says the first pixel of the file and the last one of its     *)
(* first row belong on an upright photo of this size.                      *)
ExifPlaces(orientation, size) ==
  LET w == size.width  h == size.height
  IN  CASE orientation = 2 -> <<Point(w, 0), Point(0, 0)>>
        [] orientation = 3 -> <<Point(w, h), Point(0, h)>>
        [] orientation = 4 -> <<Point(0, h), Point(w, h)>>
        [] orientation = 5 -> <<Point(0, 0), Point(0, h)>>
        [] orientation = 6 -> <<Point(w, 0), Point(w, h)>>
        [] orientation = 7 -> <<Point(w, h), Point(w, 0)>>
        [] orientation = 8 -> <<Point(0, h), Point(0, 0)>>
        [] OTHER -> <<Point(0, 0), Point(w, 0)>>

(* The metadata, given once, stand where loadSourceImage looks for them,   *)
(* in the byte order it understands.                                       *)
Readable ==
  LET at == {i \in DOMAIN file.parts : file.parts[i].kind = "exif"}
  IN  \A i \in at : /\ at = {i} /\ file.parts[i].order = "little" /\ i <= file.inWindow
                    /\ \A j \in 1..(i - 1) : file.parts[j].kind \notin {"frame", "lossy", "data"}

TurnLeft == IF Fallback(file) THEN 1 ELSE Tag(file)
Upright ==
  LET size == picture.normalized
  IN  <<picture.drawn[Point(0, 0)], picture.drawn[Point(Decoded(file).width, 0)]>>
        = ExifPlaces(TurnLeft, size)

FillsCanvas ==
  LET canvas == picture.canvas
  IN  /\ {picture.drawn[p] : p \in DOMAIN picture.drawn} = Corners(picture.normalized)
      /\ \/ canvas = picture.normalized /\ canvas.width * canvas.height <= MaxWorkPixels
         \/ (2 * canvas.width - 1) * (2 * canvas.height - 1) <= 4 * MaxWorkPixels

(* The turned photo covers the canvas it is drawn on, corner on corner,    *)
(* and the canvas keeps to the budget for one bitmap, up to the rounding   *)
(* of its edges: whatever the orientation and the size, nothing of the     *)
(* photo is lost before the user crops it (SRC-002, SRC-003).  A photo     *)
(* with metadata that can be read is upright, quarter turns aside          *)
(* (UprightForEveryTag), whichever of the two decoders took it.            *)
PhotosUpright ==
  phase = "loaded" =>
    /\ FillsCanvas
    /\ Readable /\ TurnLeft \notin {6, 8} => Upright

(* "rotates 90 CW for orientation 6", and "rotates 270 CW for orientation  *)
(* 8" (image/exif.test.ts): with SRC-003, that a photo with readable       *)
(* metadata is upright.                                                    *)
UprightForEveryTag == phase = "loaded" /\ Readable => Upright

(* "Supports JPEG, PNG, WebP" (create/source-step.tsx): a photo that can   *)
(* be decoded and respects the limits is not refused.                      *)
GoodPhotosAccepted ==
  phase = "refused" /\ file.decodes # {} /\ file.format \in {"jpeg", "png", "webp"} =>
    \/ file.bytes > MaxBytes
    \/ file.pixels.width * file.pixels.height > MaxPixels
    \/ Max({file.pixels.width, file.pixels.height}) > MaxEdge

=============================================================================

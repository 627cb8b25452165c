------------------------------ MODULE SaveImage ------------------------------
(***************************************************************************)
(* What the server makes of an uploaded picture: validate_and_reencode     *)
(* (backend/app/image_validate.py) as _do_save (save_service.py) calls it  *)
(* with the size constraint of the template, and the sizes that the page   *)
(* offers for the same template (frontend/src/editor/edit-transform.ts).   *)
(*                                                                         *)
(* An upload is its bytes, its format, its frames, the size it is stored   *)
(* with, whether its EXIF orientation swaps the sides, and the length that *)
(* each quality would encode it to.                                        *)
(***************************************************************************)
EXTENDS Integers, FiniteSetsExt

CONSTANTS
  Revisions,     (* [output, maxBytes]; output [kind, default, min, max,   *)
                 (* aspect, listed, ppi]                                   *)
  Uploads,       (* what any client may send                               *)
  MaxUpload,     (* max_upload_bytes                                       *)
  UploadPixels, UploadEdge,    (* max_pixels, max_edge_px                  *)
  Unset          (* nothing stored, no limit, no complaint                 *)

MaxReencodeQuality == 92
MinReencodeQuality == 40
Qualities == MinReencodeQuality .. MaxReencodeQuality

Area == [width : Nat, height : Nat]
Output ==
  [kind : {"pixels", "ranged", "physical", "portal", "guidance"}, default : Area, min : Area,
   max : Area, aspect : Area, listed : SUBSET Area, ppi : Nat]
Upload ==
  [bytes : Nat, format : {"jpeg", "other"}, frames : Nat, size : Area, turned : BOOLEAN,
   length : [Qualities -> Nat]]
ImageErrors == {"TEMPLATE_UNAVAILABLE", "PHOTO_TOO_LARGE", "PHOTO_INVALID", "PHOTO_SIZE_MISMATCH"}

ASSUME SaveImageAssumption ==
  /\ {MaxUpload, UploadPixels, UploadEdge} \subseteq Nat \ {0} /\ Unset \notin ImageErrors
  /\ Revisions \subseteq [output : Output, maxBytes : Nat \cup {Unset}] /\ Uploads \subseteq Upload

VARIABLES
  revision, upload,  (* what is being saved, and under which template      *)
  stage,             (* "none", "sent", "encoding", "stored", "refused"    *)
  quality,           (* the quality that is being tried                    *)
  outcome            (* the stored photo, or the code of the refusal       *)

server == <<revision, upload, stage, quality, outcome>>

ServerInit ==
  /\ revision = Unset /\ upload = Unset /\ stage = "none"
  /\ quality = MaxReencodeQuality /\ outcome = Unset

-----------------------------------------------------------------------------
(* _size_constraint.                                                       *)

InRange(size, output) ==
  /\ size.width \in output.min.width .. output.max.width
  /\ size.height \in output.min.height .. output.max.height

HasAspect(size, output) ==
  size.width * output.aspect.height = size.height * output.aspect.width

(* Mutant: one size for every template.                                    *)
TakesDefault(output, size) == size = output.default

(* An empty list of sizes is no list.                                      *)
Takes(output, size) ==
  IF output.kind = "ranged"
  THEN InRange(size, output) /\ HasAspect(size, output)
       /\ (output.listed = {} \/ size \in output.listed)
  ELSE size = output.default

(* allowedOutputSizes and resolveOutputSize: what the page can be set to.  *)
Offered(output) ==
  IF output.kind # "ranged" \/ output.listed # {}
  THEN {output.default}
       \cup (IF output.kind = "ranged"
             THEN {s \in output.listed : InRange(s, output) /\ HasAspect(s, output)} ELSE {})
  ELSE {output.default, output.max}

-----------------------------------------------------------------------------
(* validate_and_reencode.                                                  *)

EffectiveMax(rev) ==
  IF rev.maxBytes = Unset THEN MaxUpload ELSE Min({rev.maxBytes, MaxUpload})

(* Mutant: the size is judged before the orientation is applied.           *)
AsStored(picture) == picture.size

(* exif_transpose.                                                         *)
Transposed(picture) ==
  IF picture.turned THEN [width |-> picture.size.height, height |-> picture.size.width]
  ELSE picture.size

(* The limits are applied to the stored size, the template to the oriented *)
(* one.                                                                    *)
Complaint(picture, rev) ==
  IF picture.bytes > EffectiveMax(rev) THEN "PHOTO_TOO_LARGE"
  ELSE IF picture.format # "jpeg" \/ picture.frames # 1 THEN "PHOTO_INVALID"
  ELSE IF picture.size.width * picture.size.height > UploadPixels
          \/ Max({picture.size.width, picture.size.height}) > UploadEdge
       THEN "PHOTO_TOO_LARGE"
  ELSE IF ~Takes(rev.output, Transposed(picture)) THEN "PHOTO_SIZE_MISMATCH"
  ELSE Unset

Refuse(code) == stage' = "refused" /\ outcome' = code /\ UNCHANGED <<revision, upload, quality>>

(* A template without a render size is refused before the picture is read. *)
Validate ==
  /\ stage = "sent"
  /\ IF revision.output.kind \in {"portal", "guidance"} THEN Refuse("TEMPLATE_UNAVAILABLE")
     ELSE IF Complaint(upload, revision) # Unset THEN Refuse(Complaint(upload, revision))
     ELSE stage' = "encoding" /\ UNCHANGED <<revision, upload, quality, outcome>>

TooLong(q) == upload.length[q] > EffectiveMax(revision)

(* _encode_within: steps of four, of one where four would pass the floor.  *)
TryLower ==
  /\ stage = "encoding" /\ TooLong(quality) /\ quality > MinReencodeQuality
  /\ quality' = quality - (IF quality - 4 >= MinReencodeQuality THEN 4 ELSE 1)
  /\ UNCHANGED <<revision, upload, stage, outcome>>

GiveUp ==
  /\ stage = "encoding" /\ TooLong(quality) /\ quality <= MinReencodeQuality
  /\ Refuse("PHOTO_TOO_LARGE")

(* The density is that of the template, whatever the upload said.          *)
Keep ==
  /\ stage = "encoding" /\ ~TooLong(quality)
  /\ stage' = "stored"
  /\ outcome' = [size |-> Transposed(upload), bytes |-> upload.length[quality],
                 ppi |-> IF revision.output.kind = "physical" THEN revision.output.ppi ELSE Unset]
  /\ UNCHANGED <<revision, upload, quality>>

(* A picture arrives for a template.                                       *)
Receive(picture, rev) ==
  /\ stage = "none" /\ stage' = "sent"
  /\ upload' = picture /\ revision' = rev
  /\ UNCHANGED <<quality, outcome>>

ServerNext == Validate \/ TryLower \/ GiveUp \/ Keep

-----------------------------------------------------------------------------
(* Safety.                                                                 *)

(* What is kept has the size that the template asks for once it is turned  *)
(* upright, stays within the limits of the template and of the service,    *)
(* and has the template's print density; it is encoded with the best       *)
(* quality tried, and refused for its length only after the lowest quality *)
(* was tried ("searched once per side by actual bytes").                   *)
StoredPhotosComply ==
  LET tried == {q \in Qualities : (MaxReencodeQuality - q) % 4 = 0} IN
  /\ stage = "stored" =>
       /\ IF revision.output.kind = "ranged"
          THEN InRange(outcome.size, revision.output) /\ HasAspect(outcome.size, revision.output)
          ELSE outcome.size = revision.output.default
       /\ upload.turned => outcome.size.width = upload.size.height
       /\ outcome.bytes <= MaxUpload
       /\ revision.maxBytes # Unset => outcome.bytes <= revision.maxBytes
       /\ revision.output.kind = "physical" => outcome.ppi = revision.output.ppi
       /\ \A q \in tried : q > quality => TooLong(q)
  /\ stage = "refused" /\ outcome = "PHOTO_TOO_LARGE" /\ Complaint(upload, revision) = Unset =>
       \A q \in tried : TooLong(q)
=============================================================================

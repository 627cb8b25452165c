------------------------------ MODULE Pictures ------------------------------
(***************************************************************************)
(* A picture's two gates: the browser, which takes the user's photo        *)
(* (SourceLoading), and the server, which takes the JPEG that was made of  *)
(* it (SaveImage).  What the pages in between make of the photo is         *)
(* abstracted to a JPEG of a size they offer for the template (create/     *)
(* review-step.tsx, render/final-artifact.ts); the server takes pictures   *)
(* from any other client as well.                                          *)
(***************************************************************************)
EXTENDS SourceLoading, SaveImage

VARIABLE fromPage  (* the upload was made by the final page                *)

browser == <<file, phase, error, picture>>

PicturesInit == Init /\ ServerInit /\ fromPage = FALSE

(* renderFinalArtifact delivers one upright frame within the template's    *)
(* bytes.                                                                  *)
Artifacts(rev) ==
  {u \in Uploads : /\ u.format = "jpeg" /\ u.frames = 1 /\ ~u.turned
                   /\ rev.maxBytes # Unset => u.bytes <= rev.maxBytes
                   /\ u.size \in Offered(rev.output)}

(* The final page renders for a template with a size, and its artifact is  *)
(* staged; the photo it was made of matters no more.                       *)
Stage ==
  /\ phase = "loaded" /\ phase' = "staged"
  /\ \E rev \in Revisions : \E u \in Artifacts(rev) :
       rev.output.kind \notin {"portal", "guidance"} /\ Receive(u, rev)
  /\ file' = None /\ picture' = None /\ fromPage' = TRUE
  /\ UNCHANGED error

(* Another client.                                                         *)
Send ==
  /\ phase = "chosen" /\ phase' = "elsewhere"
  /\ \E rev \in Revisions, u \in Uploads : Receive(u, rev)
  /\ file' = None
  /\ UNCHANGED <<error, picture, fromPage>>

PicturesNext ==
  \/ (Check \/ Decode) /\ UNCHANGED <<server, fromPage>>
  \/ ServerNext /\ UNCHANGED <<browser, fromPage>>
  \/ Stage \/ Send

PicturesSpec == PicturesInit /\ [][PicturesNext]_<<browser, server, fromPage>>

-----------------------------------------------------------------------------
(* Safety.                                                                 *)

(* A template whose own sizes keep its own rules: nothing in the schema or *)
(* in template_store.py asks for it.                                       *)
Consistent(output) ==
  output.kind = "ranged" =>
    /\ {output.default, output.max} \subseteq {s \in Offered(output) \cup {output.max} :
                                                  HasAspect(s, output)}
    /\ InRange(output.default, output)
    /\ output.listed # {} => output.default \in output.listed

(* ... and that the service has room for, which nothing asks for either.   *)
WithinLimits(output) ==
  \A s \in Offered(output) :
    s.width * s.height <= UploadPixels /\ Max({s.width, s.height}) <= UploadEdge

(* The page and the server read the template's sizes in code of their own: *)
(* a picture made by the page for a consistent template within the limits  *)
(* of the service is refused for its bytes only, when it exceeds the       *)
(* service's limit or no quality helps.                                    *)
PageSizesAreTaken ==
  fromPage /\ stage = "refused" /\ Consistent(revision.output) /\ WithinLimits(revision.output) =>
    /\ outcome = "PHOTO_TOO_LARGE"
    /\ upload.bytes > MaxUpload \/ TooLong(MinReencodeQuality)
=============================================================================

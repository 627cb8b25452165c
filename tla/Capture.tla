------------------------------ MODULE Capture ------------------------------
(***************************************************************************)
(* The camera step of the create flow: CaptureStep                         *)
(* (frontend/src/create/capture-step.tsx), the camera wrapper it calls     *)
(* (camera/camera.ts), the decoded photos it makes (image/source.ts) and   *)
(* the part of CreatePage (create/create-page.tsx) that receives them.     *)
(*                                                                         *)
(* Every await of startCamera and of shoot is a point where the user, the  *)
(* hidden-page timer, the countdown or another pending call may come in    *)
(* between, and each continuation decides by the generation it remembers   *)
(* whether it is still wanted.  A step is one event handler, timer or      *)
(* continuation.  A stream is named by the startCamera call that opened it *)
(* and a decoded photo by the shoot call that took it.                     *)
(*                                                                         *)
(* A click is rendered at once; what a continuation sets is rendered, and  *)
(* the step unmounted, some time later (leaving).                          *)
(***************************************************************************)
EXTENDS Naturals

CONSTANTS
  Opens,      (* calls of startCamera                                     *)
  Shots,      (* calls of shoot                                           *)
  Unset       (* no stream, no photo                                      *)

ASSUME CaptureAssumption == Unset \notin Opens \cup Shots

VARIABLES
  onScreen,   (* the step is on screen                                    *)
  leaving,    (* the page has been told to go on to the next step         *)
  status,     (* the Status of the step                                   *)
  gen,        (* genRef                                                   *)
  stream,     (* streamRef                                                *)
  on,         (* streams whose tracks are running                         *)
  open,       (* of each startCamera: where it is, and its generation     *)
  shot,       (* of each shoot: where it is, and its generation           *)
  counting,   (* the countdown runs                                       *)
  hidden,     (* the page is hidden                                       *)
  armed,      (* the hidden-page timer runs                               *)
  source,     (* the photo CreatePage holds                               *)
  bitmaps     (* decoded photos not disposed                              *)

camera == <<stream, on>>
photo == <<source, bitmaps>>
captureVars == <<onScreen, leaving, status, gen, stream, on, open, shot,
          counting, hidden, armed, source, bitmaps>>

CaptureInit ==
  /\ onScreen = TRUE /\ leaving = FALSE
  /\ status = "idle" /\ gen = 0
  /\ stream = Unset /\ on = {}
  /\ open = [o \in Opens |-> [pc |-> "idle", gen |-> 0]]
  /\ shot = [s \in Shots |-> [pc |-> "idle", gen |-> 0]]
  /\ counting = FALSE /\ hidden = FALSE /\ armed = FALSE
  /\ source = Unset /\ bitmaps = {}

(* setStatus, with the effect on status that owns the hidden-page timer.   *)
(* After the step has gone it does nothing.                                *)
SetStatus(s) ==
  IF onScreen THEN status' = s /\ armed' = (armed /\ s = "live")
  ELSE UNCHANGED <<status, armed>>

OpenGoto(o, from, to) == open[o].pc = from /\ open' = [open EXCEPT ![o].pc = to]
ShotGoto(s, from, to) == shot[s].pc = from /\ shot' = [shot EXCEPT ![s].pc = to]

-----------------------------------------------------------------------------
(* startCamera.                                                            *)

(* "Open camera", "Reconnect camera" and the device menu.                  *)
StartCamera(o) ==
  /\ onScreen /\ status \in {"idle", "live"} /\ open[o].pc = "idle"
  /\ gen' = gen + 1
  /\ open' = [open EXCEPT ![o] = [pc |-> "opening", gen |-> gen + 1]]
  /\ SetStatus("requesting")
  /\ UNCHANGED <<onScreen, leaving, camera, shot, counting, hidden, photo>>

Superseded(o) == open[o].gen # gen

(* A superseded request's stream is stopped as soon as it arrives.         *)
OpenedLate(o) ==
  /\ Superseded(o) /\ OpenGoto(o, "opening", "done")
  /\ UNCHANGED <<onScreen, leaving, status, gen, camera, shot, counting, hidden, armed, photo>>

OpenedAnyway(o) ==
  /\ OpenGoto(o, "opening", "playing")
  /\ on' = (on \ {stream}) \cup {o} /\ stream' = o
  /\ UNCHANGED <<onScreen, leaving, status, gen, shot, counting, hidden, armed, photo>>

(* Only now is the stream it replaces stopped; then play() is awaited.     *)
Opened(o) ==
  /\ ~Superseded(o) /\ OpenGoto(o, "opening", "playing")
  /\ on' = (on \ {stream}) \cup {o} /\ stream' = o
  /\ UNCHANGED <<onScreen, leaving, status, gen, shot, counting, hidden, armed, photo>>

(* play() has resolved or rejected: live, whatever happened meanwhile.     *)
Played(o) ==
  /\ OpenGoto(o, "playing", "done")
  /\ SetStatus("live")
  /\ UNCHANGED <<onScreen, leaving, gen, camera, shot, counting, hidden, photo>>

(* Denied, no device, in use, unsatisfiable even relaxed: a stream that is *)
(* already there is left running.                                          *)
OpenFails(o) ==
  /\ OpenGoto(o, "opening", "done")
  /\ IF Superseded(o) THEN UNCHANGED <<status, armed>> ELSE SetStatus("idle")
  /\ UNCHANGED <<onScreen, leaving, gen, camera, shot, counting, hidden, photo>>

-----------------------------------------------------------------------------
(* shoot.                                                                  *)

BeginShot(s) ==
  /\ shot[s].pc = "idle"
  /\ shot' = [shot EXCEPT ![s] = [pc |-> "still", gen |-> gen]]
  /\ SetStatus("capturing")

Shoot(s) ==
  /\ onScreen /\ status = "live" /\ ~counting
  /\ BeginShot(s)
  /\ UNCHANGED <<onScreen, leaving, gen, camera, open, counting, hidden, photo>>

StartCountdown ==
  /\ onScreen /\ status = "live" /\ ~counting
  /\ \E s \in Shots : shot[s].pc = "idle"
  /\ counting' = TRUE
  /\ UNCHANGED <<onScreen, leaving, status, gen, camera, open, shot, hidden, armed, photo>>

CancelCountdown ==
  /\ onScreen /\ status = "live" /\ counting
  /\ counting' = FALSE
  /\ UNCHANGED <<onScreen, leaving, status, gen, camera, open, shot, hidden, armed, photo>>

(* The countdown goes on whatever the status becomes; without a <video>    *)
(* on screen the shot it fires returns at once.                            *)
CountdownFires ==
  /\ counting /\ counting' = FALSE
  /\ IF status = "idle" THEN UNCHANGED <<status, armed, shot>>
     ELSE \E s \in Shots : BeginShot(s)
  /\ UNCHANGED <<onScreen, leaving, gen, camera, open, hidden, photo>>

Stale(s) == shot[s].gen # gen

(* The still is there, from ImageCapture or, after 2 s, from the canvas.   *)
StillTaken(s) ==
  /\ ShotGoto(s, "still", IF Stale(s) THEN "done" ELSE "decode")
  /\ UNCHANGED <<onScreen, leaving, status, gen, camera, open, counting, hidden, armed, photo>>

(* Mutant: a shot that fails leaves the step as it is.                     *)
ShotFailsQuietly(s) ==
  /\ ShotGoto(s, "still", "done") \/ ShotGoto(s, "decode", "done")
  /\ UNCHANGED <<onScreen, leaving, status, gen, camera, open, counting, hidden, armed, photo>>

(* No still, or one that cannot be decoded.                                *)
ShotFails(s) ==
  /\ ShotGoto(s, "still", "done") \/ ShotGoto(s, "decode", "done")
  /\ IF Stale(s) THEN UNCHANGED <<status, armed>> ELSE SetStatus("live")
  /\ UNCHANGED <<onScreen, leaving, gen, camera, open, counting, hidden, photo>>

(* loadSourceImage: the photo of a stale shot is disposed at once.         *)
Decoded(s) ==
  /\ ShotGoto(s, "decode", IF Stale(s) THEN "done" ELSE "check")
  /\ bitmaps' = IF Stale(s) THEN bitmaps ELSE bitmaps \cup {s}
  /\ UNCHANGED <<onScreen, leaving, status, gen, camera, open, counting, hidden, armed, source>>

(* Mutant: the photo of a stale shot is dropped, but not disposed.         *)
CheckedLateKept(s) ==
  /\ Stale(s) /\ ShotGoto(s, "check", "done")
  /\ UNCHANGED <<onScreen, leaving, status, gen, camera, open, counting, hidden, armed, photo>>

(* runStaticCheck has ended, well or not, and the shot has become stale.   *)
CheckedLate(s) ==
  /\ Stale(s) /\ ShotGoto(s, "check", "done")
  /\ bitmaps' = bitmaps \ {s}
  /\ UNCHANGED <<onScreen, leaving, status, gen, camera, open, counting, hidden, armed, source>>

(* Mutant: the shot is not asked again whether it has become stale.        *)
DeliverAnyway(s) ==
  /\ ShotGoto(s, "check", "done")
  /\ source' = s /\ bitmaps' = bitmaps \ {source}
  /\ leaving' = TRUE
  /\ UNCHANGED <<onScreen, status, gen, camera, open, counting, hidden, armed>>

(* onReady: replaceSource disposes the photo it replaces, and the page     *)
(* goes on to the review step.                                             *)
Deliver(s) ==
  /\ ~Stale(s) /\ ShotGoto(s, "check", "done")
  /\ source' = s /\ bitmaps' = bitmaps \ {source}
  /\ leaving' = TRUE
  /\ UNCHANGED <<onScreen, status, gen, camera, open, counting, hidden, armed>>

-----------------------------------------------------------------------------
(* The page and the way out.                                               *)

(* visibilitychange is listened to while the status is live, only then.    *)
Hide ==
  /\ onScreen /\ ~hidden /\ hidden' = TRUE
  /\ armed' = (status = "live")
  /\ UNCHANGED <<onScreen, leaving, status, gen, camera, open, shot, counting, photo>>

Show ==
  /\ onScreen /\ hidden /\ hidden' = FALSE
  /\ armed' = FALSE
  /\ UNCHANGED <<onScreen, leaving, status, gen, camera, open, shot, counting, photo>>

(* Hidden for hiddenStopMs.                                                *)
HiddenTooLong ==
  /\ armed
  /\ gen' = gen + 1
  /\ on' = on \ {stream} /\ stream' = Unset
  /\ SetStatus("idle")
  /\ UNCHANGED <<onScreen, leaving, open, shot, counting, hidden, photo>>

(* The cleanup of the step's effects.                                      *)
StepUnmounts ==
  /\ onScreen /\ onScreen' = FALSE /\ leaving' = FALSE
  /\ gen' = gen + 1
  /\ on' = on \ {stream} /\ stream' = Unset
  /\ counting' = FALSE /\ armed' = FALSE
  /\ UNCHANGED <<status, open, shot, hidden>>

(* There is no "Back" while the camera is being requested.                 *)
Back == status # "requesting" /\ StepUnmounts /\ UNCHANGED photo

GoOn == leaving /\ StepUnmounts /\ UNCHANGED photo

(* Navigation away from CreatePage, which disposes the photo it holds.     *)
LeavePage == StepUnmounts /\ source' = Unset /\ bitmaps' = bitmaps \ {source}

Continuation ==
  \/ \E o \in Opens : OpenedLate(o) \/ Opened(o) \/ Played(o) \/ OpenFails(o)
  \/ \E s \in Shots : \/ StillTaken(s) \/ ShotFails(s) \/ Decoded(s)
                      \/ CheckedLate(s) \/ Deliver(s)

User ==
  \/ \E o \in Opens : StartCamera(o)
  \/ \E s \in Shots : Shoot(s)
  \/ StartCountdown \/ CancelCountdown
  \/ Hide \/ Show
  \/ Back \/ LeavePage

CaptureNext == Continuation \/ User \/ CountdownFires \/ HiddenTooLong \/ GoOn

(* The steps of a shot that has begun end: takePhoto has a timeout, and    *)
(* decoding and the static recheck finish or throw.  A permission prompt   *)
(* may stay open for ever, so startCamera has no fairness.                 *)
ShotStep(s) == StillTaken(s) \/ ShotFails(s) \/ Decoded(s) \/ CheckedLate(s) \/ Deliver(s)

Fairness == WF_captureVars(GoOn) /\ \A s \in Shots : WF_captureVars(ShotStep(s))

CaptureSpec == CaptureInit /\ [][CaptureNext]_captureVars /\ Fairness

-----------------------------------------------------------------------------
(* Properties.                                                             *)

TypeOK ==
  /\ onScreen \in BOOLEAN /\ leaving \in BOOLEAN
  /\ status \in {"idle", "requesting", "live", "capturing"}
  /\ gen \in Nat
  /\ stream \in Opens \cup {Unset} /\ on \subseteq Opens
  /\ open \in [Opens -> [pc : {"idle", "opening", "playing", "done"}, gen : Nat]]
  /\ shot \in [Shots -> [pc : {"idle", "still", "decode", "check", "done"}, gen : Nat]]
  /\ counting \in BOOLEAN /\ hidden \in BOOLEAN /\ armed \in BOOLEAN
  /\ source \in Shots \cup {Unset} /\ bitmaps \subseteq Shots

(* Whatever requests, prompts and timers were pending when the step went   *)
(* away, the camera is off and stays off.                                  *)
CameraOffAfterLeaving == ~onScreen => on = {}

(* Every decoded photo is the page's, or on its way there, or disposed;    *)
(* and the photo the page holds is never one that was disposed.            *)
PhotosAccounted ==
  bitmaps = ({source} \ {Unset}) \cup {s \in Shots : shot[s].pc = "check"}

(* A late photo never moves the page: a shot is delivered only while the   *)
(* step it was taken in is on screen.                                      *)
LateShotIsDropped == [][source' \in Shots /\ source' # source => onScreen]_captureVars

(* The step never hangs in "Processing photo": there is no shutter then.   *)
CapturingEnds == status = "capturing" ~> status # "capturing" \/ ~onScreen

(* SPEC.md section 11 of a NotReadableError and its like: "stop residual   *)
(* tracks".  When the step offers to open the camera, no camera is on.     *)
IdleMeansCameraOff == onScreen /\ status = "idle" => on = {}
=============================================================================

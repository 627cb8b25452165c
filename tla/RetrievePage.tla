----------------------------- MODULE RetrievePage -----------------------------
(***************************************************************************)
(* The retrieve page (frontend/src/pages/retrieve-page.tsx): looking a     *)
(* photo up with its KEY and downloading it, in two requests, and deleting *)
(* one, each call answered at its own time and without regard to what the  *)
(* page has become.  The server gives a photo, and the token for it, while *)
(* the photo is live, and says the same to every deletion (PhotoLifecycle).*)
(*                                                                         *)
(* What the user does is rendered before the next event; an answer is only *)
(* queued, and meanwhile the old page is on screen (painted).  A preview's *)
(* object URL is named by the call that made it.                           *)
(***************************************************************************)
EXTENDS Shell

CONSTANTS
  Keys,         (* complete KEYs, and the photos they stand for            *)
  Resolves,     (* calls of resolve                                        *)
  Deletes,      (* calls of remove                                         *)
  Partial       (* an incomplete input                                     *)

ASSUME RetrieveAssumption == Partial \notin Keys \cup Resolves

VARIABLES
  key,          (* what is in the field                                    *)
  stage,        (* what is to be shown of a photo, and                     *)
  deleteStage,  (* of a deletion: set, and rendered in the end             *)
  painted,      (* on screen: the preview's URL and the delete section     *)
  resolving,    (* of each call: where it is, its KEY, whose page it is    *)
  deleting,
  live,         (* photos on the server                                    *)
  urls,         (* object URLs that are not revoked                        *)
  seen,         (* previews that were on screen                            *)
  underway      (* lookups pending when a deletion was last answered       *)

fields == <<key, stage, deleteStage, painted, seen>>
calls == <<resolving, deleting, live, underway>>
retrieve == <<fields, calls, urls>>

Shown(kind) == [kind |-> kind, url |-> Partial]
Preview(i) == [kind |-> "resolved", url |-> i]

RetrieveInit ==
  /\ key = Partial /\ stage = Shown("idle") /\ deleteStage = "idle"
  /\ painted = [url |-> Partial, deleteStage |-> "idle"] /\ seen = {}
  /\ resolving = [i \in Resolves |-> [pc |-> "idle", key |-> Partial, here |-> FALSE]]
  /\ deleting = [d \in Deletes |-> [pc |-> "idle", key |-> Partial, here |-> FALSE]]
  /\ live = Keys /\ urls = {} /\ underway = {}

(* s and d are rendered, and the effect of the last preview's URL revokes  *)
(* it when another takes its place, or none.                               *)
Paint(s, d) ==
  /\ stage' = s /\ deleteStage' = d
  /\ painted' = [url |-> s.url, deleteStage |-> d] /\ seen' = seen \cup ({s.url} \ {Partial})
RenderedOnly(s, d) == Paint(s, d) /\ UNCHANGED urls
Rendered(s, d) == Paint(s, d) /\ urls' = urls \ ({painted.url} \ {s.url})

(* setStage and setDeleteStage of an answer: a page that has gone keeps    *)
(* nothing.                                                                *)
Queue(s, d, here) ==
  /\ IF here THEN stage' = s /\ deleteStage' = d ELSE UNCHANGED <<stage, deleteStage>>
  /\ UNCHANGED <<key, painted, seen>>

Pending(i) == resolving[i].pc \in {"sent", "token", "bytes", "refused"}

(* The page is mounted, always in its first state, and goes.               *)
LeaveRetrieve ==
  /\ key' = Partial /\ stage' = Shown("idle") /\ deleteStage' = "idle"
  /\ painted' = [url |-> Partial, deleteStage |-> "idle"]
  /\ urls' = urls \ {painted.url} /\ underway' = {}
  /\ resolving' = [i \in Resolves |-> [resolving[i] EXCEPT !.here = FALSE]]
  /\ deleting' = [d \in Deletes |-> [deleting[d] EXCEPT !.here = FALSE]]
  /\ UNCHANGED <<live, seen>>

(* What is queued is rendered.                                             *)
RenderStage ==
  /\ painted # [url |-> stage.url, deleteStage |-> deleteStage]
  /\ Rendered(stage, deleteStage) /\ UNCHANGED <<key, calls>>

-----------------------------------------------------------------------------
(* The retrieval code and the photo.                                       *)

TypeKey(k) ==
  /\ Showing("retrieve") /\ key' = k /\ Rendered(stage, deleteStage)
  /\ UNCHANGED calls

(* resolve: the button is disabled while a lookup is pending, but Enter in *)
(* the field starts another one.                                           *)
Resolve(i) ==
  /\ Showing("retrieve") /\ key # Partial /\ resolving[i].pc = "idle"
  /\ Rendered(Shown("resolving"), "idle")
  /\ resolving' = [resolving EXCEPT ![i] = [pc |-> "sent", key |-> key, here |-> TRUE]]
  /\ UNCHANGED <<key, deleting, live, underway>>

ResolveIncomplete ==
  /\ Showing("retrieve") /\ key = Partial /\ Rendered(Shown("error"), deleteStage)
  /\ UNCHANGED <<key, calls>>

(* The server answers the lookup, then the download.                       *)
Serve(i, from, to) ==
  /\ resolving[i].pc = from
  /\ resolving' = [resolving EXCEPT
       ![i].pc = IF resolving[i].key \in live THEN to ELSE "refused"]
  /\ UNCHANGED <<fields, urls, deleting, live, underway>>

ResolveLost(i) ==
  /\ resolving[i].pc \in {"sent", "token"}
  /\ resolving' = [resolving EXCEPT ![i].pc = "refused"]
  /\ UNCHANGED <<fields, urls, deleting, live, underway>>

PhotoArrives(i) ==
  /\ resolving[i].pc = "bytes" /\ resolving' = [resolving EXCEPT ![i].pc = "done"]
  /\ urls' = urls \cup {i} /\ Queue(Preview(i), deleteStage, resolving[i].here)
  /\ UNCHANGED <<deleting, live, underway>>

RefusalArrives(i) ==
  /\ resolving[i].pc = "refused" /\ resolving' = [resolving EXCEPT ![i].pc = "done"]
  /\ Queue(Shown("error"), deleteStage, resolving[i].here)
  /\ UNCHANGED <<urls, deleting, live, underway>>

-----------------------------------------------------------------------------
(* The delete section.                                                     *)

AskDelete ==
  /\ Showing("retrieve") /\ key # Partial /\ painted.deleteStage \in {"idle", "error"}
  /\ Rendered(stage, "confirm") /\ UNCHANGED <<key, calls>>

CancelDelete ==
  /\ Showing("retrieve") /\ painted.deleteStage = "confirm"
  /\ Rendered(stage, "idle") /\ UNCHANGED <<key, calls>>

Remove(d) ==
  /\ Showing("retrieve") /\ painted.deleteStage = "confirm" /\ key # Partial
  /\ deleting[d].pc = "idle" /\ Rendered(stage, "deleting")
  /\ deleting' = [deleting EXCEPT ![d] = [pc |-> "sent", key |-> key, here |-> TRUE]]
  /\ UNCHANGED <<key, resolving, live, underway>>

(* With the right secret the photo is gone, with a wrong one it stays.     *)
ServeDelete(d) ==
  /\ deleting[d].pc = "sent" /\ live' \in {live, live \ {deleting[d].key}}
  /\ deleting' = [deleting EXCEPT ![d].pc = "served"]
  /\ UNCHANGED <<fields, resolving, underway, urls>>

DeleteLost(d) ==
  /\ deleting[d].pc \in {"sent", "served"}
  /\ deleting' = [deleting EXCEPT ![d].pc = "lost"]
  /\ UNCHANGED <<fields, resolving, live, underway, urls>>

Deleted(d, s) ==
  /\ deleting[d].pc = "served" /\ deleting' = [deleting EXCEPT ![d].pc = "done"]
  /\ Queue(s, "done", deleting[d].here)
  /\ underway' = IF deleting[d].here THEN {i \in Resolves : Pending(i)} ELSE underway
  /\ UNCHANGED <<resolving, live, urls>>
AnswerInPlace(d) == Deleted(d, stage)
DeleteAnswered(d) == Deleted(d, Shown("idle"))

DeleteFails(d) ==
  /\ deleting[d].pc = "lost" /\ deleting' = [deleting EXCEPT ![d].pc = "done"]
  /\ Queue(stage, "error", deleting[d].here)
  /\ UNCHANGED <<resolving, live, underway, urls>>

RetrieveNext ==
  /\ \/ \E k \in Keys \cup {Partial} : TypeKey(k)
     \/ RenderStage \/ ResolveIncomplete \/ AskDelete \/ CancelDelete
     \/ \E i \in Resolves :
          \/ Resolve(i) \/ ResolveLost(i) \/ PhotoArrives(i) \/ RefusalArrives(i)
          \/ Serve(i, "sent", "token") \/ Serve(i, "token", "bytes")
     \/ \E d \in Deletes :
          Remove(d) \/ ServeDelete(d) \/ DeleteLost(d) \/ DeleteAnswered(d) \/ DeleteFails(d)
  /\ UNCHANGED <<router, answers>>
=============================================================================

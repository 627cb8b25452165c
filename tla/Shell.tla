-------------------------------- MODULE Shell --------------------------------
(***************************************************************************)
(* The page frame of the browser application (frontend/src/app/): which    *)
(* page is shown, the error boundary around it and the question asked      *)
(* before photos are left behind; and the two answers of the server that   *)
(* pages share, the template catalogue (lib/templates/catalog.ts) and the  *)
(* service policy (api/service-policy.ts).                                 *)
(*                                                                         *)
(* At most one component that waits for such an answer is on screen: the   *)
(* template step, the template's own page or the privacy page.             *)
(***************************************************************************)
CONSTANT Routes  (* the addresses that are visited                          *)

AllRoutes == {"home", "create", "retrieve", "privacy", "detail", "not found"}

ASSUME ShellAssumption == Routes \subseteq AllRoutes

VARIABLES
  route,     (* the address                                                *)
  crashed,   (* the error boundary shows instead of the page               *)
  blocked,   (* where the user was going when asked whether to leave       *)
  cache,     (* of each answer: not asked for, pending, or held            *)
  view       (* what the component that waits for one shows                *)

router == <<route, crashed, blocked>>
answers == <<cache, view>>

Resources == {"catalogue", "policy"}

ShellTypeOK ==
  /\ route \in Routes /\ crashed \in BOOLEAN /\ blocked \in Routes \cup {"nowhere"}
  /\ cache \in [Resources -> {"none", "pending", "held"}]
  /\ view \in {"off", "loading", "error", "ready", "missing", "ready and error"}

ShellInit ==
  /\ route \in Routes \ {"create", "privacy", "detail"}
  /\ crashed = FALSE /\ blocked = "nowhere"
  /\ cache = [r \in Resources |-> "none"] /\ view = "off"

Showing(page) == route = page /\ ~crashed

(* What the component on screen waits for.                                 *)
Wanted == IF route = "privacy" THEN "policy" ELSE "catalogue"

(* One request is shared by all who ask while it is pending or answered.   *)
Fetch(r) == [cache EXCEPT ![r] = IF @ = "none" THEN "pending" ELSE @]

(* The effect of a component that is mounted, or mounted anew.             *)
Await(r) ==
  /\ cache' = Fetch(r)
  /\ view' = IF cache[r] = "held" THEN "ready" ELSE "loading"

AwaitNothing == view' = "off" /\ UNCHANGED cache

-----------------------------------------------------------------------------
(* A late answer only fills the cache.                                     *)
Answered(r) ==
  /\ cache[r] = "pending" /\ cache' = [cache EXCEPT ![r] = "held"]
  /\ CASE view = "off" \/ r # Wanted -> UNCHANGED view
       [] route = "privacy" /\ view = "error" -> view' = "ready and error"
       [] route = "detail" -> view' \in {"ready", "missing"}
       [] OTHER -> view' = "ready"
  /\ UNCHANGED router

(* A failure is not kept.                                                  *)
Failed(r) ==
  /\ cache[r] = "pending" /\ cache' = [cache EXCEPT ![r] = "none"]
  /\ view' = IF view = "off" \/ r # Wanted THEN view ELSE "error"
  /\ UNCHANGED router

(* The Retry buttons; the privacy page keeps its complaint.                *)
RetryLoad ==
  /\ ~crashed /\ view \in {"error", "ready and error"}
  /\ cache' = Fetch(Wanted)
  /\ view' = IF route = "privacy" THEN view ELSE "loading"
  /\ UNCHANGED router
=============================================================================

----------------------------- MODULE SaveLease -----------------------------
(***************************************************************************)
(* The idempotent save: POST /api/v1/saves (backend/app/routers/saves.py)  *)
(* and save_photo with its lease (backend/app/save_service.py), together   *)
(* with the worker's cleanup of the lease table.                           *)
(*                                                                         *)
(* A request names an idempotency key (the pair of session digest and key  *)
(* digest that is the primary key of save_idempotency_records) and carries *)
(* a content digest.  create_save is an async handler whose save_photo     *)
(* call blocks its event loop, so the saves of one loop never interleave;  *)
(* saves of different loops (processes, or the threads of the repository's *)
(* own concurrency test) do.  Everything between two commits of a          *)
(* connection is one step; each commit and each separate SELECT is a step. *)
(*                                                                         *)
(* A photo is named by the request that created it.  Its KEY, its grants   *)
(* and its later life are the subject of module PhotoLifecycle.            *)
(***************************************************************************)
EXTENDS Integers, FiniteSets

CONSTANTS
  Requests,   (* the save requests of a behaviour                         *)
  Keys,       (* idempotency keys                                         *)
  Digests,    (* request digests: photo bytes and template                *)
  Loops,      (* event loops that run create_save                         *)
  LoopOf,     (* the loop that serves a request                           *)
  Lease,      (* idempotency_lease_seconds                                *)
  Window,     (* idempotency_window_seconds                               *)
  MaxTime,    (* bound on the clock                                       *)
  MaxMishaps, (* bound on process crashes and on removals that the file   *)
              (* system refuses, together                                 *)
  NoRec       (* no row in the table                                      *)

ASSUME TimesAssumption == /\ Lease \in Nat /\ Window \in Nat
                          /\ MaxTime \in Nat /\ MaxMishaps \in Nat
ASSUME LoopAssumption == LoopOf \in [Requests -> Loops]

VARIABLES
  now,        (* the wall clock, in seconds                               *)
  rec,        (* save_idempotency_records, by primary key                 *)
  photos,     (* photos committed as active                               *)
  objects,    (* objects on disk                                          *)
  littered,   (* requests that could not remove their object (history)    *)
  pc,         (* where each request is                                    *)
  args,       (* key and digest of each request                           *)
  start,      (* now_ts of each request                                   *)
  answer,     (* what each request was answered                           *)
  crashes     (* how many crashes have happened                           *)

saveVars == <<now, rec, photos, objects, littered, pc, args, start, answer, crashes>>

(* What a lease row holds.  photo is the photo in the response envelope,   *)
(* as a set of at most one element: empty while there is no envelope.      *)
Record == [status : {"processing", "completed", "failed"}, digest : Digests,
           photo : SUBSET Requests, created : Nat, updated : Nat]

ASSUME NoRecAssumption == NoRec \notin Record

Refusals == {"SAVE_PROCESSING", "IDEMPOTENCY_CONFLICT", "IDEMPOTENCY_IN_PROGRESS", "ERROR"}

(* A refusal is no request, so an answer that is one names a photo.        *)
ASSUME AnswerAssumption == Requests \cap (Refusals \cup {"none"}) = {}

(* A request between the start of save_photo and its answer.               *)
Running == {"insert", "select", "takeover", "work", "stored", "failing"}
(* A request whose _acquire_lease has returned.                            *)
Holding == {"work", "stored", "failing"}

Key(r) == args[r].key
Digest(r) == args[r].digest
Mishaps == crashes + Cardinality(littered)
SameLoop(q, r) == LoopOf[q] = LoopOf[r]

SaveInit ==
  /\ now = 0
  /\ rec = [k \in Keys |-> NoRec]
  /\ photos = {} /\ objects = {} /\ littered = {}
  /\ pc = [r \in Requests |-> "idle"]
  /\ args \in [Requests -> [key : Keys, digest : Digests]]
  /\ start = [r \in Requests |-> 0]
  /\ answer = [r \in Requests |-> "none"]
  /\ crashes = 0

-----------------------------------------------------------------------------
(* The request moves from one place to another; Reply is its last step.    *)

Goto(r, from, to) == pc[r] = from /\ pc' = [pc EXCEPT ![r] = to]

Reply(r, from, what) ==
  /\ Goto(r, from, "done")
  /\ answer' = [answer EXCEPT ![r] = what]

(* create_save is entered and awaits the upload.                           *)
Arrive(r) ==
  /\ Goto(r, "idle", "reading")
  /\ UNCHANGED <<now, rec, photos, objects, littered, args, start, answer, crashes>>

(* The upload is in and the loop is free: save_photo starts, reads the     *)
(* clock and holds the loop until it returns.                              *)
Begin(r) ==
  /\ \A q \in Requests : SameLoop(q, r) => pc[q] \notin Running
  /\ Goto(r, "reading", "insert")
  /\ start' = [start EXCEPT ![r] = now]
  /\ UNCHANGED <<now, rec, photos, objects, littered, args, answer, crashes>>

(* The primary-key INSERT of _acquire_lease, and its commit.               *)
InsertLease(r) ==
  /\ rec[Key(r)] = NoRec
  /\ Goto(r, "insert", "work")
  /\ rec' = [rec EXCEPT ![Key(r)] =
       [status |-> "processing", digest |-> Digest(r), photo |-> {},
        created |-> start[r], updated |-> start[r]]]
  /\ UNCHANGED <<now, photos, objects, littered, args, start, answer, crashes>>

(* The INSERT hits the primary key and is rolled back.                     *)
InsertConflict(r) ==
  /\ rec[Key(r)] # NoRec
  /\ Goto(r, "insert", "select")
  /\ UNCHANGED <<now, rec, photos, objects, littered, args, start, answer, crashes>>

(* Mutant: the same key with other content is not noticed.                 *)
NeverConflicting(r) == FALSE

(* What _acquire_lease makes of the row it then SELECTs.                   *)
Conflicting(r) == rec[Key(r)].digest # Digest(r)
Leased(r) == /\ rec[Key(r)].status = "processing"
             /\ start[r] - rec[Key(r)].updated < Lease

RowGone(r) ==
  /\ rec[Key(r)] = NoRec
  /\ Reply(r, "select", "SAVE_PROCESSING")
  /\ UNCHANGED <<now, rec, photos, objects, littered, args, start, crashes>>

RefuseConflict(r) ==
  /\ rec[Key(r)] # NoRec /\ Conflicting(r)
  /\ Reply(r, "select", "IDEMPOTENCY_CONFLICT")
  /\ UNCHANGED <<now, rec, photos, objects, littered, args, start, crashes>>

(* _ReplayCompleted: the envelope of the row is the answer.                *)
Replay(r) ==
  /\ rec[Key(r)] # NoRec /\ ~Conflicting(r)
  /\ rec[Key(r)].status = "completed"
  /\ \E p \in rec[Key(r)].photo : Reply(r, "select", p)
  /\ UNCHANGED <<now, rec, photos, objects, littered, args, start, crashes>>

(* Mutant: a request that finds a lease waits for it instead of a 409.     *)
WaitForLease(r) == FALSE

RefuseInProgress(r) ==
  /\ rec[Key(r)] # NoRec /\ ~Conflicting(r) /\ Leased(r)
  /\ Reply(r, "select", "IDEMPOTENCY_IN_PROGRESS")
  /\ UNCHANGED <<now, rec, photos, objects, littered, args, start, crashes>>

(* Mutant: a completed save is taken over like a failed one.               *)
ClaimAny(r) ==
  /\ rec[Key(r)] # NoRec /\ ~Conflicting(r) /\ ~Leased(r)
  /\ Goto(r, "select", "takeover")
  /\ UNCHANGED <<now, rec, photos, objects, littered, args, start, answer, crashes>>

(* Failed, or its lease has run out: this request will take the save over. *)
Claim(r) ==
  /\ rec[Key(r)] # NoRec /\ ~Conflicting(r)
  /\ rec[Key(r)].status # "completed" /\ ~Leased(r)
  /\ Goto(r, "select", "takeover")
  /\ UNCHANGED <<now, rec, photos, objects, littered, args, start, answer, crashes>>

(* The UPDATE that takes over names the key only, not the status or owner  *)
(* the SELECT saw, and does not mind finding no row.                       *)
TakeOver(r) ==
  /\ Goto(r, "takeover", "work")
  /\ rec' = IF rec[Key(r)] = NoRec THEN rec
            ELSE [rec EXCEPT ![Key(r)].status = "processing",
                             ![Key(r)].digest = Digest(r),
                             ![Key(r)].updated = start[r]]
  /\ UNCHANGED <<now, photos, objects, littered, args, start, answer, crashes>>

(* A database error inside _acquire_lease: a 500, and no row is touched.   *)
LeaseError(r) ==
  /\ \E from \in {"insert", "select", "takeover"} : Reply(r, from, "ERROR")
  /\ UNCHANGED <<now, rec, photos, objects, littered, args, start, crashes>>

-----------------------------------------------------------------------------
(* _do_save.                                                               *)

(* storage.delete: only a missing file is no error; any other is raised,   *)
(* and the bytes stay.  The request fails either way.                      *)
Unlink(r) ==
  \/ objects' = objects \ {r} /\ UNCHANGED littered
  \/ /\ Mishaps < MaxMishaps
     /\ objects' = objects \cup {r} /\ littered' = littered \cup {r}

(* The template is unavailable, the image is rejected, or the disk is full:*)
(* a write that fails half way deletes what it wrote.                      *)
Reject(r) ==
  /\ Goto(r, "work", "failing") /\ Unlink(r)
  /\ UNCHANGED <<now, rec, photos, args, start, answer, crashes>>

(* Validated, re-encoded, and written under a random object name.          *)
StoreObject(r) ==
  /\ Goto(r, "work", "stored")
  /\ objects' = objects \cup {r}
  /\ UNCHANGED <<now, rec, photos, littered, args, start, answer, crashes>>

(* KeyRegistry, PhotoRecord(active) and the completed lease row, in one    *)
(* transaction.  The row is upserted: it may have been cleaned up meanwhile.*)
Commit(r) ==
  /\ Reply(r, "stored", r)
  /\ photos' = photos \cup {r}
  /\ rec' = [rec EXCEPT ![Key(r)] =
       [status |-> "completed", digest |-> Digest(r), photo |-> {r},
        created |-> IF rec[Key(r)] = NoRec THEN start[r] ELSE rec[Key(r)].created,
        updated |-> start[r]]]
  /\ UNCHANGED <<now, objects, littered, args, start, crashes>>

(* Mutant: the rollback leaves the object behind.                          *)
CommitFailsKeepsObject(r) ==
  /\ Goto(r, "stored", "failing")
  /\ UNCHANGED <<now, rec, photos, objects, littered, args, start, answer, crashes>>

(* KEYs exhausted, or the database refuses: roll back, delete the object;  *)
(* a rollback that fails leaves the object as well.                        *)
CommitFails(r) ==
  /\ Goto(r, "stored", "failing") /\ Unlink(r)
  /\ UNCHANGED <<now, rec, photos, args, start, answer, crashes>>

(* _mark_failed, and the error is raised to the client.                    *)
MarkFailed(r) ==
  /\ Reply(r, "failing", "ERROR")
  /\ rec' = IF rec[Key(r)] # NoRec /\ rec[Key(r)].status = "processing"
            THEN [rec EXCEPT ![Key(r)].status = "failed", ![Key(r)].updated = start[r]]
            ELSE rec
  /\ UNCHANGED <<now, photos, objects, littered, args, start, crashes>>

(* _mark_failed suppresses a database error of its own: the row stays.     *)
MarkFailedError(r) ==
  /\ Goto(r, "failing", "stranded")
  /\ answer' = [answer EXCEPT ![r] = "ERROR"]
  /\ UNCHANGED <<now, rec, photos, objects, littered, args, start, crashes>>

-----------------------------------------------------------------------------
(* The environment: cleanup, time, crashes.                                *)

(* Mutant: the cleanup looks at created_at alone, which a takeover keeps.  *)
CreatedPastWindow(k) == rec[k] # NoRec /\ rec[k].created <= now - Window

PastWindow(k) ==
  /\ rec[k] # NoRec
  /\ rec[k].created <= now - Window /\ rec[k].updated <= now - Window

(* purge_expired_idempotency.                                              *)
PurgeIdempotency ==
  /\ \E k \in Keys : PastWindow(k)
  /\ rec' = [k \in Keys |-> IF PastWindow(k) THEN NoRec ELSE rec[k]]
  /\ UNCHANGED <<now, photos, objects, littered, pc, args, start, answer, crashes>>

Tick ==
  /\ now < MaxTime
  /\ now' = now + 1
  /\ UNCHANGED <<rec, photos, objects, littered, pc, args, start, answer, crashes>>

(* A process dies and is restarted: its open transaction is rolled back,   *)
(* its requests are never answered, rows and objects stay as they are.     *)
Crash(l) ==
  /\ Mishaps < MaxMishaps
  /\ \E r \in Requests : LoopOf[r] = l /\ pc[r] \in Running
  /\ crashes' = crashes + 1
  /\ pc' = [r \in Requests |->
              IF LoopOf[r] = l /\ pc[r] \in Running \cup {"reading"} THEN "lost" ELSE pc[r]]
  /\ UNCHANGED <<now, rec, photos, objects, littered, args, start, answer>>

Proceed(r) ==
  \/ Begin(r)
  \/ InsertLease(r) \/ InsertConflict(r)
  \/ RowGone(r) \/ RefuseConflict(r) \/ Replay(r) \/ RefuseInProgress(r)
  \/ Claim(r) \/ TakeOver(r)
  \/ Reject(r) \/ StoreObject(r) \/ Commit(r) \/ CommitFails(r)
  \/ MarkFailed(r) \/ MarkFailedError(r)

Handler(r) == Proceed(r) \/ LeaseError(r)

SaveNext ==
  \/ \E r \in Requests : Arrive(r) \/ Handler(r)
  \/ PurgeIdempotency
  \/ Tick
  \/ \E l \in Loops : Crash(l)

(* An event loop keeps running what it has started: a request that can go  *)
(* on goes on or fails, unless its process crashes.  No request depends on *)
(* a database error to get its answer.                                     *)
Fairness == \A r \in Requests : WF_saveVars(Proceed(r))

SaveSpec == SaveInit /\ [][SaveNext]_saveVars /\ Fairness

-----------------------------------------------------------------------------
(* Properties.                                                             *)

TypeOK ==
  /\ now \in Nat
  /\ rec \in [Keys -> Record \cup {NoRec}]
  /\ photos \subseteq Requests /\ objects \subseteq Requests /\ littered \subseteq Requests
  /\ pc \in [Requests -> Running \cup {"idle", "reading", "done", "stranded", "lost"}]
  /\ args \in [Requests -> [key : Keys, digest : Digests]]
  /\ start \in [Requests -> Nat]
  /\ answer \in [Requests -> Requests \cup Refusals \cup {"none"}]
  /\ crashes \in Nat

Fresh(p) == now < start[p] + Window

(* "A post-commit envelope is necessarily replayable": for the whole       *)
(* window a committed photo can be replayed under its idempotency key, so  *)
(* a client that lost the response still gets its KEY and delete secret,   *)
(* whatever takeovers, crashes and cleanups come between.                  *)
CommittedPhotoReplayable ==
  \A p \in photos : Fresh(p) =>
    /\ rec[Key(p)] # NoRec
    /\ rec[Key(p)].status = "completed" /\ rec[Key(p)].photo = {p}

(* Retries do not create a second KEY: two photos made under one           *)
(* idempotency key are at least one replay window apart.                   *)
NoSecondPhotoInWindow ==
  \A p, q \in photos : p # q /\ Key(p) = Key(q) => ~Fresh(p) \/ ~Fresh(q)

(* A request answered with a photo, its own or a replayed one, is answered *)
(* with a committed photo of exactly the content it sent.                  *)
AnswerMatchesContent ==
  \A r \in Requests : answer[r] \in Requests =>
    answer[r] \in photos /\ args[answer[r]] = args[r]

(* An orderly failure releases the lease: a row says "processing" only     *)
(* while a request works on it, or when the one that did crashed or could  *)
(* not write.  Otherwise every retry would get 409 until the lease ends.   *)
ProcessingHasOwner ==
  \A k \in Keys : rec[k] # NoRec /\ rec[k].status = "processing" =>
    \E r \in Requests : Key(r) = k /\ pc[r] \in Holding \cup {"stranded", "lost"}

(* A save that was answered has bytes on disk when it committed, and else  *)
(* only when it tried to remove them and could not: nothing but that and a *)
(* crash leaves an object for the orphan sweep, however saves, takeovers   *)
(* and failures of the lease's own writes interleave.                      *)
AnsweredSaveLeavesNoOrphan ==
  \A r \in Requests : pc[r] \in {"done", "stranded"} =>
    (r \in objects <=> r \in photos \cup littered)

(* Every request that reached the server is answered unless its process    *)
(* dies: no interleaving of saves on one loop starves another.             *)
EveryRequestAnswered ==
  \A r \in Requests : pc[r] = "reading" ~> pc[r] \in {"done", "stranded", "lost"}
=============================================================================

-------------------------- MODULE PhotoLifecycle --------------------------
(***************************************************************************)
(* The life of a staged photo on the server: the commit of a save          *)
(* (save_service.py), delete_save (routers/saves.py), resolve and download *)
(* (routers/retrievals.py), the lifecycle worker (worker.py) and the       *)
(* object store (storage.py), over one SQLite database (db.py).            *)
(*                                                                         *)
(* SQLite has one writer at a time and readers that see the last commit.   *)
(* db is the committed state, tx the writer's view of it: tx = db while    *)
(* nobody writes, a commit copies tx to db, a rollback or a crash copies   *)
(* db to tx.  Objects on disk are outside the transaction.  A step is what *)
(* one thread does up to its next visible effect; statements inside a      *)
(* transaction that touch no file are folded into the next one that does,  *)
(* or into its commit.                                                     *)
(*                                                                         *)
(* A photo is named by the save that made it and an object by its photo; a *)
(* grant is named by the resolve request that issued it.  The idempotency  *)
(* lease of a save is module SaveLease, the rate limiter module RateLimit. *)
(***************************************************************************)
EXTENDS Naturals, FiniteSets

CONSTANTS
  Photos,     (* the saves of a behaviour, each of one photo               *)
  Keys,       (* the KEY space                                             *)
  Deletes,    (* DELETE /saves requests                                    *)
  Resolves,   (* POST /retrievals/resolve requests                         *)
  Downloads,  (* POST /retrievals/download requests                        *)
  Worker,     (* the lifecycle worker thread                               *)
  Nobody,     (* no writer, no KEY, no photo, no row                       *)
  Stuck,      (* photos whose object the file system refuses to unlink     *)
  MaxFaults,  (* bound on database and file errors                         *)
  MaxCrashes  (* bound on process crashes                                  *)

ASSUME PhotoAssumption ==
  /\ Nobody \notin Photos \cup Keys \cup Deletes \cup Resolves \cup Downloads \cup {Worker}
  /\ Worker \notin Deletes /\ Stuck \subseteq Photos
  /\ MaxFaults \in Nat /\ MaxCrashes \in Nat

VARIABLES
  db,         (* committed photo_records, key_registry, download_grants    *)
  tx,         (* the same tables as the writer sees them                   *)
  writer,     (* who holds SQLite's write lock                             *)
  objects,    (* photos whose object is on disk                            *)
  expired,    (* photos whose expires_at has passed                        *)
  aged,       (* photos whose object is older than orphan_min_age_seconds  *)
  stale,      (* grants whose expires_at has passed                        *)
  issued,     (* the KEY each committed save returned (history)            *)
  save, del, res, down,   (* where each request is, and what it remembers  *)
  work,       (* where the worker is, and the photos it has still to erase *)
  faults, crashes

tables == <<db, tx, writer>>
clocks == <<expired, aged, stale>>
actors == <<save, del, res, down, work>>
bounds == <<faults, crashes>>
vars == <<db, tx, writer, objects, expired, aged, stale, issued,
          save, del, res, down, work, faults, crashes>>

Status == {"active", "access-revoked", "purging", "purged"}
Row == [status : Status, epoch : Nat, due : BOOLEAN, key : Keys]
RegistryRow == [state : {"active", "retired"}, photo : Photos \cup {Nobody}]
Grant == [photo : Photos, epoch : Nat, consumed : BOOLEAN]

NoRow == [status |-> "none", epoch |-> 0, due |-> FALSE, key |-> Nobody]
NoKey == [state |-> "none", photo |-> Nobody]
NoGrant == [photo |-> Nobody, epoch |-> 0, consumed |-> FALSE]

Init ==
  /\ db = [photo |-> [p \in Photos |-> NoRow], key |-> [k \in Keys |-> NoKey],
           grant |-> [v \in Resolves |-> NoGrant]]
  /\ tx = db /\ writer = Nobody
  /\ objects = {} /\ expired = {} /\ aged = {} /\ stale = {}
  /\ issued = [p \in Photos |-> Nobody]
  /\ save = [p \in Photos |-> "idle"]
  /\ del = [d \in Deletes |-> [pc |-> "idle", photo |-> Nobody]]
  /\ res = [v \in Resolves |-> [pc |-> "idle", photo |-> Nobody, found |-> Nobody, epoch |-> 0]]
  /\ down = [w \in Downloads |-> [pc |-> "idle", grant |-> Nobody, photo |-> Nobody,
                                  epoch |-> 0, live |-> FALSE]]
  /\ work = [pc |-> "idle", queue |-> {}]
  /\ faults = 0 /\ crashes = 0

-----------------------------------------------------------------------------
(* Transactions.                                                           *)

(* A transaction of one commit: it needs the write lock, and leaves it.    *)
Write(new) == writer = Nobody /\ db' = new /\ tx' = new /\ writer' = Nobody

Rollback == tx' = db /\ writer' = Nobody /\ UNCHANGED db

(* A database error or a busy timeout, or a file system error on p.        *)
Fault == faults < MaxFaults /\ faults' = faults + 1 /\ UNCHANGED crashes
FileFault(p) == IF p \in Stuck THEN UNCHANGED bounds ELSE Fault

(* The row a KEY leads to: photo_records joined with key_registry.         *)
Holders(d, k) == {p \in Photos : d.photo[p].status # "none" /\ d.photo[p].key = k}

(* Mutant: the registry row goes with the photo, and the KEY is free again.*)
PurgeFreesKey(t, p) ==
  [photo |-> IF t.photo[p].status = "none" THEN t.photo
             ELSE [t.photo EXCEPT ![p].status = "purged"],
   key   |-> [k \in Keys |-> IF t.key[k].photo = p THEN NoKey ELSE t.key[k]],
   grant |-> t.grant]

(* purge_photo, all four statements, on the tables t.  The unlink comes    *)
(* with it in the actions that use it.                                     *)
PurgePhoto(t, p) ==
  [photo |-> IF t.photo[p].status = "none" THEN t.photo
             ELSE [t.photo EXCEPT ![p].status = "purged"],
   key   |-> [k \in Keys |-> IF t.key[k].photo = p
                             THEN [state |-> "retired", photo |-> Nobody] ELSE t.key[k]],
   grant |-> [v \in Resolves |-> IF t.grant[v].photo = p
                             THEN [t.grant[v] EXCEPT !.consumed = TRUE] ELSE t.grant[v]]]

(* The first statement of purge_expired: active photos past expires_at.    *)
ExpireRows(t) ==
  [t EXCEPT !.photo = [p \in Photos |->
     IF t.photo[p].status = "active" /\ p \in expired
     THEN [t.photo[p] EXCEPT !.status = "access-revoked", !.epoch = @ + 1]
     ELSE t.photo[p]]]

-----------------------------------------------------------------------------
(* A save, from the object write on.                                       *)

StoreObject(p) ==
  /\ save[p] = "idle"
  /\ save' = [save EXCEPT ![p] = "stored"]
  /\ objects' = objects \cup {p}
  /\ UNCHANGED <<tables, clocks, issued, del, res, down, work, bounds>>

(* _reserve_key draws KEYs until the registry has no row for one; with the *)
(* photo row and the registry update this is one transaction.              *)
CommitSave(p) ==
  /\ save[p] = "stored"
  /\ \E k \in Keys :
       /\ db.key[k] = NoKey
       /\ Write([db EXCEPT
            !.photo[p] = [status |-> "active", epoch |-> 0, due |-> FALSE, key |-> k],
            !.key[k] = [state |-> "active", photo |-> p]])
       /\ issued' = [issued EXCEPT ![p] = k]
  /\ save' = [save EXCEPT ![p] = "done"]
  /\ UNCHANGED <<objects, clocks, del, res, down, work, bounds>>

(* KEY_EXHAUSTED or a database error: roll back and delete the object.     *)
SaveFails(p) ==
  /\ save[p] = "stored"
  /\ save' = [save EXCEPT ![p] = "failed"]
  /\ objects' = objects \ ({p} \ Stuck)
  /\ IF \A k \in Keys : db.key[k] # NoKey THEN UNCHANGED bounds ELSE Fault
  /\ UNCHANGED <<tables, clocks, issued, del, res, down, work>>

-----------------------------------------------------------------------------
(* delete_save, called with the KEY and delete secret of photo p.          *)

DelGoto(d, from, to) == del[d].pc = from /\ del' = [del EXCEPT ![d].pc = to]

DeleteArrive(d, p) ==
  /\ del[d].pc = "idle" /\ issued[p] # Nobody
  /\ del' = [del EXCEPT ![d] = [pc |-> "look", photo |-> p]]
  /\ UNCHANGED <<tables, objects, clocks, issued, save, res, down, work, bounds>>

(* The row of the KEY is there, not purged, and its digest is the secret's.*)
Deletable(p) == p \in Holders(db, issued[p]) /\ db.photo[p].status # "purged"

DeleteLookup(d) ==
  /\ DelGoto(d, "look", IF Deletable(del[d].photo) THEN "revoke" ELSE "ok")
  /\ UNCHANGED <<tables, objects, clocks, issued, save, res, down, work, bounds>>

(* A SELECT that fails, and a rollback that fails after a failed UPDATE,   *)
(* land in the handler's outer except, which answers 204 as well.          *)
DeleteExcepted(d) ==
  /\ DelGoto(d, "look", "excepted") \/ DelGoto(d, "revoke", "excepted")
  /\ Fault
  /\ UNCHANGED <<tables, objects, clocks, issued, save, res, down, work>>

(* Mutant: the photo is revoked but not put up for purge_due.              *)
RevokeNotDue(d) ==
  LET p == del[d].photo IN
  /\ DelGoto(d, "revoke", "purge")
  /\ Write(IF db.photo[p].status = "none" THEN db
           ELSE [db EXCEPT !.photo[p].status = "access-revoked",
                           !.photo[p].epoch = @ + 1])
  /\ UNCHANGED <<objects, clocks, issued, save, res, down, work, bounds>>

(* Step one: the revocation, committed by itself.  The UPDATE names the id *)
(* only, whatever the row has become since it was read.                    *)
Revoke(d) ==
  LET p == del[d].photo IN
  /\ DelGoto(d, "revoke", "purge")
  /\ Write(IF db.photo[p].status = "none" THEN db
           ELSE [db EXCEPT !.photo[p].status = "access-revoked",
                           !.photo[p].epoch = @ + 1, !.photo[p].due = TRUE])
  /\ UNCHANGED <<objects, clocks, issued, save, res, down, work, bounds>>

(* Mutant: the failed revocation is answered 204.                          *)
RevokeFailsSilently(d) ==
  /\ DelGoto(d, "revoke", "ok") /\ Fault
  /\ UNCHANGED <<tables, objects, clocks, issued, save, res, down, work>>

RevokeFails(d) ==
  /\ DelGoto(d, "revoke", "unavailable") /\ Fault
  /\ UNCHANGED <<tables, objects, clocks, issued, save, res, down, work>>

(* Step two: purge_photo in a second transaction, up to its commit.        *)
DeleteUnlink(d) ==
  LET p == del[d].photo IN
  /\ writer = Nobody /\ p \notin Stuck
  /\ DelGoto(d, "purge", "commit")
  /\ writer' = d /\ tx' = PurgePhoto(db, p) /\ objects' = objects \ {p}
  /\ UNCHANGED <<db, clocks, issued, save, res, down, work, bounds>>

DeleteCommit(d) ==
  /\ DelGoto(d, "commit", "ok")
  /\ db' = tx /\ writer' = Nobody
  /\ UNCHANGED <<tx, objects, clocks, issued, save, res, down, work, bounds>>

(* Step two fails: rolled back, answered 204 all the same.                 *)
DeletePurgeFails(d) ==
  /\ \/ DelGoto(d, "purge", "ok") /\ FileFault(del[d].photo) /\ UNCHANGED tables
     \/ DelGoto(d, "commit", "ok") /\ Fault /\ Rollback
  /\ UNCHANGED <<objects, clocks, issued, save, res, down, work>>

-----------------------------------------------------------------------------
(* resolve, called with the KEY issued for photo p.                        *)

ResGoto(v, from, to) == res[v].pc = from /\ res' = [res EXCEPT ![v].pc = to]

ResolveArrive(v, p) ==
  /\ res[v].pc = "idle" /\ issued[p] # Nobody
  /\ res' = [res EXCEPT ![v].pc = "look", ![v].photo = p]
  /\ UNCHANGED <<tables, objects, clocks, issued, save, del, down, work, bounds>>

Resolvable(p, k) ==
  /\ p \in Holders(db, k) /\ db.key[k].state = "active"
  /\ db.photo[p].status = "active" /\ p \notin expired

ResolveLookup(v) ==
  LET k == issued[res[v].photo] IN
  /\ res[v].pc = "look"
  /\ \/ \E p \in Photos : Resolvable(p, k)
          /\ res' = [res EXCEPT ![v] = [@ EXCEPT
                 !.pc = "issue", !.found = p, !.epoch = db.photo[p].epoch]]
     \/ (\A p \in Photos : ~Resolvable(p, k)) /\ ResGoto(v, "look", "refused")
  /\ UNCHANGED <<tables, objects, clocks, issued, save, del, down, work, bounds>>

(* The rate limiter refuses, before the lookup or after it.                *)
ResolveLimited(v) ==
  /\ ResGoto(v, "look", "refused") \/ ResGoto(v, "issue", "refused")
  /\ UNCHANGED <<tables, objects, clocks, issued, save, del, down, work, bounds>>

(* The grant carries the epoch that was read, however old it now is.       *)
IssueGrant(v) ==
  /\ ResGoto(v, "issue", "granted")
  /\ Write([db EXCEPT !.grant[v] =
       [photo |-> res[v].found, epoch |-> res[v].epoch, consumed |-> FALSE]])
  /\ UNCHANGED <<objects, clocks, issued, save, del, down, work, bounds>>

IssueFails(v) ==
  /\ ResGoto(v, "issue", "refused") /\ Fault
  /\ UNCHANGED <<tables, objects, clocks, issued, save, del, down, work>>

-----------------------------------------------------------------------------
(* download, called with the token of resolve request v.                   *)

DownGoto(w, from, to) == down[w].pc = from /\ down' = [down EXCEPT ![w].pc = to]

(* Mutant: the photo's own expiry is not looked at, only its grant's.      *)
DownloadLookupGrantOnly(w, v) ==
  LET g == db.grant[v] IN
  /\ down[w].pc = "idle" /\ res[v].pc = "granted"
  /\ down' = [down EXCEPT ![w] =
       IF g # NoGrant /\ ~g.consumed /\ v \notin stale
       THEN [pc |-> "check", grant |-> v, photo |-> g.photo, epoch |-> g.epoch,
             live |-> db.photo[g.photo].status = "active"]
       ELSE [@ EXCEPT !.pc = "refused"]]
  /\ UNCHANGED <<tables, objects, clocks, issued, save, del, res, work, bounds>>

(* The grant is read and the clock with it: both expiry checks use the     *)
(* time the handler started.  live remembers whether the photo was then    *)
(* active (history: the handler has not looked yet).                       *)
DownloadLookup(w, v) ==
  LET g == db.grant[v] IN
  /\ down[w].pc = "idle" /\ res[v].pc = "granted"
  /\ down' = [down EXCEPT ![w] =
       IF g # NoGrant /\ ~g.consumed /\ v \notin stale /\ g.photo \notin expired
       THEN [pc |-> "check", grant |-> v, photo |-> g.photo, epoch |-> g.epoch,
             live |-> db.photo[g.photo].status = "active"]
       ELSE [@ EXCEPT !.pc = "refused"]]
  /\ UNCHANGED <<tables, objects, clocks, issued, save, del, res, work, bounds>>

DownloadCheck(w) ==
  LET row == db.photo[down[w].photo] IN
  /\ DownGoto(w, "check", IF row.status = "active" /\ row.epoch = down[w].epoch
                          THEN "consume" ELSE "refused")
  /\ UNCHANGED <<tables, objects, clocks, issued, save, del, res, work, bounds>>

(* UPDATE ... WHERE consumed_at IS NULL: the database decides who wins.    *)
Unconsumed(v) == db.grant[v] # NoGrant /\ ~db.grant[v].consumed

(* Mutant: the UPDATE does not ask whether the grant is still unconsumed.  *)
ConsumeAnyway(w) ==
  /\ DownGoto(w, "consume", "read")
  /\ Write([db EXCEPT !.grant[down[w].grant].consumed = TRUE])
  /\ UNCHANGED <<objects, clocks, issued, save, del, res, work, bounds>>

Consume(w) ==
  LET v == down[w].grant IN
  /\ DownGoto(w, "consume", IF Unconsumed(v) THEN "read" ELSE "refused")
  /\ Write(IF Unconsumed(v) THEN [db EXCEPT !.grant[v].consumed = TRUE] ELSE db)
  /\ UNCHANGED <<objects, clocks, issued, save, del, res, work, bounds>>

ConsumeFails(w) ==
  /\ DownGoto(w, "consume", "refused") /\ Fault
  /\ UNCHANGED <<tables, objects, clocks, issued, save, del, res, work>>

ReadObject(w) ==
  /\ DownGoto(w, "read", IF down[w].photo \in objects THEN "served" ELSE "refused")
  /\ UNCHANGED <<tables, objects, clocks, issued, save, del, res, work, bounds>>

-----------------------------------------------------------------------------
(* run_once of the worker.  Any exception ends the run; the next starts    *)
(* from the beginning.                                                     *)

WorkGoto(from, to) == work.pc = from /\ work' = [work EXCEPT !.pc = to]

Erasable(t, p) == t.photo[p].status \in {"access-revoked", "purging"}

(* purge_expired takes the lock with its first statement.                  *)
WorkerExpire ==
  /\ work.pc = "idle" /\ writer = Nobody
  /\ writer' = Worker /\ tx' = ExpireRows(db)
  /\ work' = [work EXCEPT !.pc = "expire",
                !.queue = {p \in Photos : Erasable(ExpireRows(db), p) /\ p \in expired}]
  /\ UNCHANGED <<db, objects, clocks, issued, save, del, res, down, bounds>>

(* purge_due reads its photos before it has the lock.                      *)
WorkerDue ==
  /\ work.pc = "due"
  /\ work' = [work EXCEPT !.pc = "purge",
                !.queue = {p \in Photos : Erasable(db, p) /\ db.photo[p].due}]
  /\ UNCHANGED <<tables, objects, clocks, issued, save, del, res, down, bounds>>

(* purge_photo for one photo of the queue; the lock is taken if need be.   *)
WorkerPurge(p) ==
  /\ work.pc \in {"expire", "purge"} /\ p \in work.queue \ Stuck
  /\ writer \in {Nobody, Worker}
  /\ writer' = Worker /\ tx' = PurgePhoto(tx, p) /\ objects' = objects \ {p}
  /\ work' = [work EXCEPT !.queue = @ \ {p}]
  /\ UNCHANGED <<db, clocks, issued, save, del, res, down, bounds>>

WorkerCommit ==
  /\ work.queue = {}
  /\ \/ WorkGoto("expire", "due")
     \/ WorkGoto("purge", "sweep")
  /\ IF writer = Worker THEN db' = tx /\ writer' = Nobody ELSE UNCHANGED <<db, writer>>
  /\ UNCHANGED <<tx, objects, clocks, issued, save, del, res, down, bounds>>

(* Mutant: the age comparison the wrong way round.                         *)
WorkerOrphansTooYoung ==
  /\ work.pc = "sweep"
  /\ work' = [pc |-> "walk", queue |-> {p \in objects \ aged : issued[p] = Nobody}]
  /\ UNCHANGED <<tables, objects, clocks, issued, save, del, res, down, bounds>>

(* sweep_orphans: the objects no row refers to, then the cutoff.  An object *)
(* whose save commits between the two is far too young to be among them.   *)
WorkerOrphans ==
  /\ work.pc = "sweep"
  /\ work' = [pc |-> "walk",
              queue |-> {p \in objects \cap aged : db.photo[p].status = "none"}]
  /\ UNCHANGED <<tables, objects, clocks, issued, save, del, res, down, bounds>>

(* The directory walk meets the orphans in any order.                      *)
WorkerSweep(p) ==
  /\ work.pc = "walk" /\ p \in (work.queue \cap objects) \ Stuck
  /\ objects' = objects \ {p}
  /\ UNCHANGED <<tables, clocks, issued, actors, bounds>>

WorkerSwept ==
  /\ work.queue \cap objects = {} /\ WorkGoto("walk", "grants")
  /\ UNCHANGED <<tables, objects, clocks, issued, save, del, res, down, bounds>>

(* purge_consumed_grants.                                                  *)
WorkerDropGrants ==
  /\ WorkGoto("grants", "records")
  /\ Write([db EXCEPT !.grant = [v \in Resolves |->
       IF db.grant[v].consumed \/ v \in stale THEN NoGrant ELSE db.grant[v]]])
  /\ UNCHANGED <<objects, clocks, issued, save, del, res, down, bounds>>

(* Mutant: rows are dropped as soon as they are revoked.                   *)
WorkerDropRevoked ==
  /\ work.pc = "records"
  /\ work' = [pc |-> "idle", queue |-> {}]
  /\ Write([db EXCEPT !.photo = [p \in Photos |->
       IF db.photo[p].status # "active" THEN NoRow ELSE db.photo[p]]])
  /\ UNCHANGED <<objects, clocks, issued, save, del, res, down, bounds>>

(* purge_purged_photo_records.                                             *)
WorkerDropRecords ==
  /\ work.pc = "records"
  /\ work' = [pc |-> "idle", queue |-> {}]
  /\ Write([db EXCEPT !.photo = [p \in Photos |->
       IF db.photo[p].status = "purged" THEN NoRow ELSE db.photo[p]]])
  /\ UNCHANGED <<objects, clocks, issued, save, del, res, down, bounds>>

(* An exception anywhere in the run: closing the connection rolls back.    *)
WorkerFails ==
  /\ work.pc # "idle"
  /\ work' = [pc |-> "idle", queue |-> {}]
  /\ IF work.pc \in {"expire", "purge", "walk"} /\ work.queue \cap Stuck # {}
     THEN UNCHANGED bounds ELSE Fault
  /\ IF writer = Worker THEN Rollback ELSE UNCHANGED tables
  /\ UNCHANGED <<objects, clocks, issued, save, del, res, down>>

-----------------------------------------------------------------------------
(* Time and crashes.                                                       *)

PhotoExpires(p) ==
  /\ issued[p] # Nobody /\ p \notin expired
  /\ expired' = expired \cup {p}
  /\ UNCHANGED <<tables, objects, aged, stale, issued, actors, bounds>>

(* An object passes the orphan age gate.  Assumption: a live save commits  *)
(* or fails before its object does (15 minutes against a 10 s lock wait).  *)
ObjectAges(p) ==
  /\ p \in objects \ aged /\ save[p] # "stored"
  /\ aged' = aged \cup {p}
  /\ UNCHANGED <<tables, objects, expired, stale, issued, actors, bounds>>

GrantExpires(v) ==
  /\ res[v].pc = "granted" /\ v \notin stale
  /\ stale' = stale \cup {v}
  /\ UNCHANGED <<tables, objects, expired, aged, issued, actors, bounds>>

(* The process dies and restarts: requests are dropped, the transaction in *)
(* progress is rolled back, committed rows and objects remain.             *)
Dropped(f, kept) ==
  [x \in DOMAIN f |-> IF f[x].pc \in kept THEN f[x] ELSE [f[x] EXCEPT !.pc = "lost"]]

Crash ==
  /\ crashes < MaxCrashes
  /\ crashes' = crashes + 1
  /\ Rollback
  /\ save' = [p \in Photos |-> IF save[p] = "stored" THEN "failed" ELSE save[p]]
  /\ del' = Dropped(del, {"idle", "ok", "excepted", "unavailable"})
  /\ res' = Dropped(res, {"idle", "granted", "refused"})
  /\ down' = Dropped(down, {"idle", "served", "refused"})
  /\ work' = [pc |-> "idle", queue |-> {}]
  /\ UNCHANGED <<objects, clocks, issued, faults>>

SaveStep(p) == StoreObject(p) \/ CommitSave(p) \/ SaveFails(p)

DeleteStep(d) ==
  \/ DeleteLookup(d) \/ DeleteExcepted(d)
  \/ Revoke(d) \/ RevokeFails(d)
  \/ DeleteUnlink(d) \/ DeleteCommit(d) \/ DeletePurgeFails(d)

ResolveStep(v) ==
  \/ ResolveLookup(v) \/ ResolveLimited(v) \/ IssueGrant(v) \/ IssueFails(v)

DownloadStep(w) == DownloadCheck(w) \/ Consume(w) \/ ConsumeFails(w) \/ ReadObject(w)

WorkerStep ==
  \/ WorkerExpire \/ WorkerDue \/ WorkerCommit
  \/ \E p \in Photos : WorkerPurge(p) \/ WorkerSweep(p)
  \/ WorkerOrphans \/ WorkerSwept
  \/ WorkerDropGrants \/ WorkerDropRecords \/ WorkerFails

Time ==
  \/ \E p \in Photos : PhotoExpires(p) \/ ObjectAges(p)
  \/ \E v \in Resolves : GrantExpires(v)

Next ==
  \/ \E p \in Photos : SaveStep(p)
  \/ \E d \in Deletes : (\E p \in Photos : DeleteArrive(d, p)) \/ DeleteStep(d)
  \/ \E v \in Resolves : (\E p \in Photos : ResolveArrive(v, p)) \/ ResolveStep(v)
  \/ \E w \in Downloads : (\E v \in Resolves : DownloadLookup(w, v)) \/ DownloadStep(w)
  \/ WorkerStep
  \/ Time
  \/ Crash

(* The event loop, the thread pool and the worker's timer keep running     *)
(* what they have started; nobody is obliged to send a request.            *)
Fairness ==
  /\ \A p \in Photos : WF_vars(save[p] = "stored" /\ SaveStep(p))
  /\ \A d \in Deletes : WF_vars(DeleteStep(d))
  /\ \A v \in Resolves : WF_vars(ResolveStep(v))
  /\ \A w \in Downloads : WF_vars(DownloadStep(w))
  /\ WF_vars(WorkerStep)

Spec == Init /\ [][Next]_vars /\ Fairness

-----------------------------------------------------------------------------
(* Properties.                                                             *)

Tables == [photo : [Photos -> Row \cup {NoRow}],
           key : [Keys -> RegistryRow \cup {NoKey}],
           grant : [Resolves -> Grant \cup {NoGrant}]]

Del == [photo : Photos \cup {Nobody},
        pc : {"idle", "look", "revoke", "purge", "commit", "ok", "excepted", "unavailable",
              "lost"}]
Res == [photo : Photos \cup {Nobody}, found : Photos \cup {Nobody}, epoch : Nat,
        pc : {"idle", "look", "issue", "granted", "refused", "lost"}]
Down == [grant : Resolves \cup {Nobody}, photo : Photos \cup {Nobody}, epoch : Nat,
         live : BOOLEAN,
         pc : {"idle", "check", "consume", "read", "served", "refused", "lost"}]
Work == [queue : SUBSET Photos,
         pc : {"idle", "expire", "due", "purge", "sweep", "walk", "grants", "records"}]

TypeOK ==
  /\ db \in Tables /\ tx \in Tables
  /\ writer \in {Nobody, Worker} \cup Deletes
  /\ objects \subseteq Photos /\ expired \subseteq Photos /\ aged \subseteq Photos
  /\ stale \subseteq Resolves
  /\ issued \in [Photos -> Keys \cup {Nobody}]
  /\ save \in [Photos -> {"idle", "stored", "done", "failed"}]
  /\ del \in [Deletes -> Del] /\ res \in [Resolves -> Res] /\ down \in [Downloads -> Down]
  /\ work \in Work
  /\ faults \in 0 .. MaxFaults /\ crashes \in 0 .. MaxCrashes

(* A download token yields the photo at most once, also when two downloads *)
(* run side by side, and also when the worker drops the consumed row.      *)
SingleUse ==
  \A w, x \in Downloads :
    /\ down[w].pc \in {"read", "served"} /\ down[x].pc \in {"read", "served"}
    /\ down[w].grant = down[x].grant
    => w = x

(* "A row reaching purged means the bytes are no longer on disk", and so   *)
(* does a row that was dropped.                                            *)
PurgedMeansBytesGone ==
  \A p \in Photos : issued[p] # Nobody /\ db.photo[p].status \in {"none", "purged"} =>
    p \notin objects

(* A KEY is never given out again, so whoever holds one resolves to the    *)
(* photo it was issued for or to nothing, long after that photo is gone.   *)
KeyLeadsToItsPhoto ==
  \A v \in Resolves : res[v].pc \in {"issue", "granted"} => res[v].found = res[v].photo

(* "Reporting success when the revocation did not land is a direct privacy *)
(* incident" (saves.py): a delete with the right secret that was answered  *)
(* 204 has revoked, whatever it raced with and whatever failed after the   *)
(* revocation.  The one 204 that says nothing is that of the outer except, *)
(* after a failing SELECT or a failing rollback.                           *)
Answered204(d) == del[d].pc \in {"ok", "excepted"}
DeleteOkMeansRevoked ==
  \A d \in Deletes :
    Answered204(d) => db.photo[del[d].photo].status # "active" \/ del[d].pc = "excepted"

(* What is revoked or expired is physically deleted in the end, by the     *)
(* delete itself or by a later run of the worker, across faults and crashes.*)
EventuallyErased ==
  \A p \in Photos :
    issued[p] # Nobody /\ (p \in expired \/ db.photo[p].status # "active")
      ~> p \notin objects

(* Bytes that a crashed save left behind are swept once they are old enough.*)
OrphansSwept ==
  \A p \in Photos : issued[p] = Nobody /\ p \in aged ~> p \notin objects

(* How PhotoVault's state is read off this one.                            *)
Life(p) ==
  IF issued[p] = Nobody THEN "none"
  ELSE IF db.photo[p].status = "active" /\ p \notin expired THEN "alive" ELSE "dead"

Reader(w) ==
  LET r == down[w] IN
  IF r.pc = "idle" THEN [at |-> "idle", photo |-> Nobody]
  ELSE IF r.pc = "served" THEN [at |-> "served", photo |-> r.photo]
  ELSE IF r.pc \in {"check", "consume", "read"} /\ r.live
       THEN [at |-> "reading", photo |-> r.photo]
  ELSE [at |-> "refused", photo |-> Nobody]

Vault == INSTANCE PhotoVault WITH
  Readers <- Downloads, bytes <- objects,
  life <- [p \in Photos |-> Life(p)], reader <- [w \in Downloads |-> Reader(w)]

(* The service keeps the promise of PhotoVault: every step of the tables,  *)
(* the files and the requests is a step of the vault or changes nothing in *)
(* it, so a photo never loses its bytes while a KEY retrieves it, never    *)
(* comes back, and is served only to a download that began in its life.    *)
KeepsVault == Vault!VaultSpec

(* What delete_save says of its second step: when it fails, "the worker's  *)
(* purge_due completes the byte cleanup next round", whatever trouble the  *)
(* objects of other photos give.                                           *)
PurgeDueCompletesCleanup ==
  \A p \in Photos \ Stuck : db.photo[p].due ~> p \notin objects

=============================================================================

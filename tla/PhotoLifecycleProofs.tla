------------------------ MODULE PhotoLifecycleProofs ------------------
(***************************************************************************)
(* Proofs about PhotoLifecycle, for every number of photos, KEYs and       *)
(* requests, every set of stuck objects, and any number of faults and      *)
(* crashes.                                                                *)
(***************************************************************************)
EXTENDS PhotoLifecycle, TLAPS

-----------------------------------------------------------------------------
(* The operators on the tables.                                            *)

LEMMA PurgePhotoEffect ==
  ASSUME NEW t \in Tables, NEW p \in Photos
  PROVE  /\ PurgePhoto(t, p) \in Tables
         /\ \A q \in Photos :
              /\ PurgePhoto(t, p).photo[q].key = t.photo[q].key
              /\ PurgePhoto(t, p).photo[q].status =
                   IF q = p /\ t.photo[q].status # "none" THEN "purged" ELSE t.photo[q].status
         /\ \A k \in Keys : t.key[k] # NoKey => PurgePhoto(t, p).key[k] # NoKey
         /\ \A v \in Resolves :
              /\ PurgePhoto(t, p).grant[v].photo = t.grant[v].photo
              /\ t.grant[v].consumed => PurgePhoto(t, p).grant[v].consumed
              /\ t.grant[v] = NoGrant => PurgePhoto(t, p).grant[v] = NoGrant
<1> DEFINE u == PurgePhoto(t, p)
<1>1. u.photo \in [Photos -> Row \cup {NoRow}]
  BY DEF PurgePhoto, Tables, Row, NoRow, Status
<1>2. u.key \in [Keys -> RegistryRow \cup {NoKey}]
  BY DEF PurgePhoto, Tables, RegistryRow, NoKey
<1>3. u.grant \in [Resolves -> Grant \cup {NoGrant}]
  <2> SUFFICES ASSUME NEW v \in Resolves PROVE u.grant[v] \in Grant \cup {NoGrant}
    BY DEF PurgePhoto
  <2>1. CASE t.grant[v] = NoGrant
    BY <2>1, PhotoAssumption DEF PurgePhoto, NoGrant
  <2>2. CASE t.grant[v] \in Grant
    BY <2>2 DEF PurgePhoto, Grant
  <2> QED BY <2>1, <2>2 DEF Tables
<1>4. u \in Tables
  BY <1>1, <1>2, <1>3 DEF PurgePhoto, Tables
<1>5. \A q \in Photos :
        /\ u.photo[q].key = t.photo[q].key
        /\ u.photo[q].status =
             IF q = p /\ t.photo[q].status # "none" THEN "purged" ELSE t.photo[q].status
  BY DEF PurgePhoto, Tables, Row, NoRow
<1>6. \A k \in Keys : t.key[k] # NoKey => u.key[k] # NoKey
  BY DEF PurgePhoto, NoKey
<1>7. \A v \in Resolves : /\ u.grant[v].photo = t.grant[v].photo
                          /\ t.grant[v].consumed => u.grant[v].consumed
  BY DEF PurgePhoto, Tables, Grant, NoGrant
<1>8. \A v \in Resolves : t.grant[v] = NoGrant => u.grant[v] = NoGrant
  BY PhotoAssumption DEF PurgePhoto, NoGrant
<1> QED BY <1>4, <1>5, <1>6, <1>7, <1>8

(* A row that is revoked, by the worker or by a delete.                    *)
RowTypes == Row \cup {NoRow}

(* A row that is revoked is a row.                                         *)
LEMMA RevokedRow ==
  ASSUME NEW row \in RowTypes, row.status # "none"
  PROVE  /\ [row EXCEPT !.status = "access-revoked", !.epoch = @ + 1] \in RowTypes
         /\ [row EXCEPT !.status = "access-revoked", !.epoch = @ + 1, !.due = TRUE] \in RowTypes
         /\ [row EXCEPT !.status = "access-revoked", !.epoch = @ + 1].status = "access-revoked"
         /\ [row EXCEPT !.status = "access-revoked", !.epoch = @ + 1].key = row.key
         /\ [row EXCEPT !.status = "access-revoked", !.epoch = @ + 1, !.due = TRUE].status
              = "access-revoked"
         /\ [row EXCEPT !.status = "access-revoked", !.epoch = @ + 1, !.due = TRUE].key = row.key
<1>1. row \in Row
  BY DEF RowTypes, NoRow
<1>2. row.epoch + 1 \in Nat
  BY <1>1 DEF Row
<1> QED BY <1>1, <1>2 DEF RowTypes, Row, Status

(* The three tables and what their rows may be.                            *)
LEMMA TablesShape ==
  ASSUME NEW t \in Tables
  PROVE  /\ t = [photo |-> t.photo, key |-> t.key, grant |-> t.grant]
         /\ t.photo \in [Photos -> RowTypes]
         /\ t.key \in [Keys -> RegistryRow \cup {NoKey}]
         /\ t.grant \in [Resolves -> Grant \cup {NoGrant}]
BY DEF Tables, RowTypes

(* What an expiry does to the rows.                                        *)
LEMMA ExpireRowsEffect ==
  ASSUME NEW t \in Tables
  PROVE  /\ ExpireRows(t) \in Tables
         /\ \A q \in Photos :
              /\ ExpireRows(t).photo[q].key = t.photo[q].key
              /\ ExpireRows(t).photo[q].status =
                   IF t.photo[q].status = "active" /\ q \in expired THEN "access-revoked"
                   ELSE t.photo[q].status
         /\ ExpireRows(t).key = t.key /\ ExpireRows(t).grant = t.grant
<1> DEFINE new(q) == IF t.photo[q].status = "active" /\ q \in expired
                     THEN [t.photo[q] EXCEPT !.status = "access-revoked", !.epoch = @ + 1]
                     ELSE t.photo[q]
<1>1. ASSUME NEW q \in Photos PROVE new(q) \in RowTypes
  BY TablesShape, RevokedRow
<1> HIDE DEF new
<1>2. [q \in Photos |-> new(q)] \in [Photos -> RowTypes]
  BY <1>1
<1>3. ExpireRows(t) = [t EXCEPT !.photo = [q \in Photos |-> new(q)]]
  BY DEF ExpireRows, new
<1>4. ExpireRows(t) = [photo |-> [q \in Photos |-> new(q)], key |-> t.key, grant |-> t.grant]
  BY <1>3, TablesShape
<1>5. ExpireRows(t) \in Tables
  BY <1>2, <1>4, TablesShape DEF Tables, RowTypes
<1>6. \A q \in Photos : ExpireRows(t).photo[q] = new(q)
  BY <1>4
<1>7. ExpireRows(t).key = t.key /\ ExpireRows(t).grant = t.grant
  BY <1>4
<1>8. \A q \in Photos :
        /\ new(q).key = t.photo[q].key
        /\ new(q).status =
             IF t.photo[q].status = "active" /\ q \in expired THEN "access-revoked"
             ELSE t.photo[q].status
  <2> SUFFICES ASSUME NEW q \in Photos
               PROVE  /\ new(q).key = t.photo[q].key
                      /\ new(q).status =
                           IF t.photo[q].status = "active" /\ q \in expired
                           THEN "access-revoked" ELSE t.photo[q].status
    OBVIOUS
  <2>1. t.photo[q] \in RowTypes
    BY TablesShape
  <2>2. CASE t.photo[q].status = "active" /\ q \in expired
    BY <2>1, <2>2, RevokedRow DEF new
  <2>3. CASE ~(t.photo[q].status = "active" /\ q \in expired)
    BY <2>3 DEF new
  <2> QED BY <2>2, <2>3
<1> QED BY <1>5, <1>6, <1>7, <1>8

-----------------------------------------------------------------------------
(* Types.                                                                  *)

(* What a transaction of one commit writes.                                *)
LEMMA CommitSaveTables ==
  ASSUME NEW t \in Tables, NEW p \in Photos, NEW k \in Keys
  PROVE  LET new == [t EXCEPT
               !.photo[p] = [status |-> "active", epoch |-> 0, due |-> FALSE, key |-> k],
               !.key[k] = [state |-> "active", photo |-> p]]
         IN /\ new \in Tables
            /\ new.grant = t.grant
            /\ new.photo = [t.photo EXCEPT ![p] =
                 [status |-> "active", epoch |-> 0, due |-> FALSE, key |-> k]]
            /\ new.key = [t.key EXCEPT ![k] = [state |-> "active", photo |-> p]]
BY DEF Tables, Row, RegistryRow, Status

(* The statements of the transactions keep the shape of the tables.        *)
LEMMA RevokeTables ==
  ASSUME NEW t \in Tables, NEW p \in Photos, t.photo[p].status # "none"
  PROVE  LET new == [t EXCEPT !.photo[p].status = "access-revoked",
                              !.photo[p].epoch = @ + 1, !.photo[p].due = TRUE]
         IN /\ new \in Tables
            /\ new.grant = t.grant /\ new.key = t.key
            /\ new.photo = [t.photo EXCEPT ![p] = [t.photo[p] EXCEPT
                 !.status = "access-revoked", !.epoch = @ + 1, !.due = TRUE]]
<1> DEFINE row == [t.photo[p] EXCEPT !.status = "access-revoked", !.epoch = @ + 1, !.due = TRUE]
           new == [t EXCEPT !.photo[p].status = "access-revoked",
                            !.photo[p].epoch = @ + 1, !.photo[p].due = TRUE]
<1>1. t.photo[p] \in RowTypes
  BY TablesShape
<1>2. row \in RowTypes
  BY <1>1, RevokedRow
<1>3. new = [t EXCEPT !.photo = [t.photo EXCEPT ![p] = row]]
  BY TablesShape
<1>4. new = [photo |-> [t.photo EXCEPT ![p] = row], key |-> t.key, grant |-> t.grant]
  BY <1>3, TablesShape
<1> HIDE DEF row, new
<1>5. [t.photo EXCEPT ![p] = row] \in [Photos -> RowTypes]
  BY <1>2, TablesShape
<1>6. new \in Tables
  BY <1>4, <1>5, TablesShape DEF Tables, RowTypes
<1> QED BY <1>4, <1>6 DEF new, row

(* ... a grant is issued,                                                  *)
LEMMA IssueTables ==
  ASSUME NEW t \in Tables, NEW v \in Resolves, NEW p \in Photos, NEW e \in Nat
  PROVE  LET new == [t EXCEPT !.grant[v] = [photo |-> p, epoch |-> e, consumed |-> FALSE]]
         IN /\ new \in Tables
            /\ new.photo = t.photo /\ new.key = t.key
            /\ new.grant = [t.grant EXCEPT ![v] =
                 [photo |-> p, epoch |-> e, consumed |-> FALSE]]
BY DEF Tables, Grant

(* ... or consumed,                                                        *)
LEMMA ConsumeTables ==
  ASSUME NEW t \in Tables, NEW v \in Resolves, t.grant[v] # NoGrant
  PROVE  LET new == [t EXCEPT !.grant[v].consumed = TRUE]
         IN /\ new \in Tables
            /\ new.photo = t.photo /\ new.key = t.key
            /\ new.grant = [t.grant EXCEPT ![v] = [t.grant[v] EXCEPT !.consumed = TRUE]]
<1>1. t.grant[v] \in Grant
  BY DEF Tables
<1>2. [t.grant[v] EXCEPT !.consumed = TRUE] \in Grant
  BY <1>1 DEF Grant
<1> QED BY <1>2 DEF Tables

(* ... the worker drops old grants,                                        *)
LEMMA DropGrantsTables ==
  ASSUME NEW t \in Tables
  PROVE  LET new == [t EXCEPT !.grant = [v \in Resolves |->
                       IF t.grant[v].consumed \/ v \in stale THEN NoGrant ELSE t.grant[v]]]
         IN /\ new \in Tables
            /\ new.photo = t.photo /\ new.key = t.key
            /\ \A v \in Resolves : new.grant[v] \in {NoGrant, t.grant[v]}
BY DEF Tables

(* ... and old records.                                                    *)
LEMMA DropRecordsTables ==
  ASSUME NEW t \in Tables
  PROVE  LET new == [t EXCEPT !.photo = [p \in Photos |->
                       IF t.photo[p].status = "purged" THEN NoRow ELSE t.photo[p]]]
         IN /\ new \in Tables
            /\ new.key = t.key /\ new.grant = t.grant
            /\ \A p \in Photos : new.photo[p] =
                 (IF t.photo[p].status = "purged" THEN NoRow ELSE t.photo[p])
BY DEF Tables

(* A request that is past its arrival knows its photo, one that found a    *)
(* photo knows which, a download its grant.                                *)
Informed ==
  /\ \A d \in Deletes : del[d].pc # "idle" => del[d].photo \in Photos
  /\ \A v \in Resolves :
       /\ res[v].pc \in {"look", "issue", "granted"} => res[v].photo \in Photos
       /\ res[v].pc \in {"issue", "granted"} => res[v].found \in Photos
  /\ \A w \in Downloads : down[w].pc \in {"check", "consume", "read", "served"} =>
       down[w].photo \in Photos /\ down[w].grant \in Resolves

Types == TypeOK /\ Informed

(* A request that moves on changes its own place and nothing else.         *)
LEMMA DelMoves ==
  ASSUME TypeOK, NEW d \in Deletes, NEW from, NEW to, DelGoto(d, from, to)
  PROVE  /\ del[d].pc = from
         /\ to \in {"idle", "look", "revoke", "purge", "commit", "ok", "excepted", "unavailable", "lost"} => del' \in [Deletes -> Del]
         /\ \A e \in Deletes : /\ del'[e].photo = del[e].photo
                               /\ del'[e].pc = IF e = d THEN to ELSE del[e].pc
BY DEF TypeOK, DelGoto, Del

(* A resolve goes on, and the others stay.                                 *)
LEMMA ResMoves ==
  ASSUME TypeOK, NEW v \in Resolves, NEW from, NEW to, ResGoto(v, from, to)
  PROVE  /\ res[v].pc = from
         /\ to \in {"idle", "look", "issue", "granted", "refused", "lost"} => res' \in [Resolves -> Res]
         /\ \A e \in Resolves : /\ res'[e].photo = res[e].photo
                                /\ res'[e].found = res[e].found
                                /\ res'[e].pc = IF e = v THEN to ELSE res[e].pc
BY DEF TypeOK, ResGoto, Res

(* A download goes on, and the others stay.                                *)
LEMMA DownMoves ==
  ASSUME TypeOK, NEW w \in Downloads, NEW from, NEW to, DownGoto(w, from, to)
  PROVE  /\ down[w].pc = from
         /\ to \in {"idle", "check", "consume", "read", "served", "refused", "lost"} => down' \in [Downloads -> Down]
         /\ \A e \in Downloads : /\ down'[e].photo = down[e].photo
                                 /\ down'[e].grant = down[e].grant
                                 /\ down'[e].live = down[e].live
                                 /\ down'[e].pc = IF e = w THEN to ELSE down[e].pc
BY DEF TypeOK, DownGoto, Down

(* A crash ends the requests and the run of the worker.                    *)
LEMMA CrashEffect ==
  ASSUME TypeOK, Crash
  PROVE  /\ del' \in [Deletes -> Del] /\ res' \in [Resolves -> Res]
         /\ down' \in [Downloads -> Down]
         /\ \A d \in Deletes :
              /\ del'[d].photo = del[d].photo
              /\ del'[d].pc = IF del[d].pc \in {"idle", "ok", "excepted", "unavailable"}
                              THEN del[d].pc ELSE "lost"
         /\ \A v \in Resolves :
              /\ res'[v].photo = res[v].photo /\ res'[v].found = res[v].found
              /\ res'[v].pc = IF res[v].pc \in {"idle", "granted", "refused"}
                              THEN res[v].pc ELSE "lost"
         /\ \A w \in Downloads :
              /\ down'[w].photo = down[w].photo /\ down'[w].grant = down[w].grant
              /\ down'[w].live = down[w].live
              /\ down'[w].pc = IF down[w].pc \in {"idle", "served", "refused"}
                               THEN down[w].pc ELSE "lost"
<1> USE DEF TypeOK
<1>1. /\ del' = [d \in Deletes |-> IF del[d].pc \in {"idle", "ok", "excepted", "unavailable"}
                                   THEN del[d] ELSE [del[d] EXCEPT !.pc = "lost"]]
      /\ res' = [v \in Resolves |-> IF res[v].pc \in {"idle", "granted", "refused"}
                                    THEN res[v] ELSE [res[v] EXCEPT !.pc = "lost"]]
      /\ down' = [w \in Downloads |-> IF down[w].pc \in {"idle", "served", "refused"}
                                      THEN down[w] ELSE [down[w] EXCEPT !.pc = "lost"]]
  BY DEF Crash, Dropped
<1>2. ASSUME NEW d \in Deletes PROVE [del[d] EXCEPT !.pc = "lost"] \in Del
  BY DEF Del
<1>3. ASSUME NEW v \in Resolves PROVE [res[v] EXCEPT !.pc = "lost"] \in Res
  BY DEF Res
<1>4. ASSUME NEW w \in Downloads PROVE [down[w] EXCEPT !.pc = "lost"] \in Down
  BY DEF Down
<1>5. del' \in [Deletes -> Del] /\ res' \in [Resolves -> Res] /\ down' \in [Downloads -> Down]
  BY <1>1, <1>2, <1>3, <1>4
<1>6. \A d \in Deletes :
              /\ del'[d].photo = del[d].photo
              /\ del'[d].pc = IF del[d].pc \in {"idle", "ok", "excepted", "unavailable"}
                              THEN del[d].pc ELSE "lost"
  BY <1>1 DEF Del
<1>7. \A v \in Resolves :
              /\ res'[v].photo = res[v].photo /\ res'[v].found = res[v].found
              /\ res'[v].pc = IF res[v].pc \in {"idle", "granted", "refused"}
                              THEN res[v].pc ELSE "lost"
  BY <1>1 DEF Res
<1>8. \A w \in Downloads :
              /\ down'[w].photo = down[w].photo /\ down'[w].grant = down[w].grant
              /\ down'[w].live = down[w].live
              /\ down'[w].pc = IF down[w].pc \in {"idle", "served", "refused"}
                               THEN down[w].pc ELSE "lost"
  BY <1>1 DEF Down
<1> QED BY <1>5, <1>6, <1>7, <1>8

(* The steps of the worker keep its state one of Work.                     *)
LEMMA WorkTypes ==
  ASSUME TypeOK
  PROVE  /\ \A c \in {"idle", "expire", "due", "purge", "sweep", "walk", "grants", "records"} :
              \A q \in SUBSET Photos :
                /\ [pc |-> c, queue |-> q] \in Work
                /\ [work EXCEPT !.pc = c] \in Work
                /\ [work EXCEPT !.queue = q] \in Work
                /\ [work EXCEPT !.pc = c, !.queue = q] \in Work
         /\ work.queue \in SUBSET Photos
BY DEF TypeOK, Work

(* What a download knows after its lookups.                                *)
LEMMA DownLookupEffect ==
  ASSUME TypeOK, NEW w \in Downloads, NEW v \in Resolves, DownloadLookup(w, v)
  PROVE  /\ down' \in [Downloads -> Down]
         /\ \A x \in Downloads \ {w} : down'[x] = down[x]
         /\ \/ /\ down'[w].pc = "check" /\ down'[w].grant = v
               /\ db.grant[v] # NoGrant /\ db.grant[v].photo \in Photos
               /\ db.grant[v].photo \notin expired
               /\ down'[w].photo = db.grant[v].photo
               /\ down'[w].live = (db.photo[db.grant[v].photo].status = "active")
            \/ down'[w].pc = "refused"
<1>1. db.grant[v] \in Grant \cup {NoGrant} /\ down[w] \in Down
  BY DEF TypeOK, Tables
<1> DEFINE g == db.grant[v]
<1>2. CASE g # NoGrant /\ ~g.consumed /\ v \notin stale /\ g.photo \notin expired
  <2> DEFINE r == [pc |-> "check", grant |-> v, photo |-> g.photo, epoch |-> g.epoch,
                   live |-> db.photo[g.photo].status = "active"]
  <2>1. down' = [down EXCEPT ![w] = r]
    BY <1>2 DEF DownloadLookup
  <2>2. g.photo \in Photos /\ g.epoch \in Nat
    BY <1>1, <1>2 DEF Grant
  <2>3. r \in Down
    BY <2>2 DEF Down
  <2> HIDE DEF r
  <2>4. down' \in [Downloads -> Down] /\ down'[w] = r /\ \A x \in Downloads \ {w} : down'[x] = down[x]
    BY <2>1, <2>3 DEF TypeOK
  <2> QED BY <1>2, <2>2, <2>4 DEF r
<1>3. CASE ~(g # NoGrant /\ ~g.consumed /\ v \notin stale /\ g.photo \notin expired)
  <2>1. down' = [down EXCEPT ![w] = [down[w] EXCEPT !.pc = "refused"]]
    BY <1>3 DEF DownloadLookup
  <2>2. [down[w] EXCEPT !.pc = "refused"] \in Down
    BY <1>1 DEF Down
  <2> QED BY <2>1, <2>2, <1>1 DEF TypeOK, Down
<1> QED BY <1>2, <1>3

(* What a resolve knows after its lookup.                                  *)
LEMMA ResolveLookupEffect ==
  ASSUME TypeOK, NEW v \in Resolves, ResolveLookup(v)
  PROVE  /\ res[v].pc = "look"
         /\ res' \in [Resolves -> Res]
         /\ \A e \in Resolves \ {v} : res'[e] = res[e]
         /\ res'[v].photo = res[v].photo
         /\ \/ /\ res'[v].pc = "issue" /\ res'[v].found \in Photos
               /\ Resolvable(res'[v].found, issued[res[v].photo])
            \/ res'[v].pc = "refused"
<1>1. CASE ResGoto(v, "look", "refused")
  BY <1>1 DEF ResolveLookup, ResGoto, TypeOK, Res
<1>2. ASSUME NEW p \in Photos, Resolvable(p, issued[res[v].photo]), res[v].pc = "look",
             res' = [res EXCEPT ![v] = [@ EXCEPT
               !.pc = "issue", !.found = p, !.epoch = db.photo[p].epoch]]
      PROVE /\ res' \in [Resolves -> Res]
            /\ \A e \in Resolves \ {v} : res'[e] = res[e]
            /\ res'[v].photo = res[v].photo
            /\ res'[v].pc = "issue" /\ res'[v].found = p
  <2> DEFINE e == db.photo[p].epoch
             r == [res[v] EXCEPT !.pc = "issue", !.found = p, !.epoch = e]
  <2>1. db.photo[p] \in RowTypes /\ db.photo[p].status = "active"
    BY <1>2, TablesShape DEF TypeOK, Resolvable
  <2>2. e \in Nat
    BY <2>1 DEF RowTypes, Row, NoRow
  <2>3. res[v] \in Res /\ res' = [res EXCEPT ![v] = r]
    BY <1>2 DEF TypeOK
  <2> HIDE DEF e
  <2>4. r \in Res /\ r.photo = res[v].photo /\ r.found = p /\ r.pc = "issue"
    BY <2>2, <2>3 DEF Res
  <2> HIDE DEF r
  <2>6. res' \in [Resolves -> Res] /\ res'[v] = r /\ \A w \in Resolves \ {v} : res'[w] = res[w]
    BY <2>3, <2>4 DEF TypeOK
  <2> QED BY <2>4, <2>6
<1> QED BY <1>1, <1>2 DEF ResolveLookup

(* A resolve arrives.                                                      *)
LEMMA ResolveArriveEffect ==
  ASSUME TypeOK, NEW v \in Resolves, NEW p \in Photos, ResolveArrive(v, p)
  PROVE  /\ res' \in [Resolves -> Res]
         /\ \A e \in Resolves \ {v} : res'[e] = res[e]
         /\ res'[v].pc = "look" /\ res'[v].photo = p
<1>1. res' = [res EXCEPT ![v] = [res[v] EXCEPT !.pc = "look", !.photo = p]]
  BY DEF ResolveArrive, TypeOK
<1> QED BY <1>1 DEF TypeOK, Res

(* A delete arrives.                                                       *)
LEMMA DeleteArriveEffect ==
  ASSUME TypeOK, NEW d \in Deletes, NEW p \in Photos, DeleteArrive(d, p)
  PROVE  /\ del' \in [Deletes -> Del]
         /\ \A e \in Deletes \ {d} : del'[e] = del[e]
         /\ del'[d].pc = "look" /\ del'[d].photo = p
BY DEF DeleteArrive, TypeOK, Del

(* What the commit of a save changes.                                      *)
LEMMA CommitSaveEffect ==
  ASSUME TypeOK, NEW p \in Photos, CommitSave(p)
  PROVE  \E k \in Keys :
           /\ db.key[k] = NoKey /\ k # Nobody
           /\ \A q \in Photos :
                /\ db'.photo[q].status = IF q = p THEN "active" ELSE db.photo[q].status
                /\ db'.photo[q].key = IF q = p THEN k ELSE db.photo[q].key
                /\ issued'[q] = IF q = p THEN k ELSE issued[q]
                /\ save'[q] = IF q = p THEN "done" ELSE save[q]
           /\ \A c \in Keys : db.key[c] # NoKey \/ c = k => db'.key[c] # NoKey
           /\ db'.grant = db.grant
           /\ save[p] = "stored" /\ tx' = db' /\ writer = Nobody /\ writer' = Nobody
<1>1. PICK k \in Keys :
        /\ db.key[k] = NoKey
        /\ Write([db EXCEPT
             !.photo[p] = [status |-> "active", epoch |-> 0, due |-> FALSE, key |-> k],
             !.key[k] = [state |-> "active", photo |-> p]])
        /\ issued' = [issued EXCEPT ![p] = k]
  BY DEF CommitSave
<1> DEFINE row == [status |-> "active", epoch |-> 0, due |-> FALSE, key |-> k]
<1>2. /\ db'.grant = db.grant
      /\ db'.photo = [db.photo EXCEPT ![p] = row]
      /\ db'.key = [db.key EXCEPT ![k] = [state |-> "active", photo |-> p]]
  <2>1. db \in Tables
    BY DEF TypeOK
  <2> HIDE DEF row
  <2>2. db' = [db EXCEPT !.photo[p] = row, !.key[k] = [state |-> "active", photo |-> p]]
    BY <1>1 DEF Write, row
  <2> QED BY <2>1, <2>2 DEF Tables
<1>3. /\ db.photo \in [Photos -> RowTypes] /\ db.key \in [Keys -> RegistryRow \cup {NoKey}]
      /\ issued \in [Photos -> Keys \cup {Nobody}] /\ DOMAIN save = Photos
  BY TablesShape DEF TypeOK
<1>4. \A q \in Photos :
        /\ db'.photo[q].status = IF q = p THEN "active" ELSE db.photo[q].status
        /\ db'.photo[q].key = IF q = p THEN k ELSE db.photo[q].key
  BY <1>2, <1>3
<1>5. \A c \in Keys : db.key[c] # NoKey \/ c = k => db'.key[c] # NoKey
  BY <1>2, <1>3 DEF NoKey
<1>6. \A q \in Photos : /\ issued'[q] = IF q = p THEN k ELSE issued[q]
                        /\ save'[q] = IF q = p THEN "done" ELSE save[q]
  BY <1>1, <1>3 DEF CommitSave
<1>7. /\ save[p] = "stored" /\ tx' = db' /\ writer = Nobody /\ writer' = Nobody
      /\ k # Nobody
  BY <1>1, PhotoAssumption DEF CommitSave, Write
<1> HIDE DEF row
<1> QED BY <1>1, <1>2, <1>4, <1>5, <1>6, <1>7

(* What the first commit of a delete changes.                              *)
LEMMA RevokeEffect ==
  ASSUME Types, NEW d \in Deletes, Revoke(d)
  PROVE  /\ \A q \in Photos :
              /\ db'.photo[q].key = db.photo[q].key
              /\ db'.photo[q].status =
                   IF q = del[d].photo /\ db.photo[q].status # "none" THEN "access-revoked"
                   ELSE db.photo[q].status
         /\ db'.key = db.key /\ db'.grant = db.grant
         /\ tx' = db' /\ writer = Nobody /\ writer' = Nobody
         /\ del[d].photo \in Photos
         /\ del[d].pc = "revoke"
         /\ \A e \in Deletes : /\ del'[e].photo = del[e].photo
                               /\ del'[e].pc = IF e = d THEN "purge" ELSE del[e].pc
<1> DEFINE p == del[d].photo
           row == [db.photo[p] EXCEPT !.status = "access-revoked", !.epoch = @ + 1, !.due = TRUE]
<1>1. p \in Photos /\ db \in Tables /\ db.photo \in [Photos -> RowTypes]
  BY DelMoves, TablesShape DEF Revoke, Types, TypeOK, Informed
<1>0. /\ del[d].pc = "revoke"
      /\ \A e \in Deletes : /\ del'[e].photo = del[e].photo
                            /\ del'[e].pc = IF e = d THEN "purge" ELSE del[e].pc
  BY DelMoves DEF Revoke, Types
<1>2. CASE db.photo[p].status = "none"
  BY <1>0, <1>1, <1>2 DEF Revoke, Write
<1>3. CASE db.photo[p].status # "none"
  <2>1. /\ db'.grant = db.grant /\ db'.key = db.key
        /\ db'.photo = [db.photo EXCEPT ![p] = row]
    BY <1>1, <1>3, RevokeTables DEF Revoke, Write
  <2>2. row.status = "access-revoked" /\ row.key = db.photo[p].key
    BY <1>1, <1>3, RevokedRow
  <2> HIDE DEF row
  <2>3. db'.photo[p] = row /\ \A q \in Photos : q # p => db'.photo[q] = db.photo[q]
    BY <1>1, <2>1
  <2>4. tx' = db' /\ writer = Nobody /\ writer' = Nobody
    BY DEF Revoke, Write
  <2> QED BY <1>0, <1>1, <1>3, <2>1, <2>2, <2>3, <2>4
<1> QED BY <1>2, <1>3

(* Types are kept by every step.                                           *)
LEMMA TypeStep == Types /\ [Next]_vars => Types'
<1> SUFFICES ASSUME Types, [Next]_vars PROVE Types'
  OBVIOUS
<1> USE PhotoAssumption DEF Types, TypeOK, Informed, tables, clocks, actors, bounds
<1>1. ASSUME NEW p \in Photos, StoreObject(p) \/ SaveFails(p) PROVE Types'
  BY <1>1 DEF StoreObject, SaveFails, Fault
<1>2. ASSUME NEW p \in Photos, CommitSave(p) PROVE Types'
  <2>1. PICK k \in Keys :
          /\ db' = [db EXCEPT
               !.photo[p] = [status |-> "active", epoch |-> 0, due |-> FALSE, key |-> k],
               !.key[k] = [state |-> "active", photo |-> p]]
          /\ tx' = db' /\ writer' = Nobody /\ issued' = [issued EXCEPT ![p] = k]
    BY <1>2 DEF CommitSave, Write
  <2>2. db' \in Tables /\ tx' \in Tables
    BY <2>1, CommitSaveTables
  <2>3. issued' \in [Photos -> Keys \cup {Nobody}]
    BY <2>1
  <2>4. save' \in [Photos -> {"idle", "stored", "done", "failed"}]
    BY <1>2 DEF CommitSave
  <2> QED BY <1>2, <2>1, <2>2, <2>3, <2>4 DEF CommitSave
<1>3. ASSUME NEW d \in Deletes, NEW p \in Photos, DeleteArrive(d, p) PROVE Types'
  BY <1>3, DeleteArriveEffect DEF DeleteArrive
<1>4. ASSUME NEW d \in Deletes, DeleteLookup(d) PROVE Types'
  BY <1>4, DelMoves DEF DeleteLookup
<1>5. ASSUME NEW d \in Deletes, DeleteExcepted(d) \/ RevokeFails(d) PROVE Types'
  BY <1>5, DelMoves DEF DeleteExcepted, RevokeFails, Fault
<1>6. ASSUME NEW d \in Deletes, Revoke(d) PROVE Types'
  <2>1. /\ del[d].pc = "revoke" /\ del' \in [Deletes -> Del]
        /\ \A e \in Deletes : /\ del'[e].photo = del[e].photo
                              /\ del'[e].pc = IF e = d THEN "purge" ELSE del[e].pc
    BY <1>6, DelMoves DEF Revoke
  <2>2. db' \in Tables /\ tx' \in Tables
    BY <1>6, <2>1, RevokeTables DEF Revoke, Write
  <2> QED BY <1>6, <2>1, <2>2 DEF Revoke, Write
<1>7. ASSUME NEW d \in Deletes, DeleteUnlink(d) PROVE Types'
  <2>1. /\ del[d].pc = "purge" /\ del' \in [Deletes -> Del]
        /\ \A e \in Deletes : /\ del'[e].photo = del[e].photo
                              /\ del'[e].pc = IF e = d THEN "commit" ELSE del[e].pc
    BY <1>7, DelMoves DEF DeleteUnlink
  <2>2. tx' \in Tables
    BY <1>7, <2>1, PurgePhotoEffect DEF DeleteUnlink
  <2> QED BY <1>7, <2>1, <2>2 DEF DeleteUnlink
<1>8. ASSUME NEW d \in Deletes, DeleteCommit(d) PROVE Types'
  BY <1>8, DelMoves DEF DeleteCommit
<1>9. ASSUME NEW d \in Deletes, DeletePurgeFails(d) PROVE Types'
  BY <1>9, DelMoves DEF DeletePurgeFails, FileFault, Fault, Rollback
<1>10. ASSUME NEW v \in Resolves, NEW p \in Photos, ResolveArrive(v, p) PROVE Types'
  <2>1. /\ res' \in [Resolves -> Res] /\ res'[v].pc = "look" /\ res'[v].photo = p
        /\ \A e \in Resolves : e # v => res'[e] = res[e]
    BY <1>10, ResolveArriveEffect
  <2> QED BY <1>10, <2>1 DEF ResolveArrive
<1>11. ASSUME NEW v \in Resolves, ResolveLookup(v) PROVE Types'
  BY <1>11, ResolveLookupEffect DEF ResolveLookup
<1>12. ASSUME NEW v \in Resolves, ResolveLimited(v) \/ IssueFails(v) PROVE Types'
  BY <1>12, ResMoves DEF ResolveLimited, IssueFails, Fault
<1>13. ASSUME NEW v \in Resolves, IssueGrant(v) PROVE Types'
  <2>1. /\ res[v].pc = "issue" /\ res' \in [Resolves -> Res]
        /\ \A e \in Resolves : /\ res'[e].photo = res[e].photo
                               /\ res'[e].found = res[e].found
                               /\ res'[e].pc = IF e = v THEN "granted" ELSE res[e].pc
    BY <1>13, ResMoves DEF IssueGrant
  <2>2. res[v].found \in Photos /\ res[v].epoch \in Nat
    BY <2>1 DEF Res
  <2>3. db' \in Tables /\ tx' \in Tables
    BY <1>13, <2>2, IssueTables DEF IssueGrant, Write
  <2> QED BY <1>13, <2>1, <2>2, <2>3 DEF IssueGrant, Write
<1>14. ASSUME NEW w \in Downloads, NEW v \in Resolves, DownloadLookup(w, v) PROVE Types'
  <2>1. /\ down' \in [Downloads -> Down]
        /\ \A e \in Downloads : e # w => down'[e] = down[e]
        /\ \/ down'[w].grant = v /\ down'[w].photo \in Photos
           \/ down'[w].pc = "refused"
    BY <1>14, DownLookupEffect
  <2> QED BY <1>14, <2>1 DEF DownloadLookup
<1>15. ASSUME NEW w \in Downloads, DownloadCheck(w) PROVE Types'
  BY <1>15, DownMoves DEF DownloadCheck
<1>16. ASSUME NEW w \in Downloads, ReadObject(w) \/ ConsumeFails(w) PROVE Types'
  BY <1>16, DownMoves DEF ReadObject, ConsumeFails, Fault
<1>17. ASSUME NEW w \in Downloads, Consume(w) PROVE Types'
  <2>1. /\ down[w].pc = "consume" /\ down' \in [Downloads -> Down]
        /\ \A e \in Downloads : /\ down'[e].photo = down[e].photo
                                /\ down'[e].grant = down[e].grant
                                /\ down'[e].pc \in {down[e].pc, "refused", "read"}
                                /\ e # w => down'[e].pc = down[e].pc
    BY <1>17, DownMoves DEF Consume
  <2>2. down[w].grant \in Resolves
    BY <2>1
  <2>3. db' \in Tables /\ tx' \in Tables
    BY <1>17, <2>2, ConsumeTables DEF Consume, Write, Unconsumed
  <2> QED BY <1>17, <2>1, <2>2, <2>3 DEF Consume, Write
<1>18. CASE WorkerExpire
  <2>1. work' \in Work
    BY <1>18, WorkTypes DEF WorkerExpire
  <2> QED BY <1>18, <2>1, ExpireRowsEffect DEF WorkerExpire
<1>19. CASE WorkerDue \/ WorkerOrphans \/ WorkerSwept
  <2>1. work' \in Work
    <3>1. /\ {p \in Photos : Erasable(db, p) /\ db.photo[p].due} \in SUBSET Photos
          /\ {p \in objects \cap aged : db.photo[p].status = "none"} \in SUBSET Photos
      OBVIOUS
    <3>2. CASE WorkerDue
      BY <3>1, <3>2, WorkTypes DEF WorkerDue
    <3>3. CASE WorkerOrphans
      BY <3>1, <3>3, WorkTypes DEF WorkerOrphans
    <3>4. CASE WorkerSwept
      BY <3>4, WorkTypes DEF WorkerSwept, WorkGoto
    <3> QED BY <1>19, <3>2, <3>3, <3>4
  <2> QED BY <1>19, <2>1 DEF WorkerDue, WorkerOrphans, WorkerSwept
<1>20. ASSUME NEW p \in Photos, WorkerPurge(p) PROVE Types'
  <2>1. work' \in Work
    BY <1>20, WorkTypes DEF WorkerPurge
  <2> QED BY <1>20, <2>1, PurgePhotoEffect DEF WorkerPurge
<1>21. CASE WorkerCommit
  <2>1. work' \in Work
    BY <1>21, WorkTypes DEF WorkerCommit, WorkGoto
  <2> QED BY <1>21, <2>1 DEF WorkerCommit
<1>22. ASSUME NEW p \in Photos, WorkerSweep(p) PROVE Types'
  BY <1>22 DEF WorkerSweep
<1>23. CASE WorkerDropGrants
  <2>1. work' \in Work
    BY <1>23, WorkTypes DEF WorkerDropGrants, WorkGoto
  <2> QED BY <1>23, <2>1, DropGrantsTables DEF WorkerDropGrants, Write
<1>24. CASE WorkerDropRecords
  <2>1. work' \in Work
    BY <1>24, WorkTypes DEF WorkerDropRecords
  <2> QED BY <1>24, <2>1, DropRecordsTables DEF WorkerDropRecords, Write
<1>25. CASE WorkerFails
  <2>1. work' \in Work
    BY <1>25, WorkTypes DEF WorkerFails
  <2> QED BY <1>25, <2>1 DEF WorkerFails, Fault, Rollback
<1>26. ASSUME NEW p \in Photos, PhotoExpires(p) \/ ObjectAges(p) PROVE Types'
  BY <1>26 DEF PhotoExpires, ObjectAges
<1>27. ASSUME NEW v \in Resolves, GrantExpires(v) PROVE Types'
  BY <1>27 DEF GrantExpires
<1>28. CASE Crash
  <2>1. work' \in Work
    BY <1>28, WorkTypes DEF Crash
  <2>2. /\ del' \in [Deletes -> Del] /\ res' \in [Resolves -> Res]
        /\ down' \in [Downloads -> Down] /\ Informed'
    BY <1>28, CrashEffect
  <2> QED BY <1>28, <2>1, <2>2 DEF Crash, Rollback
<1>29. CASE UNCHANGED vars
  BY <1>29 DEF vars
<1> QED
  BY <1>1, <1>2, <1>3, <1>4, <1>5, <1>6, <1>7, <1>8, <1>9, <1>10, <1>11, <1>12, <1>13,
     <1>14, <1>15, <1>16, <1>17, <1>18, <1>19, <1>20, <1>21, <1>22, <1>23, <1>24, <1>25,
     <1>26, <1>27, <1>28, <1>29
  DEF Next, SaveStep, DeleteStep, ResolveStep, DownloadStep, WorkerStep, Time

(* The tables, the requests and the worker keep their shape: every row is  *)
(* complete, every request knows the photo it is about, and the counters   *)
(* stay within their bounds.                                               *)
THEOREM TypeCorrect == Spec => []Types
<1>1. Init => Types
  BY PhotoAssumption
  DEF Init, Types, TypeOK, Informed, Tables, Row, RegistryRow, Grant, NoRow, NoKey, NoGrant,
      Del, Res, Down, Work
<1> QED BY <1>1, TypeStep, PTL DEF Spec

-----------------------------------------------------------------------------
(* Whoever holds the write lock; the writer's view differs from the last   *)
(* commit only while somebody does.                                        *)
LockInv ==
  /\ writer = Nobody => tx = db
  /\ \A d \in Deletes : del[d].pc = "commit" <=> writer = d
  /\ work.pc = "expire" => writer = Worker
  /\ writer = Worker => work.pc \in {"expire", "purge"}

(* A save returns a KEY exactly when it is done, and no two the same.      *)
SaveInv ==
  /\ \A p \in Photos :
       /\ issued[p] # Nobody <=> save[p] = "done"
       /\ save[p] = "stored" => p \in objects
       /\ save[p] = "idle" => p \notin objects
       /\ save[p] \in {"idle", "stored"} => p \notin aged
       /\ issued[p] = Nobody => p \notin expired
  /\ \A p, q \in Photos : issued[p] = issued[q] /\ issued[p] # Nobody => p = q

(* Every row belongs to a save that is done and carries its KEY, and the   *)
(* registry never forgets a KEY.                                           *)
RowInv(t) ==
  \A p \in Photos :
    /\ t.photo[p].status # "none" => issued[p] # Nobody /\ t.photo[p].key = issued[p]
    /\ issued[p] # Nobody => t.key[issued[p]] # NoKey

(* No bytes without a row that says so.                                    *)
BytesInv(t) ==
  \A p \in Photos :
    issued[p] # Nobody /\ t.photo[p].status \in {"none", "purged"} => p \notin objects

(* A grant is of a photo that was kept.                                    *)
GrantInv(t) ==
  \A v \in Resolves : t.grant[v] # NoGrant =>
    /\ res[v].pc = "granted"
    /\ t.grant[v].photo \in Photos /\ issued[t.grant[v].photo] # Nobody

(* A grant that was used is gone or marked so.                             *)
SpentInv(t) ==
  \A w \in Downloads : down[w].pc \in {"read", "served"} =>
    t.grant[down[w].grant] = NoGrant \/ t.grant[down[w].grant].consumed

Gone(t, p) == issued[p] # Nobody /\ t.photo[p].status # "active"

(* What those who erase or refuse a photo know of it stays true.           *)
DeathInv(t) ==
  /\ \A d \in Deletes :
       del[d].pc \in {"purge", "commit", "ok"} => Gone(t, del[d].photo)
  /\ work.pc \in {"expire", "purge"} =>
       \A p \in work.queue : issued[p] # Nobody /\ (p \in expired \/ Gone(t, p))
  /\ \A w \in Downloads : down[w].pc = "check" /\ ~down[w].live => Gone(t, down[w].photo)

(* The requests name photos that were kept; a resolve found its own.       *)
RequestInv ==
  /\ \A d \in Deletes : del[d].pc # "idle" => issued[del[d].photo] # Nobody
  /\ \A v \in Resolves :
       /\ res[v].pc \in {"look", "issue", "granted"} => issued[res[v].photo] # Nobody
       /\ res[v].pc \in {"issue", "granted"} => res[v].found = res[v].photo
  /\ \A w \in Downloads :
       /\ down[w].pc \in {"check", "consume", "read", "served"} =>
            issued[down[w].photo] # Nobody /\ res[down[w].grant].pc = "granted"
       /\ down[w].pc \in {"consume", "read", "served"} => down[w].live

(* An uncommitted transaction takes away expired photos only, and an orphan*)
(* stays one.                                                              *)
WorkInv ==
  /\ \A p \in Photos :
       /\ tx.photo[p].status = "active" => db.photo[p].status = "active"
       /\ db.photo[p].status = "active" => tx.photo[p].status = "active" \/ p \in expired
  /\ work.pc = "walk" => \A p \in work.queue : save[p] = "failed"

TableInv(t) == RowInv(t) /\ BytesInv(t) /\ GrantInv(t) /\ SpentInv(t) /\ DeathInv(t)

Inv ==
  /\ Types /\ LockInv /\ SaveInv /\ RequestInv /\ WorkInv
  /\ TableInv(db) /\ TableInv(tx)

(* Every step keeps the invariant.                                         *)
LEMMA InvStep == Inv /\ [Next]_vars => Inv'
<1> SUFFICES ASSUME Inv, [Next]_vars PROVE Inv'
  OBVIOUS
<1> USE PhotoAssumption DEF Inv, TableInv, Gone, tables, clocks, actors, bounds
<1> USE DEF Types, TypeOK, Informed, LockInv, SaveInv, RequestInv, WorkInv
<1> USE DEF RowInv, BytesInv, GrantInv, SpentInv, DeathInv
<1>0. Types'
  BY TypeStep
<1>1. ASSUME NEW p \in Photos, StoreObject(p) PROVE Inv'
  BY <1>0, <1>1 DEF StoreObject
<1>2. ASSUME NEW p \in Photos, SaveFails(p) PROVE Inv'
  BY <1>0, <1>2 DEF SaveFails, Fault
<1>3. ASSUME NEW p \in Photos, CommitSave(p) PROVE Inv'
  <2>1. PICK k \in Keys :
          /\ db.key[k] = NoKey /\ k # Nobody
          /\ \A q \in Photos :
               /\ db'.photo[q].status = IF q = p THEN "active" ELSE db.photo[q].status
               /\ db'.photo[q].key = IF q = p THEN k ELSE db.photo[q].key
               /\ issued'[q] = IF q = p THEN k ELSE issued[q]
               /\ save'[q] = IF q = p THEN "done" ELSE save[q]
          /\ \A c \in Keys : db.key[c] # NoKey \/ c = k => db'.key[c] # NoKey
          /\ db'.grant = db.grant
          /\ save[p] = "stored" /\ tx' = db' /\ writer = Nobody /\ writer' = Nobody
    BY <1>3, CommitSaveEffect
  <2>2. issued[p] = Nobody /\ p \notin expired /\ \A q \in Photos : issued[q] # k
    BY <2>1
  <2>3. UNCHANGED <<objects, clocks, del, res, down, work>>
    BY <1>3 DEF CommitSave
  <2>4. \A q \in Photos : issued[q] # Nobody => q # p /\ issued'[q] = issued[q]
    BY <2>1, <2>2
  <2>5. LockInv'
    BY <2>1, <2>3
  <2>6. SaveInv'
    BY <2>1, <2>2, <2>3
  <2>7. RequestInv'
    BY <2>3, <2>4
  <2>8. WorkInv'
    <3>1. \A q \in work.queue : q \in Photos
      BY DEF Work
    <3>2. work.pc = "walk" => \A q \in work.queue : save'[q] = "failed"
      BY <2>1, <3>1
    <3>3. \A q \in Photos : tx'.photo[q].status = "active" <=> db'.photo[q].status = "active"
      BY <2>1
    <3> QED BY <2>3, <3>2, <3>3
  <2>9. RowInv(db)' /\ RowInv(tx)' /\ BytesInv(db)' /\ BytesInv(tx)'
    BY <2>1, <2>2, <2>3
  <2>10. GrantInv(db)' /\ GrantInv(tx)' /\ SpentInv(db)' /\ SpentInv(tx)'
    BY <2>1, <2>2, <2>3
  <2>11. \A q \in Photos : Gone(db, q) => Gone(db, q)'
    BY <2>1, <2>4
  <2>12. DeathInv(db)'
    <3> HIDE DEF Gone
    <3>1. \A q \in work.queue : q \in Photos
      BY DEF Work
    <3> QED BY <3>1, <2>3, <2>4, <2>11
  <2>13. DeathInv(tx)'
    BY <2>1, <2>12
  <2> QED BY <1>0, <2>5, <2>6, <2>7, <2>8, <2>9, <2>10, <2>12, <2>13
<1>4. ASSUME NEW d \in Deletes, NEW p \in Photos, DeleteArrive(d, p) PROVE Inv'
  <2>1. /\ \A e \in Deletes : e # d => del'[e] = del[e]
        /\ del'[d].pc = "look" /\ del'[d].photo = p
    BY <1>4, DeleteArriveEffect
  <2> QED BY <1>0, <1>4, <2>1 DEF DeleteArrive
<1>5. ASSUME NEW d \in Deletes, DeleteLookup(d) PROVE Inv'
  <2>1. /\ del[d].pc = "look"
        /\ \A e \in Deletes : del'[e].photo = del[e].photo
        /\ \A e \in Deletes : del'[e].pc = IF e = d THEN IF Deletable(del[d].photo) THEN "revoke" ELSE "ok" ELSE del[e].pc
    BY <1>5, DelMoves DEF DeleteLookup
  <2>2. del'[d].pc = "ok" => Gone(db, del[d].photo) /\ Gone(tx, del[d].photo)
    BY <2>1 DEF Deletable, Holders
  <2>3. del'[d].pc \in {"revoke", "ok"}
    BY <2>1
  <2>4. UNCHANGED <<tables, objects, clocks, issued, save, res, down, work>>
    BY <1>5 DEF DeleteLookup
  <2>5. LockInv' /\ SaveInv' /\ RequestInv' /\ WorkInv'
    BY <2>1, <2>3, <2>4
  <2>6. RowInv(db)' /\ RowInv(tx)' /\ BytesInv(db)' /\ BytesInv(tx)'
    BY <2>4
  <2>7. GrantInv(db)' /\ GrantInv(tx)' /\ SpentInv(db)' /\ SpentInv(tx)'
    BY <2>4
  <2>8. DeathInv(db)' /\ DeathInv(tx)'
    BY <2>1, <2>2, <2>3, <2>4
  <2> QED BY <1>0, <2>5, <2>6, <2>7, <2>8
<1>6. ASSUME NEW d \in Deletes, DeleteExcepted(d) \/ RevokeFails(d) PROVE Inv'
  <2>1. /\ \A e \in Deletes : del'[e].photo = del[e].photo
        /\ \A e \in Deletes : e # d => del'[e].pc = del[e].pc
        /\ del[d].pc \in {"look", "revoke"}
        /\ del'[d].pc \in {"excepted", "unavailable"}
    BY <1>6, DelMoves DEF DeleteExcepted, RevokeFails
  <2>2. UNCHANGED <<tables, objects, clocks, issued, save, res, down, work>>
    BY <1>6 DEF DeleteExcepted, RevokeFails
  <2>3. LockInv' /\ SaveInv' /\ RequestInv' /\ WorkInv'
    BY <2>1, <2>2
  <2>4. RowInv(db)' /\ RowInv(tx)' /\ BytesInv(db)' /\ BytesInv(tx)'
    BY <2>1, <2>2
  <2>5. GrantInv(db)' /\ GrantInv(tx)' /\ SpentInv(db)' /\ SpentInv(tx)'
    BY <2>1, <2>2
  <2>6. DeathInv(db)' /\ DeathInv(tx)'
    BY <2>1, <2>2
  <2> QED BY <1>0, <2>3, <2>4, <2>5, <2>6
<1>7. ASSUME NEW d \in Deletes, Revoke(d) PROVE Inv'
  <2>1. /\ del[d].pc = "revoke"
        /\ \A e \in Deletes : /\ del'[e].photo = del[e].photo
                              /\ del'[e].pc = IF e = d THEN "purge" ELSE del[e].pc
    BY <1>7, RevokeEffect
  <2>2. /\ \A q \in Photos :
             /\ db'.photo[q].key = db.photo[q].key
             /\ db'.photo[q].status =
                  IF q = del[d].photo /\ db.photo[q].status # "none" THEN "access-revoked"
                  ELSE db.photo[q].status
        /\ db'.key = db.key /\ db'.grant = db.grant
        /\ tx' = db' /\ writer = Nobody /\ writer' = Nobody
        /\ del[d].photo \in Photos /\ issued[del[d].photo] # Nobody
    BY <1>7, <2>1, RevokeEffect
  <2>3. UNCHANGED <<objects, clocks, issued, save, res, down, work>>
    BY <1>7 DEF Revoke
  <2>4. /\ \A q \in Photos : Gone(db, q) => Gone(db, q)'
        /\ Gone(db, del[d].photo)'
    BY <2>1, <2>2, <2>3
  <2>5. LockInv' /\ SaveInv' /\ RequestInv' /\ WorkInv'
    BY <2>1, <2>2, <2>3
  <2>6. RowInv(db)' /\ RowInv(tx)' /\ BytesInv(db)' /\ BytesInv(tx)'
    BY <2>1, <2>2, <2>3
  <2>7. GrantInv(db)' /\ GrantInv(tx)' /\ SpentInv(db)' /\ SpentInv(tx)'
    BY <2>1, <2>2, <2>3
  <2>8. DeathInv(db)'
    <3> HIDE DEF Gone
    <3>1. \A e \in Deletes : del[e].pc \in {"purge", "commit", "ok"} => Gone(db, del[e].photo)
      OBVIOUS
    <3>2. \A e \in Deletes : del'[e].pc \in {"purge", "commit", "ok"} => Gone(db, del[e].photo)'
      BY <2>1, <2>4, <3>1
    <3>3. \A q \in work.queue : q \in Photos
      BY DEF Work
    <3> QED BY <2>1, <2>3, <2>4, <3>2, <3>3
  <2>9. DeathInv(tx)'
    BY <2>2, <2>8
  <2> QED BY <1>0, <2>5, <2>6, <2>7, <2>8, <2>9
<1>8. ASSUME NEW d \in Deletes, DeleteUnlink(d) PROVE Inv'
  <2>1. /\ del[d].pc = "purge"
        /\ \A e \in Deletes : del'[e].photo = del[e].photo
        /\ \A e \in Deletes : del'[e].pc = IF e = d THEN "commit" ELSE del[e].pc
    BY <1>8, DelMoves DEF DeleteUnlink
  <2>2. writer = Nobody /\ writer' = d /\ tx = db /\ del[d].photo \in Photos
    BY <1>8, <2>1 DEF DeleteUnlink
  <2>3. /\ \A q \in Photos : tx'.photo[q].key = tx.photo[q].key
        /\ \A q \in Photos : tx'.photo[q].status =
             IF q = del[d].photo /\ tx.photo[q].status # "none" THEN "purged" ELSE tx.photo[q].status
        /\ \A k \in Keys : tx.key[k] # NoKey => tx'.key[k] # NoKey
        /\ \A v \in Resolves :
             /\ tx'.grant[v].photo = tx.grant[v].photo
             /\ tx.grant[v].consumed => tx'.grant[v].consumed
             /\ tx.grant[v] = NoGrant => tx'.grant[v] = NoGrant
    <3>1. tx' = PurgePhoto(tx, del[d].photo) /\ tx \in Tables /\ del[d].photo \in Photos
      BY <1>8, <2>2 DEF DeleteUnlink
    <3> QED BY <3>1, PurgePhotoEffect
  <2>4. LockInv' /\ SaveInv' /\ RequestInv' /\ WorkInv'
    BY <1>8, <2>1, <2>2, <2>3 DEF DeleteUnlink
  <2>5. RowInv(db)' /\ RowInv(tx)' /\ BytesInv(db)' /\ BytesInv(tx)'
    BY <1>8, <2>1, <2>2, <2>3 DEF DeleteUnlink
  <2>6. GrantInv(db)' /\ GrantInv(tx)' /\ SpentInv(db)' /\ SpentInv(tx)'
    BY <1>8, <2>1, <2>2, <2>3 DEF DeleteUnlink
  <2>7. DeathInv(db)'
    BY <1>8, <2>1, <2>2, <2>3 DEF DeleteUnlink
  <2>8. \A q \in Photos : Gone(tx, q) => Gone(tx, q)'
    BY <1>8, <2>3 DEF DeleteUnlink
  <2>9. DeathInv(tx)'
    <3> HIDE DEF Gone
    <3>1. \A e \in Deletes : del'[e].pc \in {"purge", "commit", "ok"} => Gone(tx, del[e].photo)'
      BY <2>1, <2>2, <2>8
    <3>2. \A q \in work.queue : q \in Photos
      BY DEF Work
    <3>3. UNCHANGED <<clocks, issued, down, work>>
      BY <1>8 DEF DeleteUnlink
    <3> QED BY <2>1, <2>8, <3>1, <3>2, <3>3
  <2> QED BY <1>0, <2>4, <2>5, <2>6, <2>7, <2>9
<1>9. ASSUME NEW d \in Deletes, DeleteCommit(d) PROVE Inv'
  <2>1. /\ del[d].pc = "commit"
        /\ \A e \in Deletes : del'[e].photo = del[e].photo
        /\ \A e \in Deletes : del'[e].pc = IF e = d THEN "ok" ELSE del[e].pc
    BY <1>9, DelMoves DEF DeleteCommit
  <2>2. db' = tx /\ tx' = tx /\ writer = d /\ writer' = Nobody
    BY <1>9, <2>1 DEF DeleteCommit
  <2>3. UNCHANGED <<objects, clocks, issued, save, res, down, work>>
    BY <1>9 DEF DeleteCommit
  <2>4. LockInv' /\ SaveInv' /\ RequestInv' /\ WorkInv'
    BY <2>1, <2>2, <2>3
  <2>5. RowInv(db)' /\ RowInv(tx)' /\ BytesInv(db)' /\ BytesInv(tx)'
    BY <2>1, <2>2, <2>3
  <2>6. GrantInv(db)' /\ GrantInv(tx)' /\ SpentInv(db)' /\ SpentInv(tx)'
    BY <2>1, <2>2, <2>3
  <2>7. DeathInv(db)' /\ DeathInv(tx)'
    BY <2>1, <2>2, <2>3
  <2> QED BY <1>0, <2>4, <2>5, <2>6, <2>7
<1>10. ASSUME NEW d \in Deletes, DeletePurgeFails(d) PROVE Inv'
  <2>1. /\ \A e \in Deletes : del'[e].photo = del[e].photo
        /\ \A e \in Deletes : e # d => del'[e].pc = del[e].pc
        /\ del[d].pc \in {"purge", "commit"} /\ del'[d].pc = "ok"
    BY <1>10, DelMoves DEF DeletePurgeFails
  <2>2. /\ db' = db
        /\ \/ del[d].pc = "purge" /\ tx' = tx /\ writer' = writer
           \/ del[d].pc = "commit" /\ tx' = db /\ writer' = Nobody
    BY <1>10, DelMoves DEF DeletePurgeFails, Rollback
  <2>3. UNCHANGED <<objects, clocks, issued, save, res, down, work>>
    BY <1>10 DEF DeletePurgeFails
  <2>4. LockInv' /\ SaveInv' /\ RequestInv' /\ WorkInv'
    BY <2>1, <2>2, <2>3
  <2>5. RowInv(db)' /\ RowInv(tx)' /\ BytesInv(db)' /\ BytesInv(tx)'
    BY <2>1, <2>2, <2>3
  <2>6. GrantInv(db)' /\ GrantInv(tx)' /\ SpentInv(db)' /\ SpentInv(tx)'
    BY <2>1, <2>2, <2>3
  <2>7. DeathInv(db)' /\ DeathInv(tx)'
    BY <2>1, <2>2, <2>3
  <2> QED BY <1>0, <2>4, <2>5, <2>6, <2>7
<1>11. ASSUME NEW v \in Resolves, NEW p \in Photos, ResolveArrive(v, p) PROVE Inv'
  <2>1. /\ \A e \in Resolves : e # v => res'[e] = res[e]
        /\ res'[v].pc = "look" /\ res'[v].photo = p
    BY <1>11, ResolveArriveEffect
  <2> QED BY <1>0, <1>11, <2>1 DEF ResolveArrive
<1>12. ASSUME NEW v \in Resolves, ResolveLookup(v) PROVE Inv'
  <2>1. /\ res[v].pc = "look" /\ res'[v].photo = res[v].photo
        /\ \A e \in Resolves : e # v => res'[e] = res[e]
        /\ \/ res'[v].pc = "issue" /\ res'[v].found \in Photos
              /\ Resolvable(res'[v].found, issued[res[v].photo])
           \/ res'[v].pc = "refused"
    BY <1>12, ResolveLookupEffect
  <2>2. res[v].photo \in Photos /\ (res'[v].pc = "issue" => res'[v].found = res[v].photo)
    BY <2>1 DEF Resolvable, Holders
  <2>3. UNCHANGED <<tables, objects, clocks, issued, save, del, down, work>>
    BY <1>12 DEF ResolveLookup
  <2>4. LockInv' /\ SaveInv' /\ RequestInv' /\ WorkInv'
    BY <2>1, <2>2, <2>3
  <2>5. RowInv(db)' /\ RowInv(tx)' /\ BytesInv(db)' /\ BytesInv(tx)'
    BY <2>1, <2>2, <2>3
  <2>6. GrantInv(db)' /\ GrantInv(tx)' /\ SpentInv(db)' /\ SpentInv(tx)'
    BY <2>1, <2>2, <2>3
  <2>7. DeathInv(db)' /\ DeathInv(tx)'
    BY <2>1, <2>2, <2>3
  <2> QED BY <1>0, <2>4, <2>5, <2>6, <2>7
<1>13. ASSUME NEW v \in Resolves, ResolveLimited(v) \/ IssueFails(v) PROVE Inv'
  <2>1. /\ \A e \in Resolves : /\ res'[e].photo = res[e].photo /\ res'[e].found = res[e].found
                               /\ e # v => res'[e].pc = res[e].pc
        /\ res[v].pc \in {"look", "issue"} /\ res'[v].pc = "refused"
    BY <1>13, ResMoves DEF ResolveLimited, IssueFails
  <2>2. LockInv' /\ SaveInv' /\ RequestInv' /\ WorkInv'
    BY <1>13, <2>1 DEF ResolveLimited, IssueFails, Fault
  <2>3. RowInv(db)' /\ RowInv(tx)' /\ BytesInv(db)' /\ BytesInv(tx)'
    BY <1>13, <2>1 DEF ResolveLimited, IssueFails, Fault
  <2>4. GrantInv(db)' /\ GrantInv(tx)' /\ SpentInv(db)' /\ SpentInv(tx)'
    BY <1>13, <2>1 DEF ResolveLimited, IssueFails, Fault
  <2>5. DeathInv(db)' /\ DeathInv(tx)'
    BY <1>13, <2>1 DEF ResolveLimited, IssueFails, Fault
  <2> QED BY <1>0, <2>2, <2>3, <2>4, <2>5
<1>14. ASSUME NEW v \in Resolves, IssueGrant(v) PROVE Inv'
  <2>1. /\ res[v].pc = "issue"
        /\ \A e \in Resolves : res'[e].photo = res[e].photo
        /\ \A e \in Resolves : res'[e].found = res[e].found
        /\ \A e \in Resolves : res'[e].pc = IF e = v THEN "granted" ELSE res[e].pc
    BY <1>14, ResMoves DEF IssueGrant
  <2>2. /\ tx' = db' /\ writer = Nobody /\ writer' = Nobody
        /\ res[v].found \in Photos /\ issued[res[v].found] # Nobody
    BY <1>14, <2>1 DEF IssueGrant, Write
  <2>3. /\ db'.photo = db.photo /\ db'.key = db.key
        /\ \A u \in Resolves : u # v => db'.grant[u] = db.grant[u]
        /\ db'.grant[v].photo = res[v].found
    BY <1>14, <2>2, IssueTables DEF IssueGrant, Write, Tables, Res
  <2>4. UNCHANGED <<objects, clocks, issued, save, del, down, work>>
    BY <1>14 DEF IssueGrant
  <2>5. LockInv' /\ SaveInv' /\ RequestInv' /\ WorkInv'
    BY <2>1, <2>2, <2>3, <2>4
  <2>6. RowInv(db)' /\ RowInv(tx)' /\ BytesInv(db)' /\ BytesInv(tx)'
    BY <2>1, <2>2, <2>3, <2>4
  <2>7. GrantInv(db)' /\ GrantInv(tx)' /\ SpentInv(db)' /\ SpentInv(tx)'
    BY <2>1, <2>2, <2>3, <2>4
  <2>8. DeathInv(db)' /\ DeathInv(tx)'
    BY <2>1, <2>2, <2>3, <2>4
  <2> QED BY <1>0, <2>5, <2>6, <2>7, <2>8
<1>15. ASSUME NEW w \in Downloads, NEW v \in Resolves, DownloadLookup(w, v) PROVE Inv'
  <2>1. /\ down[w].pc = "idle" /\ res[v].pc = "granted"
        /\ \A x \in Downloads : x # w => down'[x] = down[x]
        /\ \/ /\ down'[w].pc = "check" /\ down'[w].grant = v
              /\ db.grant[v] # NoGrant /\ db.grant[v].photo \in Photos
              /\ down'[w].photo = db.grant[v].photo
              /\ down'[w].live = (db.photo[db.grant[v].photo].status = "active")
           \/ down'[w].pc = "refused"
    <3>1. down[w].pc = "idle" /\ res[v].pc = "granted"
      BY <1>15 DEF DownloadLookup
    <3>2. TypeOK
      OBVIOUS
    <3> HIDE DEF TypeOK, Informed, LockInv, SaveInv, RequestInv, WorkInv
    <3> HIDE DEF RowInv, BytesInv, GrantInv, SpentInv, DeathInv, Gone, TableInv, Inv
    <3> QED BY <1>15, <3>1, <3>2, DownLookupEffect
  <2>2. /\ down'[w].pc = "check" => issued[down'[w].photo] # Nobody
        /\ down'[w].pc = "check" /\ ~down'[w].live => db.photo[down'[w].photo].status # "active"
        /\ down'[w].pc = "check" /\ ~down'[w].live => tx.photo[down'[w].photo].status # "active"
    <3>1. GrantInv(db) /\ WorkInv
      OBVIOUS
    <3> HIDE DEF TypeOK, Informed, LockInv, SaveInv, RequestInv
    <3> HIDE DEF RowInv, BytesInv, SpentInv, DeathInv, TableInv, Inv
    <3> QED BY <2>1, <3>1
  <2>3. UNCHANGED <<tables, objects, clocks, issued, save, del, res, work>>
    BY <1>15 DEF DownloadLookup
  <2>4. LockInv' /\ SaveInv' /\ RequestInv' /\ WorkInv'
    BY <1>15, <2>1, <2>2, <2>3
  <2>5. RowInv(db)' /\ RowInv(tx)' /\ BytesInv(db)' /\ BytesInv(tx)'
    BY <1>15, <2>1, <2>2, <2>3
  <2>6. GrantInv(db)' /\ GrantInv(tx)' /\ SpentInv(db)' /\ SpentInv(tx)'
    BY <1>15, <2>1, <2>2, <2>3
  <2>7. DeathInv(db)' /\ DeathInv(tx)'
    <3>1. DeathInv(db) /\ DeathInv(tx)
      OBVIOUS
    <3> HIDE DEF TypeOK, Types, Informed, LockInv, SaveInv, RequestInv, WorkInv
    <3> HIDE DEF RowInv, BytesInv, GrantInv, SpentInv, Inv, TableInv
    <3>2. UNCHANGED <<db, tx, issued, expired, del, work>>
      BY <2>3
    <3>3. \A x \in Downloads : down'[x].pc = "check" /\ ~down'[x].live =>
            Gone(db, down[x].photo)' /\ Gone(tx, down[x].photo)'
      <4>1. ASSUME NEW x \in Downloads, x # w, down'[x].pc = "check", ~down'[x].live
            PROVE  Gone(db, down[x].photo)' /\ Gone(tx, down[x].photo)'
        BY <2>1, <3>1, <3>2, <4>1
      <4>2. down'[w].pc = "check" /\ ~down'[w].live =>
              Gone(db, down[w].photo)' /\ Gone(tx, down[w].photo)'
        BY <2>2, <3>2
      <4> QED BY <4>1, <4>2
    <3> QED BY <3>1, <3>2, <3>3
  <2> QED BY <1>0, <2>4, <2>5, <2>6, <2>7
<1>16. ASSUME NEW w \in Downloads, DownloadCheck(w) PROVE Inv'
  <2>1. /\ down[w].pc = "check"
        /\ \A e \in Downloads : /\ down'[e].photo = down[e].photo /\ down'[e].grant = down[e].grant
                                /\ down'[e].live = down[e].live
                                /\ e # w => down'[e].pc = down[e].pc
        /\ \/ down'[w].pc = "consume" /\ db.photo[down[w].photo].status = "active"
           \/ down'[w].pc = "refused"
    BY <1>16, DownMoves DEF DownloadCheck
  <2>2. LockInv' /\ SaveInv' /\ RequestInv' /\ WorkInv'
    BY <1>16, <2>1 DEF DownloadCheck
  <2>3. RowInv(db)' /\ RowInv(tx)' /\ BytesInv(db)' /\ BytesInv(tx)'
    BY <1>16, <2>1 DEF DownloadCheck
  <2>4. GrantInv(db)' /\ GrantInv(tx)'
    BY <1>16, <2>1 DEF DownloadCheck
  <2>5. SpentInv(db)' /\ SpentInv(tx)'
    <3>1. \A e \in Downloads : down'[e].pc \in {"read", "served"} =>
            down[e].pc \in {"read", "served"}
      BY <2>1
    <3>2. UNCHANGED <<db, tx>>
      BY <1>16 DEF DownloadCheck
    <3> QED BY <2>1, <3>1, <3>2
  <2>6. DeathInv(db)' /\ DeathInv(tx)'
    <3>1. UNCHANGED <<tables, clocks, issued, del, work>>
      BY <1>16 DEF DownloadCheck
    <3>2. \A x \in Downloads : down'[x].pc = "check" => down[x].pc = "check"
      BY <2>1
    <3> QED BY <2>1, <3>1, <3>2
  <2> QED BY <1>0, <2>2, <2>3, <2>4, <2>5, <2>6
<1>17. ASSUME NEW w \in Downloads, ReadObject(w) \/ ConsumeFails(w) PROVE Inv'
  <2>1. /\ down[w].pc \in {"consume", "read"}
        /\ \A e \in Downloads : /\ down'[e].photo = down[e].photo /\ down'[e].grant = down[e].grant
                                /\ down'[e].live = down[e].live
                                /\ e # w => down'[e].pc = down[e].pc
        /\ (down[w].pc = "read" /\ down'[w].pc = "served") \/ down'[w].pc = "refused"
    BY <1>17, DownMoves DEF ReadObject, ConsumeFails
  <2>2. LockInv' /\ SaveInv' /\ RequestInv' /\ WorkInv'
    BY <1>17, <2>1 DEF ReadObject, ConsumeFails, Fault
  <2>3. RowInv(db)' /\ RowInv(tx)' /\ BytesInv(db)' /\ BytesInv(tx)'
    BY <1>17, <2>1 DEF ReadObject, ConsumeFails, Fault
  <2>4. GrantInv(db)' /\ GrantInv(tx)' /\ SpentInv(db)' /\ SpentInv(tx)'
    <3>1. UNCHANGED <<tables, issued, res>>
      BY <1>17 DEF ReadObject, ConsumeFails
    <3>2. \A x \in Downloads : down'[x].pc \in {"read", "served"} =>
            down[x].pc \in {"read", "served"}
      BY <2>1
    <3> QED BY <2>1, <3>1, <3>2
  <2>5. DeathInv(db)' /\ DeathInv(tx)'
    BY <1>17, <2>1 DEF ReadObject, ConsumeFails, Fault
  <2> QED BY <1>0, <2>2, <2>3, <2>4, <2>5
<1>18. ASSUME NEW w \in Downloads, Consume(w) PROVE Inv'
  <2>1. /\ down[w].pc = "consume" /\ down[w].grant \in Resolves
        /\ \A e \in Downloads : /\ down'[e].photo = down[e].photo /\ down'[e].grant = down[e].grant
                                /\ down'[e].live = down[e].live
                                /\ e # w => down'[e].pc = down[e].pc
        /\ down'[w].pc = IF Unconsumed(down[w].grant) THEN "read" ELSE "refused"
    BY <1>18, DownMoves DEF Consume
  <2>2. /\ tx' = db' /\ writer = Nobody /\ writer' = Nobody
    BY <1>18 DEF Consume, Write
  <2>3. /\ db'.photo = db.photo /\ db'.key = db.key
        /\ \A u \in Resolves :
             /\ u # down[w].grant => db'.grant[u] = db.grant[u]
             /\ db'.grant[u].photo = db.grant[u].photo
             /\ db.grant[u] = NoGrant => db'.grant[u] = NoGrant
        /\ Unconsumed(down[w].grant) => db'.grant[down[w].grant].consumed
    <3>1. CASE ~Unconsumed(down[w].grant)
      BY <1>18, <3>1 DEF Consume, Write
    <3>2. CASE Unconsumed(down[w].grant)
      BY <1>18, <2>1, <3>2, ConsumeTables DEF Consume, Write, Unconsumed, Tables, Grant
    <3> QED BY <3>1, <3>2
  <2>4. UNCHANGED <<objects, clocks, issued, save, del, res, work>>
    BY <1>18 DEF Consume
  <2>5. LockInv' /\ SaveInv' /\ RequestInv' /\ WorkInv'
    BY <1>18, <2>1, <2>2, <2>3, <2>4
  <2>6. RowInv(db)' /\ RowInv(tx)' /\ BytesInv(db)' /\ BytesInv(tx)'
    BY <1>18, <2>1, <2>2, <2>3, <2>4
  <2>7. GrantInv(db)' /\ GrantInv(tx)'
    BY <1>18, <2>1, <2>2, <2>3, <2>4
  <2>8. SpentInv(db)' /\ SpentInv(tx)'
    <3>1. SpentInv(db)
      OBVIOUS
    <3>2. \A e \in Downloads : down'[e].pc \in {"read", "served"} =>
            down'[e].grant \in Resolves
      BY <1>0
    <3>3. \A u \in Resolves : db.grant[u].consumed => db'.grant[u].consumed
      <4>1. CASE Unconsumed(down[w].grant)
        BY <2>1, <2>3, <4>1 DEF Unconsumed
      <4>2. CASE ~Unconsumed(down[w].grant)
        BY <1>18, <4>2 DEF Consume, Write
      <4> QED BY <4>1, <4>2
    <3> HIDE DEF TypeOK, LockInv, SaveInv, RequestInv, WorkInv, Types, Informed
    <3> HIDE DEF RowInv, BytesInv, GrantInv, DeathInv, TableInv, Inv
    <3>4. ASSUME NEW e \in Downloads, down'[e].pc \in {"read", "served"}
          PROVE  db'.grant[down'[e].grant] = NoGrant \/ db'.grant[down'[e].grant].consumed
      <4>1. CASE e = w
        BY <2>1, <2>3, <4>1, <3>4
      <4>2. CASE e # w
        BY <2>1, <2>3, <3>1, <3>2, <3>3, <3>4, <4>2
      <4> QED BY <4>1, <4>2
    <3> QED BY <2>2, <3>4
  <2>9. DeathInv(db)' /\ DeathInv(tx)'
    BY <1>18, <2>1, <2>2, <2>3, <2>4
  <2> QED BY <1>0, <2>5, <2>6, <2>7, <2>8, <2>9
<1>19. CASE WorkerExpire
  <2>1. /\ writer = Nobody /\ writer' = Worker /\ tx = db /\ db' = db /\ work.pc = "idle"
        /\ work'.pc = "expire"
    BY <1>19 DEF WorkerExpire, Work
  <2>2. \A p \in work'.queue : p \in Photos /\ p \in expired /\ tx'.photo[p].status # "none"
    BY <1>19 DEF WorkerExpire, Erasable, Work
  <2>3. /\ \A q \in Photos : tx'.photo[q].key = tx.photo[q].key
        /\ \A q \in Photos : tx'.photo[q].status =
             IF tx.photo[q].status = "active" /\ q \in expired THEN "access-revoked"
             ELSE tx.photo[q].status
        /\ tx'.key = tx.key /\ tx'.grant = tx.grant
    BY <1>19, <2>1, ExpireRowsEffect DEF WorkerExpire
  <2>4. UNCHANGED <<db, objects, clocks, issued, save, del, res, down>>
    BY <1>19 DEF WorkerExpire
  <2> QED BY <1>0, <1>19, <2>1, <2>2, <2>3, <2>4
<1>20. CASE WorkerDue
  <2>1. /\ work.pc = "due" /\ work'.pc = "purge"
        /\ \A p \in work'.queue : p \in Photos /\ db.photo[p].status \notin {"none", "active"}
    BY <1>20 DEF WorkerDue, Erasable, Work
  <2>2. UNCHANGED <<tables, objects, clocks, issued, save, del, res, down>>
    BY <1>20 DEF WorkerDue
  <2>3. LockInv' /\ SaveInv' /\ RequestInv' /\ WorkInv'
    BY <2>1, <2>2
  <2>4. RowInv(db)' /\ RowInv(tx)' /\ BytesInv(db)' /\ BytesInv(tx)'
    BY <2>2
  <2>5. GrantInv(db)' /\ GrantInv(tx)' /\ SpentInv(db)' /\ SpentInv(tx)'
    BY <2>2
  <2>6. \A p \in work'.queue : Gone(db, p)' /\ Gone(tx, p)'
    BY <2>1, <2>2
  <2>7. DeathInv(db)' /\ DeathInv(tx)'
    BY <2>1, <2>2, <2>6
  <2> QED BY <1>0, <2>3, <2>4, <2>5, <2>7
<1>21. CASE WorkerOrphans
  <2>1. /\ work.pc = "sweep" /\ work'.pc = "walk"
        /\ \A p \in work'.queue : p \in objects /\ p \in aged /\ p \in Photos /\ db.photo[p].status = "none"
    BY <1>21 DEF WorkerOrphans
  <2>2. UNCHANGED <<tables, objects, clocks, issued, save, del, res, down>>
    BY <1>21 DEF WorkerOrphans
  <2>3. LockInv' /\ SaveInv' /\ RequestInv' /\ WorkInv'
    BY <2>1, <2>2
  <2>4. RowInv(db)' /\ RowInv(tx)' /\ BytesInv(db)' /\ BytesInv(tx)'
    BY <2>1, <2>2
  <2>5. GrantInv(db)' /\ GrantInv(tx)' /\ SpentInv(db)' /\ SpentInv(tx)'
    BY <2>1, <2>2
  <2>6. DeathInv(db)' /\ DeathInv(tx)'
    BY <2>1, <2>2
  <2> QED BY <1>0, <2>3, <2>4, <2>5, <2>6
<1>22. CASE WorkerSwept
  <2>1. /\ work.pc = "walk" /\ work'.pc = "grants"
    BY <1>22 DEF WorkerSwept, WorkGoto, Work
  <2>2. UNCHANGED <<tables, objects, clocks, issued, save, del, res, down>>
    BY <1>22 DEF WorkerSwept
  <2>3. LockInv' /\ SaveInv' /\ RequestInv' /\ WorkInv'
    BY <2>1, <2>2
  <2>4. RowInv(db)' /\ RowInv(tx)' /\ BytesInv(db)' /\ BytesInv(tx)'
    BY <2>1, <2>2
  <2>5. GrantInv(db)' /\ GrantInv(tx)' /\ SpentInv(db)' /\ SpentInv(tx)'
    BY <2>1, <2>2
  <2>6. DeathInv(db)' /\ DeathInv(tx)'
    BY <2>1, <2>2
  <2> QED BY <1>0, <2>3, <2>4, <2>5, <2>6
<1>23. ASSUME NEW p \in Photos, WorkerPurge(p) PROVE Inv'
  <2>1. /\ work.pc \in {"expire", "purge"} /\ work'.pc = work.pc
        /\ p \in work.queue /\ work'.queue \subseteq work.queue /\ work.queue \subseteq Photos
        /\ writer \in {Nobody, Worker} /\ writer' = Worker
    BY <1>23 DEF WorkerPurge, Work
  <2>2. /\ \A q \in Photos : tx'.photo[q].key = tx.photo[q].key
        /\ \A q \in Photos : tx'.photo[q].status =
             IF q = p /\ tx.photo[q].status # "none" THEN "purged" ELSE tx.photo[q].status
        /\ \A k \in Keys : tx.key[k] # NoKey => tx'.key[k] # NoKey
        /\ \A v \in Resolves :
             /\ tx'.grant[v].photo = tx.grant[v].photo
             /\ tx.grant[v].consumed => tx'.grant[v].consumed
             /\ tx.grant[v] = NoGrant => tx'.grant[v] = NoGrant
    <3>1. tx' = PurgePhoto(tx, p) /\ tx \in Tables /\ p \in Photos
      BY <1>23 DEF WorkerPurge
    <3> QED BY <3>1, PurgePhotoEffect
  <2>3. LockInv' /\ SaveInv' /\ RequestInv' /\ WorkInv'
    BY <1>23, <2>1, <2>2 DEF WorkerPurge
  <2>4. RowInv(db)' /\ RowInv(tx)' /\ BytesInv(db)' /\ BytesInv(tx)'
    BY <1>23, <2>1, <2>2 DEF WorkerPurge
  <2>5. GrantInv(db)' /\ GrantInv(tx)' /\ SpentInv(db)' /\ SpentInv(tx)'
    <3>1. UNCHANGED <<db, issued, res, down>>
      BY <1>23 DEF WorkerPurge
    <3> QED BY <2>2, <3>1
  <2>6. DeathInv(db)' /\ DeathInv(tx)'
    BY <1>23, <2>1, <2>2 DEF WorkerPurge
  <2> QED BY <1>0, <2>3, <2>4, <2>5, <2>6
<1>24. CASE WorkerCommit
  <2>1. /\ \/ work.pc = "expire" /\ work'.pc = "due"
           \/ work.pc = "purge" /\ work'.pc = "sweep"
        /\ tx' = tx
        /\ \/ writer = Worker /\ db' = tx /\ writer' = Nobody
           \/ writer # Worker /\ db' = db /\ writer' = writer
    BY <1>24 DEF WorkerCommit, WorkGoto, Work
  <2> QED BY <1>0, <1>24, <2>1 DEF WorkerCommit
<1>25. ASSUME NEW p \in Photos, WorkerSweep(p) PROVE Inv'
  BY <1>0, <1>25 DEF WorkerSweep
<1>26. CASE WorkerDropGrants
  <2>1. /\ work.pc = "grants" /\ work'.pc = "records"
        /\ tx' = db' /\ writer = Nobody /\ writer' = Nobody
        /\ db'.photo = db.photo /\ db'.key = db.key
        /\ \A v \in Resolves : db'.grant[v] \in {NoGrant, db.grant[v]}
    BY <1>26, DropGrantsTables DEF WorkerDropGrants, WorkGoto, Write, Work
  <2> QED BY <1>0, <1>26, <2>1 DEF WorkerDropGrants
<1>27. CASE WorkerDropRecords
  <2>1. /\ work.pc = "records" /\ work'.pc = "idle"
        /\ tx' = db' /\ writer = Nobody /\ writer' = Nobody
        /\ db'.key = db.key /\ db'.grant = db.grant
        /\ \A q \in Photos :
             \/ db'.photo[q] = db.photo[q]
             \/ db.photo[q].status = "purged" /\ db'.photo[q].status = "none"
    BY <1>27, DropRecordsTables DEF WorkerDropRecords, Write, NoRow
  <2> QED BY <1>0, <1>27, <2>1 DEF WorkerDropRecords
<1>28. CASE WorkerFails
  <2>1. /\ work.pc # "idle" /\ work'.pc = "idle" /\ db' = db
        /\ \/ writer = Worker /\ tx' = db /\ writer' = Nobody
           \/ writer # Worker /\ tx' = tx /\ writer' = writer
    BY <1>28 DEF WorkerFails, Rollback
  <2> QED BY <1>0, <1>28, <2>1 DEF WorkerFails
<1>29. ASSUME NEW p \in Photos, PhotoExpires(p) PROVE Inv'
  BY <1>0, <1>29 DEF PhotoExpires
<1>30. ASSUME NEW p \in Photos, ObjectAges(p) PROVE Inv'
  BY <1>0, <1>30 DEF ObjectAges
<1>31. ASSUME NEW v \in Resolves, GrantExpires(v) PROVE Inv'
  BY <1>0, <1>31 DEF GrantExpires
<1>32. CASE Crash
  <2>1. /\ tx' = db /\ db' = db /\ writer' = Nobody /\ work'.pc = "idle"
        /\ \A p \in Photos : save'[p] = IF save[p] = "stored" THEN "failed" ELSE save[p]
    BY <1>32 DEF Crash, Rollback
  <2>2. /\ \A d \in Deletes : /\ del'[d].photo = del[d].photo
                              /\ del'[d].pc \in {del[d].pc, "lost"}
                              /\ del'[d].pc \notin {"purge", "commit"}
                              /\ del[d].pc = "idle" => del'[d].pc = "idle"
        /\ \A v \in Resolves : /\ res'[v].photo = res[v].photo /\ res'[v].found = res[v].found
                               /\ res'[v].pc \in {res[v].pc, "lost"}
                               /\ res[v].pc = "granted" => res'[v].pc = "granted"
        /\ \A w \in Downloads : /\ down'[w].photo = down[w].photo /\ down'[w].grant = down[w].grant
                                /\ down'[w].live = down[w].live
                                /\ down'[w].pc \in {down[w].pc, "lost"}
    BY <1>32, CrashEffect
  <2>3. LockInv' /\ WorkInv'
    BY <1>32, <2>1, <2>2 DEF Crash
  <2>7. SaveInv'
    BY <1>32, <2>1 DEF Crash
  <2>8. RequestInv'
    <3>1. UNCHANGED issued
      BY <1>32 DEF Crash
    <3>2. RequestInv /\ Informed
      OBVIOUS
    <3> HIDE DEF TypeOK, Types, LockInv, SaveInv, WorkInv, Inv, TableInv
    <3> HIDE DEF RowInv, BytesInv, GrantInv, SpentInv, DeathInv
    <3>3. \A d \in Deletes : del'[d].pc # "idle" => issued'[del'[d].photo] # Nobody
      BY <2>2, <3>1, <3>2
    <3>4. \A v \in Resolves :
            /\ res'[v].pc \in {"look", "issue", "granted"} => issued'[res'[v].photo] # Nobody
            /\ res'[v].pc \in {"issue", "granted"} => res'[v].found = res'[v].photo
      BY <2>2, <3>1, <3>2
    <3>5. \A w \in Downloads :
            /\ down'[w].pc \in {"check", "consume", "read", "served"} =>
                 issued'[down'[w].photo] # Nobody /\ res'[down'[w].grant].pc = "granted"
            /\ down'[w].pc \in {"consume", "read", "served"} => down'[w].live
      BY <2>2, <3>1, <3>2
    <3> QED BY <3>3, <3>4, <3>5
  <2>4. RowInv(db)' /\ RowInv(tx)' /\ BytesInv(db)' /\ BytesInv(tx)'
    BY <1>32, <2>1, <2>2 DEF Crash
  <2>5. GrantInv(db)' /\ GrantInv(tx)' /\ SpentInv(db)' /\ SpentInv(tx)'
    BY <1>32, <2>1, <2>2 DEF Crash
  <2>6. DeathInv(db)' /\ DeathInv(tx)'
    BY <1>32, <2>1, <2>2 DEF Crash
  <2> QED BY <1>0, <2>3, <2>4, <2>5, <2>6, <2>7, <2>8
<1>33. CASE UNCHANGED vars
  BY <1>0, <1>33 DEF vars
<1> QED
  BY <1>1, <1>2, <1>3, <1>4, <1>5, <1>6, <1>7, <1>8, <1>9, <1>10, <1>11, <1>12, <1>13, <1>14, <1>15, <1>16, <1>17, <1>18, <1>19, <1>20, <1>21, <1>22, <1>23, <1>24, <1>25, <1>26, <1>27, <1>28, <1>29, <1>30, <1>31, <1>32, <1>33
 DEF Next, SaveStep, DeleteStep, ResolveStep, DownloadStep, WorkerStep, Time

(* It holds at the start,                                                  *)
LEMMA InitInv == Init => Inv
<1> SUFFICES ASSUME Init PROVE Inv
  OBVIOUS
<1>1. Types
  BY PhotoAssumption
  DEF Init, Types, TypeOK, Informed, Tables, Row, RegistryRow, Grant, NoRow, NoKey, NoGrant,
      Del, Res, Down, Work
<1>2. LockInv /\ SaveInv /\ RequestInv /\ WorkInv
  BY PhotoAssumption DEF Init, LockInv, SaveInv, RequestInv, WorkInv, NoRow
<1>3. TableInv(db) /\ tx = db
  BY PhotoAssumption
  DEF Init, TableInv, RowInv, BytesInv, GrantInv, SpentInv, DeathInv, NoRow, NoGrant
<1> QED BY <1>1, <1>2, <1>3 DEF Inv

(* ... and so always.                                                      *)
LEMMA InvAlways == Spec => []Inv
BY InitInv, InvStep, PTL DEF Spec

-----------------------------------------------------------------------------
(* What follows.                                                           *)

(* Who holds a KEY reaches the photo it was issued for, or nothing: the    *)
(* photo a resolve request found is the one whose KEY it was sent, however *)
(* often KEYs were drawn and photos purged in between.                     *)
THEOREM KeyIsNeverReissued == Spec => []KeyLeadsToItsPhoto
<1>1. Inv => KeyLeadsToItsPhoto
  BY DEF Inv, RequestInv, KeyLeadsToItsPhoto
<1> QED BY <1>1, InvAlways, PTL

(* A row that says purged, or no row at all, means that the bytes are off  *)
(* the disk, in the committed tables and through every crash and rollback. *)
THEOREM PurgeIsPhysical == Spec => []PurgedMeansBytesGone
<1>1. Inv => PurgedMeansBytesGone
  BY DEF Inv, TableInv, BytesInv, PurgedMeansBytesGone
<1> QED BY <1>1, InvAlways, PTL

(* A delete answered 204 has revoked the photo, whatever fails and races,  *)
(* unless it ended in the handler's outer except (DeleteExcepted).         *)
THEOREM OkMeansRevoked == Spec => []DeleteOkMeansRevoked
<1>1. Inv => DeleteOkMeansRevoked
  BY DEF Inv, TableInv, DeathInv, Gone, DeleteOkMeansRevoked, Answered204
<1> QED BY <1>1, InvAlways, PTL

(* Of two downloads with one token the database lets one pass.             *)
LEMMA SingleUseStep == Inv /\ SingleUse /\ [Next]_vars => SingleUse'
<1> SUFFICES ASSUME Inv, SingleUse, [Next]_vars PROVE SingleUse'
  OBVIOUS
<1> DEFINE Past(x) == down[x].pc \in {"read", "served"}
<1>0. Types /\ TypeOK /\ SpentInv(db)
  BY DEF Inv, Types, TableInv
<1>1. ASSUME \A x \in Downloads : Past(x)' => Past(x) /\ down'[x].grant = down[x].grant
      PROVE  SingleUse'
  BY <1>1 DEF SingleUse
<1>2. ASSUME NEW w \in Downloads, Consume(w) PROVE SingleUse'
  <2>1. /\ down'[w].grant = down[w].grant
        /\ Past(w)' => Unconsumed(down[w].grant)
        /\ \A x \in Downloads : x # w => down'[x] = down[x]
    BY <1>0, <1>2 DEF Consume, DownGoto, TypeOK, Down
  <2>2. CASE Unconsumed(down[w].grant)
    <3>1. \A x \in Downloads : x # w /\ Past(x) => down[x].grant # down[w].grant
      BY <1>0, <2>2 DEF SpentInv, Unconsumed
    <3> QED BY <2>1, <3>1 DEF SingleUse
  <2>3. CASE ~Unconsumed(down[w].grant)
    BY <2>1, <2>3, <1>1
  <2> QED BY <2>2, <2>3
<1>3. ASSUME NEW w \in Downloads, DownloadCheck(w) \/ ConsumeFails(w) \/ ReadObject(w)
      PROVE  SingleUse'
  <2>1. /\ down'[w].grant = down[w].grant /\ (Past(w)' => Past(w))
        /\ \A x \in Downloads : x # w => down'[x] = down[x]
    BY <1>0, <1>3 DEF DownloadCheck, ConsumeFails, ReadObject, DownGoto, TypeOK, Down
  <2> QED BY <1>1, <2>1
<1>4. ASSUME NEW w \in Downloads, NEW v \in Resolves, DownloadLookup(w, v) PROVE SingleUse'
  <2>1. ~Past(w)' /\ \A x \in Downloads : x # w => down'[x] = down[x]
    BY <1>0, <1>4, DownLookupEffect
  <2> QED BY <1>1, <2>1
<1>5. CASE Crash
  <2>1. \A x \in Downloads : Past(x)' => Past(x) /\ down'[x].grant = down[x].grant
    BY <1>0, <1>5, CrashEffect
  <2> QED BY <1>1, <2>1
<1>6. CASE UNCHANGED down
  BY <1>1, <1>6
<1>7. \/ UNCHANGED down \/ Crash
      \/ \E w \in Downloads : (\E v \in Resolves : DownloadLookup(w, v)) \/ DownloadStep(w)
  <2>1. ASSUME NEW p \in Photos,
               \/ SaveStep(p) \/ WorkerPurge(p) \/ WorkerSweep(p) \/ PhotoExpires(p)
               \/ ObjectAges(p)
        PROVE  UNCHANGED down
    BY <2>1 DEF SaveStep, StoreObject, CommitSave, SaveFails, WorkerPurge, WorkerSweep,
                PhotoExpires, ObjectAges, actors
  <2>2. ASSUME NEW d \in Deletes, (\E p \in Photos : DeleteArrive(d, p)) \/ DeleteStep(d)
        PROVE  UNCHANGED down
    BY <2>2 DEF DeleteArrive, DeleteStep, DeleteLookup, DeleteExcepted, Revoke, RevokeFails,
                DeleteUnlink, DeleteCommit, DeletePurgeFails
  <2>3. ASSUME NEW v \in Resolves,
               (\E p \in Photos : ResolveArrive(v, p)) \/ ResolveStep(v) \/ GrantExpires(v)
        PROVE  UNCHANGED down
    BY <2>3 DEF ResolveArrive, ResolveStep, ResolveLookup, ResolveLimited, IssueGrant,
                IssueFails, GrantExpires, actors
  <2>4. ASSUME \/ WorkerExpire \/ WorkerDue \/ WorkerCommit \/ WorkerOrphans \/ WorkerSwept
               \/ WorkerDropGrants \/ WorkerDropRecords \/ WorkerFails
        PROVE  UNCHANGED down
    BY <2>4 DEF WorkerExpire, WorkerDue, WorkerCommit, WorkerOrphans, WorkerSwept,
                WorkerDropGrants, WorkerDropRecords, WorkerFails
  <2> QED BY <2>1, <2>2, <2>3, <2>4 DEF Next, WorkerStep, Time, vars
<1> QED BY <1>2, <1>3, <1>4, <1>5, <1>6, <1>7 DEF DownloadStep

(* A download token yields the photo to one download at most, of any       *)
(* number that present it side by side, and also after the worker dropped  *)
(* the consumed grant.                                                     *)
THEOREM TokenIsSingleUse == Spec => []SingleUse
<1>1. Init => SingleUse
  BY DEF Init, SingleUse
<1> QED BY <1>1, InvAlways, SingleUseStep, PTL DEF Spec

-----------------------------------------------------------------------------
(* The service implements PhotoVault: every step of PhotoLifecycle is a    *)
(* step of the vault, or changes nothing in it.                            *)

(* How the lives and the readers of the vault follow the tables.           *)
LEMMA LifeKept ==
  ASSUME UNCHANGED <<issued, expired>>,
         \A p \in Photos : p \notin expired =>
           (db'.photo[p].status = "active" <=> db.photo[p].status = "active")
  PROVE  [p \in Photos |-> Life(p)]' = [p \in Photos |-> Life(p)]
BY DEF Life

(* ... and who moves no download moves no reader.                          *)
LEMMA ReadersKept ==
  ASSUME UNCHANGED down
  PROVE  [w \in Downloads |-> Reader(w)]' = [w \in Downloads |-> Reader(w)]
BY DEF Reader

(* A download that is turned away, or that was never reading.              *)
LEMMA TurnedAway ==
  ASSUME Types, NEW w \in Downloads, down[w].pc \in {"idle", "check", "consume", "read"},
         down'[w].pc = "refused", \A x \in Downloads : x # w => down'[x] = down[x],
         [p \in Photos |-> Life(p)]' = [p \in Photos |-> Life(p)], UNCHANGED objects
  PROVE  [Vault!VaultNext]_(Vault!vaultVars)
<1> DEFINE reader == [x \in Downloads |-> Reader(x)]
<1>1. Reader(w)' = [at |-> "refused", photo |-> Nobody]
  BY DEF Reader
<1>2. \A x \in Downloads : x # w => Reader(x)' = Reader(x)
  BY DEF Reader
<1>3. CASE Reader(w).at \in {"idle", "reading"}
  <2>1. Vault!TurnAway({w})
    BY <1>1, <1>2, <1>3 DEF Vault!TurnAway, Vault!Refused
  <2> QED BY <2>1 DEF Vault!VaultNext
<1>4. CASE Reader(w).at \notin {"idle", "reading"}
  <2>1. Reader(w)' = Reader(w)
    BY <1>1, <1>4 DEF Reader
  <2>2. reader' = reader
    BY <1>2, <2>1
  <2> QED BY <2>2 DEF Vault!vaultVars
<1> QED BY <1>3, <1>4

(* What changes neither lives, readers nor bytes is no step of the vault.  *)
LEMMA Stutters ==
  ASSUME [p \in Photos |-> Life(p)]' = [p \in Photos |-> Life(p)],
         UNCHANGED <<objects, down>>
  PROVE  UNCHANGED Vault!vaultVars
BY ReadersKept DEF Vault!vaultVars

(* A photo dies, or is not there to die.                                   *)
LEMMA PhotoDies ==
  ASSUME Types, NEW p \in Photos, UNCHANGED <<objects, down, issued>>,
         \A q \in Photos : q # p => Life(q)' = Life(q),
         Life(p)' = "dead", Life(p) \in {"alive", "dead"}
  PROVE  [Vault!VaultNext]_(Vault!vaultVars)
<1> DEFINE life == [q \in Photos |-> Life(q)]
<1>1. CASE Life(p) = "dead"
  <2>1. life' = life
    BY <1>1
  <2> QED BY <2>1, Stutters
<1>2. CASE Life(p) = "alive"
  <2>1. life' = [life EXCEPT ![p] = "dead"]
    OBVIOUS
  <2>2. Vault!Kill(p)
    BY <1>2, <2>1, ReadersKept DEF Vault!Kill
  <2> QED BY <2>2 DEF Vault!VaultNext
<1> QED BY <1>1, <1>2

(* The bytes of a photo that is not alive go.                              *)
LEMMA BytesGo ==
  ASSUME NEW p \in Photos, objects' = objects \ {p}, UNCHANGED <<db, issued, expired, down>>,
         Life(p) # "alive"
  PROVE  [Vault!VaultNext]_(Vault!vaultVars)
<1>1. [q \in Photos |-> Life(q)]' = [q \in Photos |-> Life(q)]
  BY LifeKept
<1>2. Vault!Erase(p)
  BY <1>1, ReadersKept DEF Vault!Erase
<1> QED BY <1>2 DEF Vault!VaultNext

(* Every step of the service is a step of the vault, or none.              *)
LEMMA VaultStep == Inv /\ [Next]_vars => [Vault!VaultNext]_(Vault!vaultVars)
<1> SUFFICES ASSUME Inv, [Next]_vars PROVE [Vault!VaultNext]_(Vault!vaultVars)
  OBVIOUS
<1> DEFINE life == [p \in Photos |-> Life(p)]
           reader == [w \in Downloads |-> Reader(w)]
           Simulated == [Vault!VaultNext]_(Vault!vaultVars)
<1>0. Types /\ TypeOK
  BY DEF Inv, Types
<1>1. ASSUME NEW p \in Photos, StoreObject(p) PROVE Simulated
  <2>1. Life(p) = "none" /\ life' = life
    BY <1>1, LifeKept DEF StoreObject, Inv, SaveInv, Life, tables, clocks
  <2>2. Vault!Store(p)
    BY <1>1, <2>1, ReadersKept DEF StoreObject, Vault!Store
  <2> QED BY <2>2 DEF Vault!VaultNext
<1>2. ASSUME NEW p \in Photos, SaveFails(p) PROVE Simulated
  <2>1. Life(p) # "alive" /\ UNCHANGED <<db, issued, expired, down>>
    BY <1>2 DEF SaveFails, Inv, SaveInv, Life, tables, clocks
  <2>2. CASE p \in Stuck
    BY <1>2, <2>1, <2>2, LifeKept, Stutters DEF SaveFails
  <2>3. CASE p \notin Stuck
    BY <1>2, <2>1, <2>3, BytesGo DEF SaveFails
  <2> QED BY <2>2, <2>3
<1>3. ASSUME NEW p \in Photos, CommitSave(p) PROVE Simulated
  <2>1. PICK k \in Keys :
          /\ k # Nobody /\ save[p] = "stored"
          /\ \A q \in Photos :
               /\ db'.photo[q].status = IF q = p THEN "active" ELSE db.photo[q].status
               /\ issued'[q] = IF q = p THEN k ELSE issued[q]
    BY <1>0, <1>3, CommitSaveEffect
  <2>2. issued[p] = Nobody /\ p \notin expired /\ p \in objects
    BY <2>1 DEF Inv, SaveInv
  <2>3. UNCHANGED <<objects, expired, down>>
    BY <1>3 DEF CommitSave, clocks
  <2>4. Life(p) = "none" /\ Life(p)' = "alive" /\ \A q \in Photos : q # p => Life(q)' = Life(q)
    BY <2>1, <2>2, <2>3 DEF Life
  <2>5. life' = [life EXCEPT ![p] = "alive"]
    BY <2>4
  <2>6. Vault!Keep(p)
    BY <2>2, <2>3, <2>4, <2>5, ReadersKept DEF Vault!Keep
  <2> QED BY <2>6 DEF Vault!VaultNext
<1>4. ASSUME NEW d \in Deletes,
             \/ \E p \in Photos : DeleteArrive(d, p)
             \/ DeleteLookup(d) \/ DeleteExcepted(d) \/ RevokeFails(d) \/ DeletePurgeFails(d)
      PROVE  Simulated
  <2>1. UNCHANGED <<db, issued, expired, objects, down>>
    BY <1>4 DEF DeleteArrive, DeleteLookup, DeleteExcepted, RevokeFails, DeletePurgeFails,
                Rollback, tables, clocks
  <2> QED BY <2>1, LifeKept, Stutters
<1>5. ASSUME NEW d \in Deletes, Revoke(d) PROVE Simulated
  <2>1. PICK p \in Photos :
          /\ p = del[d].photo /\ del[d].pc = "revoke"
          /\ \A q \in Photos : db'.photo[q].status =
               IF q = p /\ db.photo[q].status # "none" THEN "access-revoked"
               ELSE db.photo[q].status
    BY <1>0, <1>5, RevokeEffect
  <2>2. issued[p] # Nobody
    BY <2>1 DEF Inv, RequestInv
  <2>3. UNCHANGED <<objects, expired, issued, down>>
    BY <1>5 DEF Revoke, clocks
  <2>4. Life(p)' = "dead" /\ Life(p) \in {"alive", "dead"}
    BY <2>1, <2>2, <2>3 DEF Life
  <2>5. \A q \in Photos : q # p => Life(q)' = Life(q)
    BY <2>1, <2>3 DEF Life
  <2> QED BY <1>0, <2>1, <2>3, <2>4, <2>5, PhotoDies
<1>6. ASSUME NEW d \in Deletes, DeleteUnlink(d) PROVE Simulated
  <2>1. del[d].pc = "purge" /\ del[d].photo \in Photos
    BY <1>6 DEF DeleteUnlink, DelGoto, Inv, Types, Informed
  <2>2. Gone(db, del[d].photo)
    BY <2>1 DEF Inv, TableInv, DeathInv
  <2>3. Life(del[d].photo) # "alive"
    BY <2>2 DEF Gone, Life
  <2>4. UNCHANGED <<db, issued, expired, down>> /\ objects' = objects \ {del[d].photo}
    BY <1>6 DEF DeleteUnlink, clocks
  <2> QED BY <2>1, <2>3, <2>4, BytesGo
<1>7. ASSUME NEW d \in Deletes, DeleteCommit(d) PROVE Simulated
  <2>1. db' = tx /\ UNCHANGED <<issued, expired, objects, down>>
    BY <1>7 DEF DeleteCommit, clocks
  <2>2. life' = life
    BY <2>1, LifeKept DEF Inv, WorkInv
  <2> QED BY <2>1, <2>2, Stutters
<1>8. ASSUME NEW v \in Resolves,
             \/ \E p \in Photos : ResolveArrive(v, p)
             \/ ResolveLookup(v) \/ ResolveLimited(v) \/ IssueFails(v)
      PROVE  Simulated
  <2>1. UNCHANGED <<db, issued, expired, objects, down>>
    BY <1>8 DEF ResolveArrive, ResolveLookup, ResolveLimited, IssueFails, tables, clocks
  <2> QED BY <2>1, LifeKept, Stutters
<1>9. ASSUME NEW v \in Resolves, IssueGrant(v) PROVE Simulated
  <2>1. /\ db'.photo = db.photo
        /\ UNCHANGED <<issued, expired, objects, down>>
    BY <1>0, <1>9 DEF IssueGrant, Write, TypeOK, Tables, clocks
  <2> QED BY <2>1, LifeKept, Stutters
<1>10. ASSUME NEW w \in Downloads, NEW v \in Resolves, DownloadLookup(w, v) PROVE Simulated
  <2>1. /\ down[w].pc = "idle" /\ UNCHANGED <<db, issued, expired, objects>>
    BY <1>10 DEF DownloadLookup, tables, clocks
  <2>2. life' = life
    BY <2>1, LifeKept
  <2>3. \A x \in Downloads : x # w => down'[x] = down[x]
    BY <1>0, <1>10, DownLookupEffect
  <2>4. CASE down'[w].pc = "refused"
    BY <1>0, <2>1, <2>2, <2>3, <2>4, TurnedAway
  <2>5. CASE down'[w].pc = "check"
    <3> DEFINE p == db.grant[v].photo
    <3>1. /\ db.grant[v] # NoGrant /\ p \in Photos /\ p \notin expired
          /\ down'[w].photo = p
          /\ down'[w].live = (db.photo[p].status = "active")
      BY <1>0, <1>10, <2>5, DownLookupEffect
    <3>2. issued[p] # Nobody
      BY <3>1 DEF Inv, TableInv, GrantInv
    <3>3. \A x \in Downloads : x # w => Reader(x)' = Reader(x)
      BY <2>3 DEF Reader
    <3>4. Reader(w) = [at |-> "idle", photo |-> Nobody]
      BY <2>1 DEF Reader
    <3>5. CASE db.photo[p].status = "active"
      <4>1. Life(p) = "alive" /\ Reader(w)' = [at |-> "reading", photo |-> p]
        BY <2>5, <3>1, <3>2, <3>5 DEF Life, Reader
      <4>2. reader' = [reader EXCEPT ![w] = [at |-> "reading", photo |-> p]]
        BY <3>3, <4>1
      <4>3. Vault!StartReading(w, p)
        BY <2>1, <2>2, <3>1, <3>4, <4>1, <4>2 DEF Vault!StartReading, Vault!Idle
      <4> QED BY <3>1, <4>3 DEF Vault!VaultNext
    <3>6. CASE db.photo[p].status # "active"
      <4>1. Reader(w)' = [at |-> "refused", photo |-> Nobody]
        BY <2>5, <3>1, <3>6 DEF Reader
      <4>2. Vault!TurnAway({w})
        BY <2>1, <2>2, <3>3, <3>4, <4>1 DEF Vault!TurnAway, Vault!Refused
      <4> QED BY <4>2 DEF Vault!VaultNext
    <3> QED BY <3>5, <3>6
  <2> QED BY <1>0, <1>10, <2>4, <2>5, DownLookupEffect
<1>11. ASSUME NEW w \in Downloads, DownloadCheck(w) \/ Consume(w) PROVE Simulated
  <2>1. /\ down[w].pc \in {"check", "consume"}
        /\ \/ down'[w].pc = "refused"
           \/ /\ down'[w].pc \in {"consume", "read"}
              /\ down'[w].live = down[w].live /\ down'[w].photo = down[w].photo
        /\ \A x \in Downloads : x # w => down'[x] = down[x]
    BY <1>0, <1>11 DEF DownloadCheck, Consume, DownGoto, TypeOK, Down
  <2>2. db'.photo = db.photo
    <3>1. CASE DownloadCheck(w)
      BY <3>1 DEF DownloadCheck, tables
    <3>2. CASE Consume(w)
      BY <1>0, <3>2 DEF Consume, Write, TypeOK, Tables
    <3> QED BY <1>11, <3>1, <3>2
  <2>3. UNCHANGED <<issued, expired, objects>>
    BY <1>11 DEF DownloadCheck, Consume, clocks
  <2>4. life' = life
    BY <2>2, <2>3, LifeKept
  <2>5. CASE down'[w].pc = "refused"
    BY <1>0, <2>1, <2>3, <2>4, <2>5, TurnedAway
  <2>6. CASE down'[w].pc \in {"consume", "read"}
    <3>1. Reader(w)' = Reader(w)
      BY <2>1, <2>6 DEF Reader
    <3>2. \A x \in Downloads : x # w => Reader(x)' = Reader(x)
      BY <2>1 DEF Reader
    <3>3. reader' = reader
      BY <3>1, <3>2
    <3> QED BY <2>3, <2>4, <3>3 DEF Vault!vaultVars
  <2> QED BY <2>1, <2>5, <2>6
<1>12. ASSUME NEW w \in Downloads, ReadObject(w) \/ ConsumeFails(w) PROVE Simulated
  <2>1. /\ down[w].pc \in {"consume", "read"}
        /\ \/ down'[w].pc = "refused"
           \/ /\ down[w].pc = "read" /\ down'[w].pc = "served" /\ down[w].photo \in objects
              /\ down'[w].photo = down[w].photo
        /\ \A x \in Downloads : x # w => down'[x] = down[x]
    BY <1>0, <1>12 DEF ReadObject, ConsumeFails, DownGoto, TypeOK, Down
  <2>2. UNCHANGED <<db, issued, expired, objects>>
    BY <1>12 DEF ReadObject, ConsumeFails, tables, clocks
  <2>3. life' = life
    BY <2>2, LifeKept
  <2>4. CASE down'[w].pc = "refused"
    BY <1>0, <2>1, <2>2, <2>3, <2>4, TurnedAway
  <2>5. CASE down'[w].pc = "served"
    <3>1. down[w].live
      BY <2>1, <2>5 DEF Inv, RequestInv
    <3>2. /\ Reader(w) = [at |-> "reading", photo |-> down[w].photo]
          /\ Reader(w)' = [at |-> "served", photo |-> down[w].photo]
      BY <2>1, <2>5, <3>1 DEF Reader
    <3>3. \A x \in Downloads : x # w => Reader(x)' = Reader(x)
      BY <2>1 DEF Reader
    <3>4. Vault!Serve(w)
      <4>1. [Reader(w) EXCEPT !.at = "served"] = [at |-> "served", photo |-> down[w].photo]
        BY <3>2
      <4>2. reader' = [reader EXCEPT ![w].at = "served"]
        BY <3>2, <3>3, <4>1
      <4>3. reader[w].at = "reading" /\ reader[w].photo \in objects
        BY <2>1, <2>5, <3>2
      <4> QED BY <2>2, <2>3, <4>2, <4>3 DEF Vault!Serve
    <3> QED BY <3>4 DEF Vault!VaultNext
  <2> QED BY <2>1, <2>4, <2>5
<1>13. CASE WorkerExpire \/ WorkerDue \/ WorkerOrphans \/ WorkerSwept \/ WorkerFails
  <2>1. UNCHANGED <<db, issued, expired, objects, down>>
    BY <1>13 DEF WorkerExpire, WorkerDue, WorkerOrphans, WorkerSwept, WorkerFails, Rollback,
                 tables, clocks
  <2> QED BY <2>1, LifeKept, Stutters
<1>14. ASSUME NEW p \in Photos, WorkerPurge(p) PROVE Simulated
  <2>1. issued[p] # Nobody /\ (p \in expired \/ Gone(db, p))
    BY <1>14 DEF WorkerPurge, Inv, TableInv, DeathInv
  <2>2. Life(p) # "alive"
    BY <2>1 DEF Life, Gone
  <2>3. UNCHANGED <<db, issued, expired, down>> /\ objects' = objects \ {p}
    BY <1>14 DEF WorkerPurge, clocks
  <2> QED BY <2>2, <2>3, BytesGo
<1>15. CASE WorkerCommit
  <2>1. /\ db' = tx \/ db' = db
        /\ UNCHANGED <<issued, expired, objects, down>>
    BY <1>15 DEF WorkerCommit, clocks
  <2>2. life' = life
    BY <2>1, LifeKept DEF Inv, WorkInv
  <2> QED BY <2>1, <2>2, Stutters
<1>16. ASSUME NEW p \in Photos, WorkerSweep(p) PROVE Simulated
  <2>1. Life(p) # "alive"
    BY <1>16 DEF WorkerSweep, Inv, WorkInv, SaveInv, Life
  <2>2. UNCHANGED <<db, issued, expired, down>> /\ objects' = objects \ {p}
    BY <1>16 DEF WorkerSweep, tables, clocks, actors
  <2> QED BY <2>1, <2>2, BytesGo
<1>17. CASE WorkerDropGrants
  <2>1. db'.photo = db.photo
    BY <1>0, <1>17, DropGrantsTables DEF WorkerDropGrants, Write, TypeOK
  <2>2. UNCHANGED <<issued, expired, objects, down>>
    BY <1>17 DEF WorkerDropGrants, clocks
  <2> QED BY <2>1, <2>2, LifeKept, Stutters
<1>18. CASE WorkerDropRecords
  <2>1. \A p \in Photos : db'.photo[p] =
          IF db.photo[p].status = "purged" THEN NoRow ELSE db.photo[p]
    BY <1>0, <1>18, DropRecordsTables DEF WorkerDropRecords, Write, TypeOK
  <2>2. UNCHANGED <<issued, expired, objects, down>>
    BY <1>18 DEF WorkerDropRecords, clocks
  <2>3. life' = life
    BY <2>1, <2>2, LifeKept DEF NoRow
  <2> QED BY <2>2, <2>3, Stutters
<1>19. ASSUME NEW p \in Photos, PhotoExpires(p) PROVE Simulated
  <2>1. UNCHANGED <<db, objects, down, issued>> /\ expired' = expired \cup {p}
    BY <1>19 DEF PhotoExpires, tables, actors
  <2>2. Life(p)' = "dead" /\ Life(p) \in {"alive", "dead"}
    BY <1>19, <2>1 DEF PhotoExpires, Life
  <2>3. \A q \in Photos : q # p => Life(q)' = Life(q)
    BY <2>1 DEF Life
  <2> QED BY <1>0, <2>1, <2>2, <2>3, PhotoDies
<1>20. CASE Crash
  <2>1. UNCHANGED <<db, issued, expired, objects>>
    BY <1>20 DEF Crash, Rollback, clocks
  <2>2. life' = life
    BY <2>1, LifeKept
  <2> DEFINE ws == {w \in Downloads : Reader(w).at = "reading"}
  <2>3. \A w \in Downloads :
          Reader(w)' = IF w \in ws THEN [at |-> "refused", photo |-> Nobody] ELSE Reader(w)
    <3> SUFFICES ASSUME NEW w \in Downloads
                 PROVE  Reader(w)' = IF w \in ws THEN [at |-> "refused", photo |-> Nobody]
                                     ELSE Reader(w)
      OBVIOUS
    <3>1. /\ down'[w].photo = down[w].photo
          /\ down'[w].pc = IF down[w].pc \in {"idle", "served", "refused"}
                           THEN down[w].pc ELSE "lost"
      BY <1>0, <1>20, CrashEffect
    <3> QED BY <3>1 DEF Reader
  <2>4. Vault!TurnAway(ws)
    BY <2>1, <2>2, <2>3 DEF Vault!TurnAway, Vault!Refused
  <2>5. ws \in SUBSET Downloads
    OBVIOUS
  <2> QED BY <2>4, <2>5 DEF Vault!VaultNext
<1>21. CASE UNCHANGED vars
  BY <1>21, LifeKept, Stutters DEF vars
<1>22. ASSUME NEW p \in Photos, ObjectAges(p) PROVE Simulated
  BY <1>22, LifeKept, Stutters DEF ObjectAges, tables, actors
<1>23. ASSUME NEW v \in Resolves, GrantExpires(v) PROVE Simulated
  BY <1>23, LifeKept, Stutters DEF GrantExpires, tables, actors
<1> QED
  BY <1>1, <1>2, <1>3, <1>4, <1>5, <1>6, <1>7, <1>8, <1>9, <1>10, <1>11, <1>12, <1>13,
     <1>14, <1>15, <1>16, <1>17, <1>18, <1>19, <1>20, <1>21, <1>22, <1>23
  DEF Next, SaveStep, DeleteStep, ResolveStep, DownloadStep, WorkerStep, Time

(* The service implements the vault.                                       *)
THEOREM ServiceKeepsVault == Spec => KeepsVault
<1>1. Init => Vault!VaultInit
  BY DEF Init, Vault!VaultInit, Vault!Idle, Life, Reader
<1>2. Spec => []Inv
  BY InitInv, InvStep, PTL DEF Spec
<1> QED BY <1>1, <1>2, VaultStep, PTL DEF Spec, KeepsVault, Vault!VaultSpec
=============================================================================

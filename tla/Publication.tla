---------------------------- MODULE Publication ----------------------------
(***************************************************************************)
(* The templates on disk, those who change them, and the requests that     *)
(* read them meanwhile: load_template_catalog (backend/app/                *)
(* template_store.py), the tools (template_tools.py), the routes and their *)
(* cache (routers/templates.py), a page that fetches the catalogue         *)
(* (frontend/src/lib/templates/catalog.ts), and a save, which loads it     *)
(* afresh (save_service.py, _do_save).                                     *)
(*                                                                         *)
(* A revision file holds a content or is Broken: nothing that json.load    *)
(* takes.  A content tells whether it satisfies its schema and its         *)
(* references, and which statuses it admits.  A contentHash is the content *)
(* it is the hash of.  publications.json is Broken, or gives a revision    *)
(* its last record.  A file's modification time is a tick of the file      *)
(* system's clock: one write may share its tick with the truncation before *)
(* it, two commands never share one.  The browser's age of a response      *)
(* counts the same ticks, from when its request was sent.                  *)
(***************************************************************************)
EXTENDS Integers, Sequences, FiniteSets, FiniteSetsExt

CONSTANTS
  Ids,           (* revisions, 1..N in the order of their file names       *)
  Contents,      (* [text, valid, file, resolved]                          *)
  Skeleton,      (* what template_tools new writes                         *)
  Clients,
  CacheSize,     (* lru_cache(maxsize=4)                                   *)
  MaxAge,        (* max-age of the responses, in ticks                     *)
  MaxTime,       (* bound: ticks                                           *)
  Broken, None

(* A record of publications.json, as its schema has it.                    *)
Statuses == {"active", "reference_only", "deprecated", "unsupported"}
Record == [status : Statuses, hash : Contents \cup {None}, revision : Nat \ {0}]

ASSUME PublicationAssumption ==
  /\ Ids \subseteq Nat /\ Skeleton \in Contents
  /\ Broken # None /\ {Broken, None} \cap Contents = {} /\ None \notin Record
  /\ {CacheSize, MaxAge, MaxTime} \subseteq Nat \ {0}

VARIABLES
  files,         (* [Ids -> Contents \cup {Broken, None}]                  *)
  stamp,         (* st_mtime_ns of each revision file                      *)
  pubs, pstamp,  (* publications.json and its st_mtime_ns                  *)
  tool,          (* the command that runs: [op, step, id, pubs]            *)
  clock,
  versions,      (* history: every complete publications.json, in order    *)
  cache,         (* the lru_cache: [key, catalogue], newest first          *)
  req,           (* each client's request                                  *)
  held           (* what each client's HTTP cache holds: a catalogue, and  *)
                 (* of the request that brought or last revalidated it     *)
                 (* since (history) and at                                 *)

disk == <<files, stamp, pubs, pstamp, tool, clock, versions>>
vars == <<disk, cache, req, held>>

-----------------------------------------------------------------------------
(* Loading.                                                                *)

(* _validate_publication_rules.                                            *)
Admits(content, status) ==
  /\ status = "active" => content.file
  /\ status \in {"active", "reference_only"} => content.resolved

Acceptable(content, records, id) ==
  /\ content \notin {Broken, None} /\ content.valid
  /\ records[id] # None
  /\ Admits(content, records[id].status)
  /\ records[id].hash \in {None, content}

Present == {id \in Ids : files[id] # None}

(* Mutant: the contents are not part of the catalogue's version.           *)
ETagOfRecords(catalogue) == [id \in DOMAIN catalogue |-> catalogue[id].publication.revision]

(* catalog_etag: a status counts by its publicationRevision only.          *)
ETag(catalogue) ==
  [id \in DOMAIN catalogue |-> <<catalogue[id].content, catalogue[id].publication.revision>>]

(* Mutant: only the revisions are looked at.                               *)
KeyOfRevisions(revisions, publications) == <<0, revisions>>

(* _content_key.                                                           *)
Key(revisions, publications) == <<publications, revisions>>

-----------------------------------------------------------------------------
(* Requests.  "since" and "calm" are history: the version of the           *)
(* publications when the server was asked, and whether the disk held a     *)
(* valid catalogue at the start and did not change afterwards.  "at" is    *)
(* the tick of the start, and "age" that of the copy if one was fresh.     *)

Idle == [step |-> "idle"]

Loadable == pubs # Broken /\ Present # {}
            /\ \A id \in Present : Acceptable(files[id], pubs, id)

Request(kind, id, step) ==
  [step |-> step, kind |-> kind, id |-> id, since |-> Len(versions), calm |-> Loadable,
   at |-> clock, age |-> 0, rev |-> 0, key |-> None, pubs |-> Broken, left |-> {}, seen |-> << >>]

(* The default mode of fetch with "max-age=300, must-revalidate": a copy   *)
(* that is fresh is the answer, and no request is sent.                    *)
Fresh(c) == held[c] # None /\ clock - held[c].at < MaxAge

FromCopy(c) ==
  [Request("list", None, "answered") EXCEPT !.since = held[c].since, !.at = 0,
                                            !.age = clock - held[c].at, !.seen = held[c].catalogue]

(* Mutant: a rejected promise stays in the page's cache.                   *)
FetchKeepingFailure(c) ==
  /\ req[c].step \in {"idle", "failed"}
  /\ req' = [req EXCEPT ![c] = IF req[c].step = "failed" THEN Request("list", None, "failed")
                               ELSE IF Fresh(c) THEN FromCopy(c) ELSE Request("list", None, "stat")]
  /\ UNCHANGED <<disk, cache, held>>

(* fetchTemplateCatalog: a page asks once, and again only after a failure. *)
Fetch(c) ==
  /\ req[c].step \in {"idle", "failed"}
  /\ req' = [req EXCEPT ![c] = IF Fresh(c) THEN FromCopy(c) ELSE Request("list", None, "stat")]
  /\ UNCHANGED <<disk, cache, held>>

(* The page is left or reloaded.                                           *)
Leave(c) ==
  /\ req[c].step \in {"answered", "saved", "refused"}
  /\ req' = [req EXCEPT ![c] = Idle]
  /\ UNCHANGED <<disk, cache, held>>

(* A save under a template; no cache.                                      *)
Save(c, id) ==
  /\ req[c].step = "idle"
  /\ req' = [req EXCEPT ![c] = Request("save", id, "load")]
  /\ UNCHANGED <<disk, cache, held>>

StatRevisions(c) ==
  /\ req[c].step = "stat"
  /\ req' = [req EXCEPT ![c].step = "stat2", ![c].rev = Max({stamp[id] : id \in Present} \cup {0})]
  /\ UNCHANGED <<disk, cache, held>>

(* The answer; what was read on the way is forgotten.                      *)
End(c, step, shown) ==
  req' = [req EXCEPT ![c] = [@ EXCEPT !.step = step, !.at = 0, !.rev = 0, !.key = None, !.pubs = Broken,
                                      !.left = {}, !.seen = shown]]

Fail(c) == End(c, "failed", << >>) /\ UNCHANGED held

(* list_templates: 304 where the client's copy has the same version.  What *)
(* the client shows and keeps is its copy then, fresh once more.           *)
Answer(c, catalogue) ==
  LET unchanged == held[c] # None /\ ETag(held[c].catalogue) = ETag(catalogue)
      shown == IF unchanged THEN held[c].catalogue ELSE catalogue
  IN  /\ End(c, "answered", shown)
      /\ held' = [held EXCEPT ![c] = [catalogue |-> shown, since |-> req[c].since, at |-> req[c].at]]

Front(entry, older) == SubSeq(<<entry>> \o older, 1, Min({CacheSize, Len(older) + 1}))
Without(i) == SubSeq(cache, 1, i - 1) \o SubSeq(cache, i + 1, Len(cache))

(* _catalog_for finds the key, or starts to load.                          *)
LookUp(c) ==
  LET key == Key(req[c].rev, pstamp)
      hits == {i \in DOMAIN cache : cache[i].key = key}
  IN  /\ req[c].step = "stat2"
      /\ \/ \E i \in hits : /\ cache' = Front(cache[i], Without(i))
                            /\ Answer(c, cache[i].catalogue)
         \/ /\ hits = {}
            /\ req' = [req EXCEPT ![c].step = "load", ![c].key = key]
            /\ UNCHANGED <<cache, held>>
      /\ UNCHANGED disk

(* publications.json is read before the directory is listed.               *)
LoadPublications(c) ==
  /\ req[c].step = "load"
  /\ IF pubs = Broken THEN Fail(c)
     ELSE req' = [req EXCEPT ![c].step = "list", ![c].pubs = pubs] /\ UNCHANGED held
  /\ UNCHANGED <<disk, cache>>

List(c) ==
  /\ req[c].step = "list"
  /\ IF Present = {} THEN Fail(c)
     ELSE req' = [req EXCEPT ![c].step = "read", ![c].left = Present] /\ UNCHANGED held
  /\ UNCHANGED <<disk, cache>>

(* The files in the order of their names; one that fails any check fails   *)
(* the whole catalogue.                                                    *)
Read(c) ==
  LET id == Min(req[c].left)
  IN  /\ req[c].step = "read" /\ req[c].left # {}
      /\ IF Acceptable(files[id], req[c].pubs, id)
         THEN /\ req' = [req EXCEPT ![c].left = @ \ {id},
                           ![c].seen = [i \in DOMAIN @ \cup {id} |->
                                          IF i \in DOMAIN @ THEN @[i]
                                          ELSE [content |-> files[id],
                                                publication |-> req[c].pubs[id]]]]
              /\ UNCHANGED held
         ELSE Fail(c)
      /\ UNCHANGED <<disk, cache>>

(* Only what loaded is kept, and not over what another thread kept under   *)
(* the same key meanwhile.                                                 *)
Loaded(c) ==
  LET entry == [key |-> req[c].key, catalogue |-> req[c].seen]
  IN  /\ req[c].step = "read" /\ req[c].left = {} /\ req[c].kind = "list"
      /\ cache' = IF \E i \in DOMAIN cache : cache[i].key = entry.key THEN cache ELSE Front(entry, cache)
      /\ Answer(c, req[c].seen)
      /\ UNCHANGED disk

(* _do_save: the pinned version must exist, and be active.                 *)
Judge(c) ==
  LET id == req[c].id
      seen == req[c].seen
  IN  /\ req[c].step = "read" /\ req[c].left = {} /\ req[c].kind = "save"
      /\ IF id \in DOMAIN seen /\ seen[id].publication.status = "active"
         THEN End(c, "saved", seen) ELSE End(c, "refused", << >>)
      /\ UNCHANGED <<disk, cache, held>>

-----------------------------------------------------------------------------
(* Those who change the templates, one command or edit at a time.          *)

Quiet == tool.op = "none"

(* Requests under way have seen the disk change.                           *)
Changed == /\ req' = [c \in Clients |-> IF req[c].step = "idle" THEN Idle
                                        ELSE [req[c] EXCEPT !.calm = FALSE]]
           /\ UNCHANGED <<cache, held>>

WriteFile(id, content) ==
  /\ files' = [files EXCEPT ![id] = content] /\ stamp' = [stamp EXCEPT ![id] = clock']
  /\ UNCHANGED <<pubs, pstamp, versions>>

WritePublications(records) ==
  /\ pubs' = records /\ pstamp' = clock'
  /\ versions' = IF records = Broken THEN versions ELSE Append(versions, records)
  /\ UNCHANGED <<files, stamp>>

Tick == clock < MaxTime /\ clock' = clock + 1
SameTickOrNext == clock' = clock \/ Tick

(* A maintainer edits a revision in place, well or badly.                  *)
Edit(id) ==
  /\ Quiet /\ files[id] # None /\ Tick
  /\ \E content \in (Contents \cup {Broken}) \ {files[id]} : WriteFile(id, content)
  /\ Changed /\ UNCHANGED tool

(* A maintainer publishes, withdraws or takes down; each time with the     *)
(* next publicationRevision.                                               *)
Publish(id) ==
  /\ Quiet /\ pubs # Broken /\ Tick
  /\ pubs[id] # None
  /\ \E status \in Statuses \ {pubs[id].status} :
       WritePublications([pubs EXCEPT ![id].status = status, ![id].revision = @ + 1])
  /\ Changed /\ UNCHANGED tool

(* publications.json is put back after a command that was interrupted.     *)
Restore ==
  /\ Quiet /\ pubs = Broken /\ Tick
  /\ WritePublications(versions[Len(versions)])
  /\ Changed /\ UNCHANGED tool

Command(op, step, id, records) == [op |-> op, step |-> step, id |-> id, pubs |-> records]
NoCommand == Command("none", "none", None, Broken)

(* template_tools new: the revision is written first, then its record.     *)
(* _write truncates the file before it writes.                             *)
New(id) ==
  /\ Quiet /\ files[id] = None /\ Tick
  /\ tool' = Command("new", "file", id, Broken)
  /\ WriteFile(id, Broken) /\ Changed

NewFile ==
  /\ tool.op = "new" /\ tool.step = "file" /\ SameTickOrNext
  /\ tool' = [tool EXCEPT !.step = "read"]
  /\ WriteFile(tool.id, Skeleton) /\ Changed

(* What the file declares for the new revision is superseded.              *)
NewRead ==
  /\ tool.op = "new" /\ tool.step = "read"
  /\ IF pubs = Broken
     THEN /\ tool' = NoCommand
          /\ UNCHANGED <<files, stamp, pubs, pstamp, clock, versions, cache, req, held>>
     ELSE /\ Tick
          /\ tool' = [tool EXCEPT !.step = "write", !.pubs =
                        [pubs EXCEPT ![tool.id] = [status |-> "reference_only", hash |-> None,
                                                   revision |-> 1]]]
          /\ WritePublications(Broken) /\ Changed

(* template_tools rehash; it writes even if nothing changed.               *)
Rehash ==
  /\ Quiet /\ pubs # Broken /\ Tick
  /\ \A id \in Ids : files[id] # Broken /\ (pubs[id] # None => files[id] # None)
  /\ tool' = Command("rehash", "write", None,
                [id \in Ids |-> IF pubs[id] = None THEN None
                               ELSE [pubs[id] EXCEPT !.hash = files[id]]])
  /\ WritePublications(Broken) /\ Changed

WriteBack ==
  /\ tool.step = "write" /\ SameTickOrNext
  /\ WritePublications(tool.pubs) /\ tool' = NoCommand /\ Changed

(* A command is killed.                                                    *)
Interrupt ==
  /\ ~Quiet /\ tool' = NoCommand
  /\ UNCHANGED <<files, stamp, pubs, pstamp, clock, versions, cache, req, held>>

(* Time passes, and nobody writes.                                         *)
Wait ==
  /\ Tick
  /\ UNCHANGED <<files, stamp, pubs, pstamp, tool, versions, cache, req, held>>

Maintain ==
  \/ \E id \in Ids : Edit(id) \/ Publish(id) \/ New(id)
  \/ NewFile \/ NewRead \/ Rehash \/ WriteBack \/ Restore \/ Interrupt \/ Wait

Serve(c) ==
  \/ Fetch(c) \/ Leave(c) \/ StatRevisions(c) \/ LookUp(c)
  \/ LoadPublications(c) \/ List(c) \/ Read(c) \/ Loaded(c) \/ Judge(c)
  \/ \E id \in Ids : Save(c, id)

(* The server starts on a catalogue that loads.                            *)
Init ==
  /\ files \in [Ids -> Contents \cup {None}]
  /\ stamp = [id \in Ids |-> 1] /\ pstamp = 1 /\ clock = 1
  /\ pubs \in [Ids -> {None} \cup [status : {"active", "reference_only"},
                                  hash : Contents \cup {None}, revision : {1}]]
  /\ Loadable /\ \A id \in Ids : files[id] = None <=> pubs[id] = None
  /\ tool = NoCommand /\ versions = <<pubs>> /\ cache = << >>
  /\ req = [c \in Clients |-> Idle] /\ held = [c \in Clients |-> None]

Next == Maintain \/ \E c \in Clients : Serve(c)

Spec == Init /\ [][Next]_vars

-----------------------------------------------------------------------------
(* Safety.                                                                 *)

(* What a page shows or a save goes by, out of the server's cache, the     *)
(* browser's or the disk, is the state of publication at some moment since *)
(* a request was sent to the server, and that is this one unless the       *)
(* browser's copy is fresh: then it is the one that brought or revalidated *)
(* the copy, less than max-age ago.  A takedown is seen by every request   *)
(* that reaches the server after it ("an emergency takedown would wait for *)
(* a process restart" without the key), and by every page max-age later:   *)
(* must-revalidate does not make it earlier, as the comment says it does.  *)
TakedownsAreSeen ==
  \A c \in Clients : req[c].step \in {"answered", "saved"} =>
    /\ req[c].age < MaxAge /\ (req[c].step = "saved" => req[c].age = 0)
    /\ \E v \in req[c].since .. Len(versions) : \A id \in DOMAIN req[c].seen :
         /\ versions[v][id] # None
         /\ req[c].seen[id].publication.status = versions[v][id].status

(* A content is shown, and a photo saved under it, as it was reviewed: all *)
(* that is shown is declared by one version of the publications since the  *)
(* server was asked, by its hash and with a status that the content        *)
(* admits; although files are edited in place, written in pieces, and read *)
(* one after the other while they change.                                  *)
ServedAsReviewed ==
  \A c \in Clients : req[c].step \in {"answered", "saved"} =>
    /\ \E v \in req[c].since .. Len(versions) : \A id \in DOMAIN req[c].seen :
         LET content == req[c].seen[id].content
         IN  /\ versions[v][id] # None /\ content.valid
             /\ versions[v][id].hash \in {None, content}
             /\ Admits(content, versions[v][id].status)
    /\ req[c].step = "saved" => req[c].seen[req[c].id].content.file

(* A request fails only for what is on disk: not because an earlier one    *)
(* failed, and not once the command that was writing has finished.         *)
FailuresPass == \A c \in Clients : req[c].step = "failed" => ~req[c].calm
=============================================================================

-------------------------- MODULE PublicationProofs --------------------------
(***************************************************************************)
(* Proofs about Publication, for any revisions, contents, clients, size of *)
(* the cache and number of ticks.                                          *)
(***************************************************************************)
EXTENDS Publication, SequenceTheorems, WellFoundedInduction, TLAPS

Records == [Ids -> Record \cup {None}]

Latest == versions[Len(versions)]

(* What may be published after the latest version: a revision's record     *)
(* stays, and its status changes with a higher publicationRevision only.   *)
Follows(records) ==
  /\ records \in Records
  /\ \A id \in Ids : Latest[id] # None =>
       /\ records[id] # None
       /\ \/ records[id].revision > Latest[id].revision
          \/ /\ records[id].revision = Latest[id].revision
             /\ records[id].status = Latest[id].status
  /\ \A id \in Ids : files[id] = None => records[id] = None

(* publications.json is complete and the latest version, or cut short; the *)
(* one that is written anew holds nothing yet.                             *)
DiskInv ==
  /\ files \in [Ids -> Contents \cup {Broken, None}]
  /\ clock \in Nat /\ pstamp \in Nat /\ pstamp <= clock
  /\ versions \in Seq(Records) /\ Len(versions) # 0
  /\ pubs # Broken => pubs = Latest
  /\ \A id \in Ids : files[id] = None => Latest[id] = None

ToolType == [op : {"none", "new", "rehash"}, step : {"none", "file", "read", "write"},
             id : Ids \cup {None}, pubs : Records \cup {Broken}]
ToolInv ==
  /\ tool \in ToolType /\ (Quiet => tool = NoCommand)
  /\ tool.step = "write" => pubs = Broken /\ Follows(tool.pubs)
  /\ tool.op = "new" /\ tool.step \in {"file", "read"} =>
       tool.id \in Ids /\ Latest[tool.id] = None /\ files[tool.id] # None

(* A publicationRevision stands for one status, and only grows.            *)
HistoryInv ==
  \A id \in Ids : \A v \in 1 .. Len(versions) : versions[v][id] # None =>
    /\ Latest[id] # None /\ versions[v][id].revision <= Latest[id].revision
    /\ \A w \in 1 .. Len(versions) :
         versions[w][id] # None /\ versions[v][id].revision = versions[w][id].revision
           => versions[v][id].status = versions[w][id].status

(* A catalogue that was loaded with these publications.                    *)
LoadedWith(catalogue, records) ==
  \A id \in DOMAIN catalogue :
    /\ id \in Ids /\ Acceptable(catalogue[id].content, records, id)
    /\ catalogue[id].publication = records[id]

(* One that shows what these publications say.                             *)
Shows(catalogue, records) ==
  \A id \in DOMAIN catalogue :
    /\ records[id] # None /\ catalogue[id].publication.status = records[id].status
    /\ catalogue[id].content.valid
    /\ records[id].hash \in {None, catalogue[id].content}
    /\ Admits(catalogue[id].content, records[id].status)

(* One whose records were published, at whatever time each.                *)
OncePublished(catalogue) ==
  \A id \in DOMAIN catalogue : \E v \in 1 .. Len(versions) :
    /\ id \in Ids /\ versions[v][id] # None
    /\ catalogue[id].publication.revision = versions[v][id].revision
    /\ catalogue[id].publication.status = versions[v][id].status

(* What was loaded under a key with the present time of publications.json  *)
(* was loaded with the present publications: they were complete then.      *)
LoadedUnder(key, records, present, time) ==
  /\ key[1] \in Nat /\ key[1] <= time
  /\ key[1] = time => present # Broken /\ records = present

CacheInv ==
  \A i \in DOMAIN cache : \E v \in 1 .. Len(versions) :
    /\ LoadedWith(cache[i].catalogue, versions[v])
    /\ LoadedUnder(cache[i].key, versions[v], pubs, pstamp)

(* A copy that shows a version since the server was asked for it.          *)
GoodCopy(copy) ==
  /\ OncePublished(copy.catalogue)
  /\ copy.since \in 1 .. Len(versions)
  /\ \E v \in copy.since .. Len(versions) : Shows(copy.catalogue, versions[v])

HeldInv == \A c \in Clients : held[c] # None => GoodCopy(held[c])

Loading(c) == req[c].step \in {"list", "read"}

RequestInv(c) ==
  req[c].step # "idle" =>
    /\ req[c].since \in 1 .. Len(versions)
    /\ req[c].age < MaxAge /\ (req[c].step # "answered" => req[c].age = 0)
    /\ req[c].kind = "list" /\ req[c].step = "load" =>
         req[c].key[1] \in Nat /\ req[c].key[1] <= pstamp
    /\ Loading(c) => \E v \in req[c].since .. Len(versions) :
         /\ req[c].pubs = versions[v] /\ LoadedWith(req[c].seen, versions[v])
         /\ req[c].kind = "list" => LoadedUnder(req[c].key, versions[v], pubs, pstamp)
    /\ req[c].step \in {"stat", "stat2", "load", "list"} => DOMAIN req[c].seen = {}
    /\ req[c].step = "read" => req[c].left \subseteq Ids
    /\ req[c].step \in {"answered", "saved"} =>
         \E v \in req[c].since .. Len(versions) : Shows(req[c].seen, versions[v])
    /\ req[c].step = "saved" => req[c].seen[req[c].id].content.file

(* Nothing has changed since a request that is calm.                       *)
CalmInv(c) ==
  req[c].step # "idle" /\ req[c].calm =>
    /\ Loadable /\ req[c].step # "failed"
    /\ Loading(c) => req[c].pubs = pubs
    /\ req[c].step = "read" => req[c].left \subseteq Present

(* A client has no request, or one with all that belongs to it.            *)
IsRequest(r) ==
  /\ r = [step |-> r.step, kind |-> r.kind, id |-> r.id, since |-> r.since, calm |-> r.calm,
          at |-> r.at, age |-> r.age, rev |-> r.rev, key |-> r.key, pubs |-> r.pubs, left |-> r.left, seen |-> r.seen]
  /\ r.step # "idle" /\ r.kind \in {"list", "save"}
ShapeInv ==
  /\ req = [c \in Clients |-> req[c]] /\ held = [c \in Clients |-> held[c]]
  /\ \A c \in Clients : req[c] = Idle \/ IsRequest(req[c])
  /\ \E S : cache \in Seq(S)

ClientInv == \A c \in Clients : RequestInv(c) /\ CalmInv(c)

Inv == DiskInv /\ ToolInv /\ HistoryInv /\ ShapeInv /\ CacheInv /\ HeldInv /\ ClientInv

-----------------------------------------------------------------------------
(* The disk.                                                               *)

(* Versions are added only, and a time of publications.json that stays is  *)
(* that of what it held, if it was complete.                               *)
Onward ==
  /\ Len(versions') \in Nat /\ Len(versions) <= Len(versions')
  /\ \A v \in 1 .. Len(versions) : versions'[v] = versions[v]
  /\ pstamp' \in Nat /\ pstamp <= pstamp'
  /\ pstamp' = pstamp /\ pubs # Broken => pubs' = pubs

(* There is a latest version, and it may be published again.               *)
LEMMA LatestIsRecords ==
  ASSUME DiskInv
  PROVE  /\ Len(versions) \in Nat /\ Len(versions) \in 1 .. Len(versions)
         /\ Latest \in Records /\ Follows(Latest)
         /\ \A v \in 1 .. Len(versions) : versions[v] \in Records
<1>1. Len(versions) \in Nat /\ Len(versions) \in 1 .. Len(versions)
  BY DEF DiskInv
<1>2. \A v \in 1 .. Len(versions) : versions[v] \in Records
  BY DEF DiskInv
<1>3. Latest \in Records
  BY <1>1, <1>2 DEF Latest
<1> QED BY <1>1, <1>2, <1>3 DEF Follows, DiskInv

(* publications.json is written: cut short, or to the end.                 *)
LEMMA Written ==
  ASSUME DiskInv, HistoryInv, NEW records, WritePublications(records),
         records = Broken \/ Follows(records),
         clock' \in Nat, clock <= clock', clock' = clock => pubs = Broken
  PROVE  /\ DiskInv' /\ HistoryInv' /\ Onward
         /\ records = Broken => Latest' = Latest
<1> DEFINE n == Len(versions)
<1>1. /\ n \in Nat /\ n \in 1 .. n /\ Latest \in Records
      /\ \A v \in 1 .. n : versions[v] \in Records
  BY LatestIsRecords
<1>2. pubs' = records /\ pstamp' = clock' /\ files' = files
  BY DEF WritePublications
<1>3. pstamp' \in Nat /\ pstamp <= pstamp' /\ (pstamp' = pstamp => pubs = Broken)
  BY <1>2 DEF DiskInv
<1>4. CASE records = Broken
  <2>1. versions' = versions /\ Latest' = Latest
    BY <1>4 DEF WritePublications, Latest
  <2>2. DiskInv'
    BY <1>2, <1>4, <2>1 DEF DiskInv
  <2>3. HistoryInv'
    BY <2>1 DEF HistoryInv
  <2>4. Onward
    BY <1>1, <1>3, <2>1 DEF Onward
  <2> QED BY <2>1, <2>2, <2>3, <2>4
<1>5. CASE records # Broken
  <2>1. Follows(records) /\ records \in Records /\ versions' = Append(versions, records)
    BY <1>5 DEF WritePublications, Follows
  <2>2. versions \in Seq(Records)
    BY DEF DiskInv
  <2>3. /\ versions' \in Seq(Records) /\ Len(versions') = n + 1
        /\ \A v \in 1 .. n : versions'[v] = versions[v]
        /\ versions'[n + 1] = records
    BY <2>1, <2>2
  <2>4. Latest' = records
    BY <2>3 DEF Latest
  <2>5. Onward
    BY <1>1, <1>3, <2>3 DEF Onward
  <2>6. DiskInv'
    BY <1>1, <1>2, <1>3, <2>1, <2>3, <2>4 DEF DiskInv, Follows
  <2>7. HistoryInv'
    <3> SUFFICES ASSUME NEW id \in Ids, NEW v \in 1 .. n + 1, versions'[v][id] # None
                 PROVE  /\ records[id] # None /\ versions'[v][id].revision <= records[id].revision
                        /\ \A w \in 1 .. n + 1 :
                             versions'[w][id] # None
                             /\ versions'[v][id].revision = versions'[w][id].revision
                               => versions'[v][id].status = versions'[w][id].status
      BY <2>3, <2>4 DEF HistoryInv
    <3>1. /\ records[id] # None => records[id].revision \in Nat
          /\ Latest[id] # None => Latest[id].revision \in Nat
      BY <1>1, <2>1 DEF Records, Record
    <3>2. ASSUME NEW u \in 1 .. n, versions[u][id] # None
          PROVE  /\ Latest[id] # None /\ versions[u][id].revision \in Nat
                 /\ versions[u][id].revision <= Latest[id].revision
                 /\ versions[u][id].revision = Latest[id].revision
                      => versions[u][id].status = Latest[id].status
      <4>1. versions[u][id] \in Record
        BY <1>1, <3>2 DEF Records
      <4>2. Latest[id] # None /\ versions[u][id].revision <= Latest[id].revision
        BY <3>2 DEF HistoryInv
      <4>3. versions[u][id].revision = Latest[id].revision
              => versions[u][id].status = Latest[id].status
        BY <1>1, <3>2, <4>2 DEF HistoryInv, Latest
      <4> QED BY <4>1, <4>2, <4>3 DEF Record
    <3>3. ASSUME NEW u \in 1 .. n, versions[u][id] # None
          PROVE  /\ records[id] # None /\ versions[u][id].revision <= records[id].revision
                 /\ versions[u][id].revision = records[id].revision
                      => versions[u][id].status = records[id].status
      <4>1. /\ records[id] # None
            /\ \/ records[id].revision > Latest[id].revision
               \/ /\ records[id].revision = Latest[id].revision
                  /\ records[id].status = Latest[id].status
        BY <2>1, <3>2, <3>3 DEF Follows
      <4> QED BY <3>1, <3>2, <3>3, <4>1
    <3>4. v \in 1 .. n \/ v = n + 1
      BY <1>1
    <3>5. records[id] # None /\ versions'[v][id].revision <= records[id].revision
      BY <2>3, <3>1, <3>3, <3>4
    <3>6. ASSUME NEW w \in 1 .. n + 1, versions'[w][id] # None,
                 versions'[v][id].revision = versions'[w][id].revision
          PROVE  versions'[v][id].status = versions'[w][id].status
      <4>1. w \in 1 .. n \/ w = n + 1
        BY <1>1
      <4>2. CASE v \in 1 .. n /\ w \in 1 .. n
        BY <2>3, <3>6, <4>2 DEF HistoryInv
      <4>3. CASE v \in 1 .. n /\ w = n + 1
        BY <2>3, <3>3, <3>6, <4>3
      <4>4. CASE v = n + 1 /\ w \in 1 .. n
        BY <2>3, <3>3, <3>6, <4>4
      <4> QED BY <3>4, <4>1, <4>2, <4>3, <4>4
    <3> QED BY <3>5, <3>6
  <2> QED BY <1>5, <2>5, <2>6, <2>7
<1> QED BY <1>4, <1>5

(* A revision's file is written.                                           *)
LEMMA FileWritten ==
  ASSUME DiskInv, HistoryInv, NEW id \in Ids, NEW content \in Contents \cup {Broken},
         WriteFile(id, content), clock' \in Nat, clock <= clock'
  PROVE  /\ DiskInv' /\ HistoryInv' /\ Onward /\ Latest' = Latest /\ files'[id] # None
         /\ \A x \in Ids : files'[x] = None => files[x] = None
<1>1. UNCHANGED <<pubs, pstamp, versions>> /\ files' = [files EXCEPT ![id] = content]
  BY DEF WriteFile
<1>2. content # None
  BY PublicationAssumption
<1>3. Latest' = Latest /\ files'[id] # None /\ \A x \in Ids : files'[x] = None => files[x] = None
  BY <1>1, <1>2 DEF DiskInv, Latest
<1>4. files' \in [Ids -> Contents \cup {Broken, None}]
  BY <1>1 DEF DiskInv
<1>5. DiskInv'
  BY <1>1, <1>3, <1>4 DEF DiskInv
<1>6. HistoryInv'
  BY <1>1, <1>3 DEF HistoryInv
<1>7. Onward
  BY <1>1, LatestIsRecords DEF Onward, DiskInv
<1> QED BY <1>3, <1>5, <1>6, <1>7

(* Time passes.                                                            *)
LEMMA Ticks ==
  ASSUME DiskInv
  PROVE  /\ Tick => clock' \in Nat /\ clock <= clock' /\ clock' # clock
         /\ SameTickOrNext => clock' \in Nat /\ clock <= clock'
BY DEF DiskInv, Tick, SameTickOrNext

DiskGood == DiskInv /\ ToolInv /\ HistoryInv

(* Every command and edit keeps the disk good, and tells those who read.   *)
LEMMA MaintainStep ==
  ASSUME DiskGood, Maintain
  PROVE  /\ DiskGood' /\ Onward
         /\ Changed \/ UNCHANGED <<files, stamp, pubs, pstamp, versions, cache, req, held>>
<1> USE DEF DiskGood
<1>1. /\ DiskInv /\ HistoryInv /\ tool \in ToolType /\ Latest \in Records /\ Follows(Latest)
  BY LatestIsRecords DEF ToolInv, ToolType
<1>2. \A r \in Record : r # None
  BY PublicationAssumption
(* A command that is over leaves nothing to be proved of it.               *)
<1>3. ASSUME tool' = NoCommand \/ (Quiet /\ tool' = tool) PROVE ToolInv'
  <2>1. tool' = NoCommand /\ Broken \in Records \cup {Broken}
    BY <1>3 DEF ToolInv
  <2> QED BY <2>1 DEF ToolInv, ToolType, NoCommand, Command, Quiet
<1>4. ASSUME NEW id \in Ids, Edit(id)
      PROVE  DiskGood' /\ Onward /\ Changed
  <2>1. PICK content \in Contents \cup {Broken} : WriteFile(id, content)
    BY <1>4 DEF Edit
  <2>2. tool' = tool /\ Tick /\ Changed /\ Quiet
    BY <1>4 DEF Edit
  <2>3. /\ DiskInv' /\ HistoryInv' /\ Onward /\ Latest' = Latest
        /\ \A x \in Ids : files'[x] = None => files[x] = None
    BY <2>1, <2>2, FileWritten, Ticks
  <2> QED BY <1>3, <2>2, <2>3
<1>5. ASSUME NEW id \in Ids, Publish(id)
      PROVE  DiskGood' /\ Onward /\ Changed
  <2>1. PICK status \in Statuses : WritePublications(
          [pubs EXCEPT ![id].status = status, ![id].revision = @ + 1])
    BY <1>5 DEF Publish
  <2>2. tool' = tool /\ Tick /\ Changed /\ Quiet /\ pubs # Broken /\ pubs[id] # None
    BY <1>5 DEF Publish
  <2>3. pubs = Latest
    BY <2>2 DEF DiskInv
  <2>4. PICK records : records = [pubs EXCEPT ![id].status = status, ![id].revision = @ + 1]
    OBVIOUS
  <2>5. pubs[id] \in Record /\ pubs \in Records
    BY <1>1, <2>2, <2>3 DEF Records
  <2>6. /\ records \in Records /\ records[id] \in Record
        /\ records[id].revision = pubs[id].revision + 1
        /\ \A x \in Ids : x # id => records[x] = pubs[x]
    BY <2>4, <2>5 DEF Records, Record
  <2>7. records[id].revision > pubs[id].revision /\ files[id] # None
    BY <2>2, <2>3, <2>5, <2>6 DEF Record, DiskInv
  <2>8. Follows(records)
    BY <2>3, <2>6, <2>7, <1>2 DEF Follows, DiskInv
  <2>9. DiskInv' /\ HistoryInv' /\ Onward
    BY <2>1, <2>2, <2>4, <2>8, Written, Ticks
  <2> QED BY <1>3, <2>2, <2>9
<1>6. CASE Restore
  <2>1. /\ tool' = tool /\ Tick /\ Changed /\ Quiet /\ WritePublications(Latest)
    BY <1>6 DEF Restore, Latest
  <2>2. DiskInv' /\ HistoryInv' /\ Onward
    BY <1>1, <2>1, Written, Ticks
  <2> QED BY <1>3, <2>1, <2>2
(* Only the command ends.                                                  *)
<1>10. ASSUME UNCHANGED <<files, stamp, pubs, pstamp, versions, cache, req, held>>,
              clock' = clock \/ Tick
       PROVE  DiskInv' /\ HistoryInv' /\ Onward
  <2>1. Latest' = Latest
    BY <1>10 DEF Latest
  <2>2. Onward
    BY <1>1, <1>10, LatestIsRecords DEF Onward, DiskInv
  <2>3. clock' \in Nat /\ clock <= clock'
    BY <1>1, <1>10, Ticks DEF DiskInv
  <2> QED BY <1>1, <1>10, <2>1, <2>2, <2>3 DEF DiskInv, HistoryInv
(* template_tools new.                                                     *)
<1>7. ASSUME NEW id \in Ids, New(id)
      PROVE  DiskGood' /\ Onward /\ Changed
  <2>1. /\ tool' = Command("new", "file", id, Broken) /\ files[id] = None
        /\ Tick /\ Changed /\ WriteFile(id, Broken)
    BY <1>7 DEF New
  <2>2. DiskInv' /\ HistoryInv' /\ Onward /\ Latest' = Latest /\ files'[id] # None
    BY <2>1, FileWritten, Ticks
  <2>3. Latest[id] = None
    BY <2>1 DEF DiskInv
  <2>4. ToolInv'
    BY <2>1, <2>2, <2>3 DEF ToolInv, ToolType, Command, Quiet
  <2> QED BY <2>1, <2>2, <2>4
<1>8. CASE NewFile
  <2>1. /\ tool.op = "new" /\ tool.step = "file" /\ tool' = [tool EXCEPT !.step = "read"]
        /\ SameTickOrNext /\ Changed /\ WriteFile(tool.id, Skeleton)
    BY <1>8 DEF NewFile
  <2>2. tool.id \in Ids /\ Latest[tool.id] = None
    BY <2>1 DEF ToolInv
  <2>3. DiskInv' /\ HistoryInv' /\ Onward /\ Latest' = Latest /\ files'[tool.id] # None
    BY <2>1, <2>2, FileWritten, Ticks, PublicationAssumption
  <2>4. tool' \in ToolType /\ tool'.op = "new" /\ tool'.step = "read" /\ tool'.id = tool.id
    BY <1>1, <2>1 DEF ToolType
  <2>5. ToolInv'
    BY <2>2, <2>3, <2>4 DEF ToolInv, Quiet
  <2> QED BY <2>1, <2>3, <2>5
<1>9. CASE NewRead
  <2>1. tool.op = "new" /\ tool.step = "read"
    BY <1>9 DEF NewRead
  <2>2. tool.id \in Ids /\ Latest[tool.id] = None /\ files[tool.id] # None
    BY <2>1 DEF ToolInv
  <2>3. CASE pubs = Broken
    <3>1. /\ tool' = NoCommand
          /\ UNCHANGED <<files, stamp, pubs, pstamp, clock, versions, cache, req, held>>
      BY <1>9, <2>3 DEF NewRead
    <3> QED BY <1>3, <1>10, <3>1
  <2>4. CASE pubs # Broken
    <3>1. PICK records : records =
            [pubs EXCEPT ![tool.id] = [status |-> "reference_only", hash |-> None, revision |-> 1]]
      OBVIOUS
    <3>2. /\ Tick /\ Changed /\ WritePublications(Broken)
          /\ tool' = [tool EXCEPT !.step = "write", !.pubs = records]
      BY <1>9, <2>4, <3>1 DEF NewRead
    <3>3. pubs = Latest
      BY <2>4 DEF DiskInv
    <3>4. records \in Records /\ \A x \in Ids : x # tool.id => records[x] = Latest[x]
      BY <1>1, <2>2, <3>1, <3>3 DEF Records, Record, Statuses
    <3>5. Follows(records)
      BY <1>1, <2>2, <3>4 DEF Follows
    <3>6. DiskInv' /\ HistoryInv' /\ Onward /\ Latest' = Latest /\ files' = files /\ pubs' = Broken
      BY <3>2, Written, Ticks DEF WritePublications
    <3>7. tool' \in ToolType /\ tool'.op = "new" /\ tool'.step = "write" /\ tool'.pubs = records
      BY <1>1, <2>1, <3>2, <3>4 DEF ToolType
    <3>8. ToolInv'
      BY <3>5, <3>6, <3>7 DEF ToolInv, Quiet, Follows
    <3> QED BY <3>2, <3>6, <3>8
  <2> QED BY <2>3, <2>4
(* template_tools rehash.                                                  *)
<1>11. CASE Rehash
  <2>1. PICK records : records =
          [id \in Ids |-> IF pubs[id] = None THEN None ELSE [pubs[id] EXCEPT !.hash = files[id]]]
    OBVIOUS
  <2>2. /\ pubs # Broken /\ Tick /\ Changed /\ WritePublications(Broken)
        /\ tool' = Command("rehash", "write", None, records)
        /\ \A id \in Ids : files[id] # Broken /\ (pubs[id] # None => files[id] # None)
    BY <1>11, <2>1 DEF Rehash
  <2>3. pubs = Latest
    BY <2>2 DEF DiskInv
  <2>4. ASSUME NEW id \in Ids, Latest[id] # None
        PROVE  /\ records[id] \in Record /\ files[id] # None
               /\ records[id].revision = Latest[id].revision
               /\ records[id].status = Latest[id].status
    <3>1. Latest[id] \in Record /\ files[id] \in Contents
      BY <1>1, <2>2, <2>3, <2>4 DEF Records, DiskInv
    <3>2. records[id] = [Latest[id] EXCEPT !.hash = files[id]]
      BY <2>1, <2>3, <2>4
    <3> QED BY <2>2, <2>3, <2>4, <3>1, <3>2 DEF Record
  <2>5. \A id \in Ids : Latest[id] = None => records[id] = None
    BY <2>1, <2>3
  <2>6. records \in Records
    <3>1. \A id \in Ids : records[id] \in Record \cup {None}
      BY <2>4, <2>5
    <3> QED BY <2>1, <3>1 DEF Records
  <2>7. Follows(records)
    BY <1>2, <2>4, <2>5, <2>6 DEF Follows
  <2>8. DiskInv' /\ HistoryInv' /\ Onward /\ Latest' = Latest /\ files' = files /\ pubs' = Broken
    BY <2>2, Written, Ticks DEF WritePublications
  <2>9. ToolInv'
    BY <2>2, <2>6, <2>7, <2>8 DEF ToolInv, ToolType, Command, Quiet, Follows
  <2> QED BY <2>2, <2>8, <2>9
<1>12. CASE WriteBack
  <2>1. /\ tool.step = "write" /\ SameTickOrNext /\ WritePublications(tool.pubs)
        /\ tool' = NoCommand /\ Changed
    BY <1>12 DEF WriteBack
  <2>2. pubs = Broken /\ Follows(tool.pubs)
    BY <2>1 DEF ToolInv
  <2>3. DiskInv' /\ HistoryInv' /\ Onward
    BY <2>1, <2>2, Written, Ticks
  <2> QED BY <1>3, <2>1, <2>3
<1>13. CASE Interrupt
  BY <1>3, <1>10, <1>13 DEF Interrupt
<1>14. CASE Wait
  <2>1. /\ UNCHANGED <<files, stamp, pubs, pstamp, tool, versions, cache, req, held>> /\ Tick
        /\ Latest' = Latest
    BY <1>14 DEF Wait, Latest
  <2>2. ToolInv'
    BY <2>1 DEF ToolInv, Quiet, Follows
  <2> QED BY <1>10, <2>1, <2>2
<1> QED
  BY <1>4, <1>5, <1>6, <1>7, <1>8, <1>9, <1>11, <1>12, <1>13, <1>14 DEF Maintain

-----------------------------------------------------------------------------
(* The requests.                                                           *)

(* What the disk does to a key's promise.                                  *)
LEMMA KeyKept ==
  ASSUME DiskInv, Onward, NEW key, NEW records, LoadedUnder(key, records, pubs, pstamp)
  PROVE  LoadedUnder(key, records, pubs', pstamp')
BY DEF DiskInv, Onward, LoadedUnder

(* A catalogue once published stays one.                                   *)
LEMMA PublishedKept ==
  ASSUME DiskInv, Onward, NEW catalogue, OncePublished(catalogue)
  PROVE  \A id \in DOMAIN catalogue : \E v \in 1 .. Len(versions') :
           /\ id \in Ids /\ versions'[v][id] # None
           /\ catalogue[id].publication.revision = versions'[v][id].revision
           /\ catalogue[id].publication.status = versions'[v][id].status
<1> SUFFICES ASSUME NEW id \in DOMAIN catalogue
             PROVE  \E v \in 1 .. Len(versions') :
                      /\ id \in Ids /\ versions'[v][id] # None
                      /\ catalogue[id].publication.revision = versions'[v][id].revision
                      /\ catalogue[id].publication.status = versions'[v][id].status
  OBVIOUS
<1>1. PICK v \in 1 .. Len(versions) :
        /\ id \in Ids /\ versions[v][id] # None
        /\ catalogue[id].publication.revision = versions[v][id].revision
        /\ catalogue[id].publication.status = versions[v][id].status
  BY DEF OncePublished
<1>2. v \in 1 .. Len(versions') /\ versions'[v] = versions[v]
  BY LatestIsRecords DEF Onward
<1> QED BY <1>1, <1>2

(* The cache and what clients hold, while the disk changes.                *)
LEMMA CopiesKept ==
  ASSUME DiskInv, Onward, ShapeInv, CacheInv, HeldInv, UNCHANGED <<cache, held>>
  PROVE  CacheInv' /\ HeldInv'
<1>1. ASSUME NEW i \in DOMAIN cache
      PROVE  \E v \in 1 .. Len(versions') : /\ LoadedWith(cache[i].catalogue, versions'[v])
                                            /\ LoadedUnder(cache[i].key, versions'[v], pubs', pstamp')
  <2>1. PICK v \in 1 .. Len(versions) : /\ LoadedWith(cache[i].catalogue, versions[v])
                                        /\ LoadedUnder(cache[i].key, versions[v], pubs, pstamp)
    BY DEF CacheInv
  <2>2. v \in 1 .. Len(versions') /\ versions'[v] = versions[v]
    BY LatestIsRecords DEF Onward
  <2>3. LoadedUnder(cache[i].key, versions'[v], pubs', pstamp')
    BY <2>1, <2>2, KeyKept
  <2> QED BY <2>1, <2>2, <2>3
<1>2. CacheInv'
  BY <1>1 DEF CacheInv
<1>3. ASSUME NEW c \in Clients, held[c] # None PROVE GoodCopy(held[c])'
  <2>1. GoodCopy(held[c]) /\ held'[c] = held[c]
    BY <1>3 DEF HeldInv
  <2>2. PICK catalogue : catalogue = held[c].catalogue /\ catalogue = held'[c].catalogue
    BY <2>1
  <2>4. \A id \in DOMAIN catalogue : \E v \in 1 .. Len(versions') :
          /\ id \in Ids /\ versions'[v][id] # None
          /\ catalogue[id].publication.revision = versions'[v][id].revision
          /\ catalogue[id].publication.status = versions'[v][id].status
    BY <2>1, <2>2, PublishedKept DEF GoodCopy
  <2>3. /\ held[c].since \in 1 .. Len(versions')
        /\ \A v \in held[c].since .. Len(versions) :
             v \in held[c].since .. Len(versions') /\ versions'[v] = versions[v]
    BY <2>1, LatestIsRecords DEF Onward, GoodCopy
  <2>5. \E v \in held[c].since .. Len(versions') : Shows(catalogue, versions'[v])
    BY <2>1, <2>2, <2>3 DEF GoodCopy
  <2>6. OncePublished(held[c].catalogue)'
    BY <2>2, <2>4 DEF OncePublished
  <2>7. held'[c].since = held[c].since
    BY <2>1
  <2>8. \E v \in held'[c].since .. Len(versions') : Shows(held'[c].catalogue, versions'[v])
    BY <2>2, <2>5, <2>7
  <2> QED BY <2>3, <2>6, <2>7, <2>8 DEF GoodCopy, Shows
<1>4. HeldInv'
  BY <1>3 DEF HeldInv
<1> QED BY <1>2, <1>4

(* A request, while the disk changes.                                      *)
LEMMA RequestKept ==
  ASSUME DiskInv, Onward, ShapeInv, NEW c \in Clients, RequestInv(c),
         \/ req'[c] = req[c]
         \/ req[c].step # "idle" /\ req'[c] = [req[c] EXCEPT !.calm = FALSE]
  PROVE  RequestInv(c)'
<1>1. CASE req[c] = Idle
  BY <1>1 DEF RequestInv, Idle
<1>2. CASE req[c] # Idle
  <2>1. IsRequest(req[c])
    BY <1>2 DEF ShapeInv
  <2>2. /\ req'[c].step = req[c].step /\ req'[c].since = req[c].since /\ req'[c].kind = req[c].kind
        /\ req'[c].key = req[c].key /\ req'[c].pubs = req[c].pubs /\ req'[c].seen = req[c].seen
        /\ req'[c].id = req[c].id /\ req'[c].left = req[c].left /\ req'[c].age = req[c].age
    BY <2>1 DEF IsRequest
  <2>3. /\ req[c].since \in 1 .. Len(versions) /\ Len(versions) \in Nat
        /\ Len(versions') \in Nat /\ Len(versions) <= Len(versions')
        /\ \A v \in 1 .. Len(versions) : versions'[v] = versions[v]
    BY <2>1, LatestIsRecords DEF Onward, RequestInv, IsRequest
  <2>4. \A v \in req[c].since .. Len(versions) :
          v \in req[c].since .. Len(versions') /\ versions'[v] = versions[v]
    BY <2>3
  <2>5. req[c].kind = "list" /\ req[c].step = "load" => req[c].key[1] \in Nat /\ req[c].key[1] <= pstamp'
    BY <2>1 DEF DiskInv, Onward, RequestInv, IsRequest
  <2>6. ASSUME Loading(c)
        PROVE  \E v \in req[c].since .. Len(versions') :
                 /\ req[c].pubs = versions'[v] /\ LoadedWith(req[c].seen, versions'[v])
                 /\ req[c].kind = "list" => LoadedUnder(req[c].key, versions'[v], pubs', pstamp')
    <3>1. PICK v \in req[c].since .. Len(versions) :
            /\ req[c].pubs = versions[v] /\ LoadedWith(req[c].seen, versions[v])
            /\ req[c].kind = "list" => LoadedUnder(req[c].key, versions[v], pubs, pstamp)
      BY <2>1, <2>6 DEF RequestInv, IsRequest
    <3>2. req[c].kind = "list" => LoadedUnder(req[c].key, versions[v], pubs', pstamp')
      BY <3>1, KeyKept
    <3> QED BY <2>4, <3>1, <3>2
  <2>7. ASSUME req[c].step \in {"answered", "saved"}
        PROVE  \E v \in req[c].since .. Len(versions') : Shows(req[c].seen, versions'[v])
    BY <2>4, <2>7 DEF RequestInv
  <2>8. /\ req[c].age < MaxAge /\ (req[c].step # "answered" => req[c].age = 0)
        /\ req[c].step \in {"stat", "stat2", "load", "list"} => DOMAIN req[c].seen = {}
        /\ req[c].step = "read" => req[c].left \subseteq Ids
        /\ req[c].step = "saved" => req[c].seen[req[c].id].content.file
    BY <2>1 DEF RequestInv, IsRequest
  <2>9. req[c].since \in 1 .. Len(versions')
    BY <2>3
  <2> QED BY <2>2, <2>5, <2>6, <2>7, <2>8, <2>9 DEF RequestInv, Loading
<1> QED BY <1>1, <1>2

Good == DiskInv /\ ShapeInv /\ CacheInv /\ HeldInv /\ ClientInv

(* A client's step leaves the disk as it is.                               *)
LEMMA DiskStays ==
  ASSUME DiskInv, UNCHANGED disk
  PROVE  /\ Onward /\ Latest' = Latest /\ Loadable' = Loadable /\ Present' = Present
         /\ UNCHANGED <<files, pubs, pstamp, versions>>
<1>1. UNCHANGED <<files, pubs, pstamp, versions>>
  BY DEF disk
<1> QED BY <1>1, LatestIsRecords DEF Onward, Latest, Loadable, Present, DiskInv

(* Nor does it touch the others' requests.                                 *)
LEMMA OneRequest ==
  ASSUME Good, UNCHANGED disk, NEW c \in Clients, NEW r,
         req' = [req EXCEPT ![c] = r], r = Idle \/ IsRequest(r),
         CacheInv', HeldInv', held' = [b \in Clients |-> held'[b]], \E S : cache' \in Seq(S),
         RequestInv(c)', CalmInv(c)'
  PROVE  Good'
<1> USE DEF Good
<1>1. req'[c] = r /\ \A b \in Clients : b # c => req'[b] = req[b]
  BY DEF ShapeInv
<1>2. ShapeInv'
  <2>1. req' = [b \in Clients |-> req'[b]]
    BY DEF ShapeInv
  <2>2. \A b \in Clients : req'[b] = Idle \/ IsRequest(req'[b])
    BY <1>1 DEF ShapeInv
  <2> QED BY <2>1, <2>2 DEF ShapeInv
<1>3. /\ Onward /\ Latest' = Latest /\ Loadable' = Loadable /\ Present' = Present
      /\ UNCHANGED <<files, pubs, pstamp, versions>>
  BY DiskStays
<1>4. DiskInv'
  BY <1>3 DEF DiskInv, disk
<1>5. ASSUME NEW b \in Clients, b # c PROVE RequestInv(b)' /\ CalmInv(b)'
  <2>1. RequestInv(b)'
    BY <1>1, <1>3, <1>5, RequestKept DEF ClientInv
  <2>2. CalmInv(b)'
    BY <1>1, <1>3, <1>5 DEF ClientInv, CalmInv, Loading
  <2> QED BY <2>1, <2>2
<1>6. ClientInv'
  BY <1>5 DEF ClientInv
<1> QED BY <1>2, <1>4, <1>6

(* Most steps leave the copies alone as well.                              *)
LEMMA OneClient ==
  ASSUME Good, UNCHANGED <<disk, cache, held>>, NEW c \in Clients, NEW r,
         req' = [req EXCEPT ![c] = r], r = Idle \/ IsRequest(r),
         RequestInv(c)', CalmInv(c)'
  PROVE  Good'
<1>1. CacheInv' /\ HeldInv'
  BY DiskStays, CopiesKept DEF Good
<1>2. held' = [b \in Clients |-> held'[b]] /\ \E S : cache' \in Seq(S)
  BY DEF Good, ShapeInv
<1> QED BY <1>1, <1>2, OneRequest

(* A request begins.                                                       *)
LEMMA BeginStep ==
  ASSUME Good, NEW c \in Clients, NEW kind \in {"list", "save"}, NEW id, NEW step \in {"stat", "load"},
         req' = [req EXCEPT ![c] = Request(kind, id, step)],
         kind = "list" => step = "stat",
         UNCHANGED <<disk, cache, held>>
  PROVE  Good'
<1>2. PICK r : r = Request(kind, id, step)
  OBVIOUS
<1>3. /\ r.step = step /\ r.kind = kind /\ r.since = Len(versions) /\ r.seen = << >>
      /\ r.age = 0 /\ 0 < MaxAge /\ IsRequest(r)
  BY <1>2, PublicationAssumption DEF Request, IsRequest
<1>4. r.calm => Loadable
  BY <1>2 DEF Request
<1>5. req'[c] = r
  BY <1>2 DEF Good, ShapeInv
<1>6. Len(versions) \in 1 .. Len(versions) /\ versions' = versions /\ Loadable' = Loadable
  BY LatestIsRecords, DiskStays DEF Good
<1>7. DOMAIN r.seen = {}
  BY <1>3
<1>8. RequestInv(c)'
  BY <1>3, <1>5, <1>6, <1>7 DEF RequestInv, Loading
<1>9. CalmInv(c)'
  BY <1>3, <1>4, <1>5, <1>6 DEF CalmInv, Loading
<1> QED BY <1>2, <1>3, <1>8, <1>9, OneClient

(* A fresh copy is shown, without a request to the server.                 *)
LEMMA ReuseStep ==
  ASSUME Good, NEW c \in Clients, Fresh(c), req' = [req EXCEPT ![c] = FromCopy(c)],
         UNCHANGED <<disk, cache, held>>
  PROVE  Good'
<1>1. PICK r : r = FromCopy(c)
  OBVIOUS
<1>2. /\ r.step = "answered" /\ r.kind = "list" /\ r.since = held[c].since
      /\ r.age = clock - held[c].at /\ r.seen = held[c].catalogue /\ IsRequest(r)
  BY <1>1 DEF FromCopy, Request, IsRequest
<1>3. r.calm => Loadable
  BY <1>1 DEF FromCopy, Request
<1>4. req'[c] = r
  BY <1>1 DEF Good, ShapeInv
<1>5. versions' = versions /\ Loadable' = Loadable
  BY DiskStays DEF Good
<1>6. GoodCopy(held[c]) /\ r.age < MaxAge
  BY <1>2 DEF Good, HeldInv, Fresh
<1>7. RequestInv(c)'
  BY <1>2, <1>4, <1>5, <1>6 DEF RequestInv, Loading, GoodCopy
<1>8. CalmInv(c)'
  BY <1>2, <1>3, <1>4, <1>5 DEF CalmInv, Loading
<1> QED BY <1>1, <1>2, <1>7, <1>8, OneClient

(* The page is left.                                                       *)
LEMMA LeaveStep ==
  ASSUME Good, NEW c \in Clients, Leave(c)
  PROVE  Good'
<1>1. req' = [req EXCEPT ![c] = Idle] /\ UNCHANGED <<disk, cache, held>>
  BY DEF Leave
<1>2. req'[c] = Idle /\ Idle.step = "idle"
  BY <1>1 DEF Good, ShapeInv, Idle
<1>3. RequestInv(c)' /\ CalmInv(c)'
  BY <1>2 DEF RequestInv, CalmInv
<1> QED BY <1>1, <1>3, OneClient

(* What a step of a request keeps of it.                                   *)
LEMMA Known ==
  ASSUME Good, NEW c \in Clients, req[c].step # "idle"
  PROVE  /\ IsRequest(req[c]) /\ RequestInv(c) /\ CalmInv(c)
         /\ req[c].since \in 1 .. Len(versions) /\ Len(versions) \in Nat
<1>1. IsRequest(req[c]) /\ RequestInv(c) /\ CalmInv(c)
  BY DEF Good, ShapeInv, ClientInv, Idle
<1> QED BY <1>1, LatestIsRecords DEF Good, RequestInv

(* The key is taken: first the revisions' time, then that of the           *)
(* publications, and the cache is looked at.                               *)
LEMMA StatStep ==
  ASSUME Good, NEW c \in Clients, StatRevisions(c)
  PROVE  Good'
<1>1. PICK time : req' = [req EXCEPT ![c] = [req[c] EXCEPT !.step = "stat2", !.rev = time]]
  BY DEF StatRevisions, Good, ShapeInv
<1>2. req[c].step = "stat" /\ UNCHANGED <<disk, cache, held>>
  BY DEF StatRevisions
<1>3. PICK r : r = [req[c] EXCEPT !.step = "stat2", !.rev = time]
  OBVIOUS
<1>4. IsRequest(req[c]) /\ RequestInv(c) /\ CalmInv(c)
  BY <1>2, Known
<1>5. /\ r.step = "stat2" /\ r.kind = req[c].kind /\ r.since = req[c].since /\ r.seen = req[c].seen
      /\ r.calm = req[c].calm /\ r.age = req[c].age /\ IsRequest(r)
  BY <1>3, <1>4 DEF IsRequest
<1>6. req'[c] = r /\ versions' = versions /\ Loadable' = Loadable
  BY <1>1, <1>2, <1>3, DiskStays DEF Good, ShapeInv
<1>7. RequestInv(c)'
  BY <1>2, <1>4, <1>5, <1>6 DEF RequestInv, Loading
<1>8. CalmInv(c)'
  BY <1>2, <1>4, <1>5, <1>6 DEF CalmInv, Loading
<1> QED BY <1>1, <1>2, <1>3, <1>5, <1>7, <1>8, OneClient

(* The smaller of two numbers.                                             *)
LEMMA MinOfTwo ==
  ASSUME NEW a \in Nat, NEW b \in Nat
  PROVE  Min({a, b}) \in {a, b} /\ Min({a, b}) <= a /\ Min({a, b}) <= b
<1>1. \E x \in {a, b} : \A y \in {a, b} : x <= y
  <2>1. CASE a <= b
    BY <2>1
  <2>2. CASE b <= a
    BY <2>2
  <2> QED BY <2>1, <2>2
<1> QED BY <1>1 DEF Min

(* Nothing is forgotten that was kept, nothing kept that was not.          *)
LEMMA FrontOf ==
  ASSUME NEW S, cache \in Seq(S), NEW entry, NEW older \in Seq(S),
         \A j \in DOMAIN older : \E i \in DOMAIN cache : older[j] = cache[i],
         cache' = Front(entry, older)
  PROVE  /\ \E T : cache' \in Seq(T)
         /\ \A j \in DOMAIN cache' : cache'[j] = entry \/ \E i \in DOMAIN cache : cache'[j] = cache[i]
<1>1. PICK n : n = Min({CacheSize, Len(older) + 1})
  OBVIOUS
<1>2. CacheSize \in Nat /\ CacheSize >= 1 /\ Len(older) + 1 \in Nat /\ Len(older) + 1 >= 1
  BY PublicationAssumption
<1>3. n \in 1 .. Len(older) + 1
  BY <1>1, <1>2, MinOfTwo
<1>4. PICK all : all = <<entry>> \o older
  OBVIOUS
<1>5. /\ all \in Seq(S \cup {entry}) /\ Len(all) = Len(older) + 1
      /\ all[1] = entry /\ \A k \in 2 .. Len(all) : all[k] = older[k - 1] /\ k - 1 \in DOMAIN older
  BY <1>4
<1>6. cache' = SubSeq(all, 1, n)
  BY <1>1, <1>4 DEF Front
<1>7. cache' \in Seq(S \cup {entry}) /\ Len(cache') = n /\ \A j \in 1 .. n : cache'[j] = all[j]
  BY <1>3, <1>5, <1>6
<1>8. ASSUME NEW j \in DOMAIN cache'
      PROVE  cache'[j] = entry \/ \E i \in DOMAIN cache : cache'[j] = cache[i]
  <2>1. j \in 1 .. Len(all) /\ cache'[j] = all[j]
    BY <1>3, <1>5, <1>7
  <2> QED BY <1>5, <2>1
<1> QED BY <1>7, <1>8

(* The places behind the first sequence of two are those of the second.    *)
LEMMA Behind == ASSUME NEW a \in Nat, NEW b \in Nat, NEW j \in 1 .. a + b, ~(j <= a)
                PROVE  j - a \in 1 .. b
OBVIOUS

(* What stands in one sequence after another stands in one of them.        *)
LEMMA PartOf ==
  ASSUME NEW S, NEW s \in Seq(S), NEW t \in Seq(S), NEW j \in 1 .. Len(s \o t)
  PROVE  \/ \E k \in 1 .. Len(s) : (s \o t)[j] = s[k]
         \/ \E k \in 1 .. Len(t) : (s \o t)[j] = t[k]
<1>1. j \in 1 .. Len(s) + Len(t) /\ Len(s) \in Nat /\ Len(t) \in Nat
  BY ConcatProperties, LenProperties
<1>2. (s \o t)[j] = IF j <= Len(s) THEN s[j] ELSE t[j - Len(s)]
  BY <1>1, ConcatProperties
<1>3. CASE j <= Len(s)
  <2>1. j \in 1 .. Len(s)
    BY <1>1, <1>3
  <2> QED BY <1>2, <1>3, <2>1
<1>4. CASE ~(j <= Len(s))
  <2>1. j - Len(s) \in 1 .. Len(t)
    BY <1>1, <1>4, Behind
  <2> QED BY <1>2, <1>4, <2>1
<1> QED BY <1>3, <1>4

(* The cache without one of its entries.                                   *)
LEMMA WithoutOf ==
  ASSUME NEW S, cache \in Seq(S), NEW i \in DOMAIN cache
  PROVE  /\ Without(i) \in Seq(S)
         /\ \A j \in DOMAIN Without(i) : \E k \in DOMAIN cache : Without(i)[j] = cache[k]
<1>1. i \in 1 .. Len(cache) /\ Len(cache) \in Nat
  OBVIOUS
<1>2. PICK before, after : before = SubSeq(cache, 1, i - 1) /\ after = SubSeq(cache, i + 1, Len(cache))
  OBVIOUS
<1>3. /\ before \in Seq(S) /\ Len(before) = i - 1 /\ \A j \in 1 .. i - 1 : before[j] = cache[j]
  BY <1>1, <1>2
<1>4. /\ after \in Seq(S) /\ Len(after) = Len(cache) - i
      /\ \A j \in 1 .. Len(cache) - i : after[j] = cache[j + i]
  BY <1>1, <1>2
<1>5. Without(i) = before \o after
  BY <1>2 DEF Without
<1>6. /\ Without(i) \in Seq(S) /\ Len(Without(i)) = Len(cache) - 1
  BY <1>1, <1>3, <1>4, <1>5
<1>7. ASSUME NEW j \in 1 .. Len(Without(i)) PROVE \E k \in DOMAIN cache : Without(i)[j] = cache[k]
  <2>1. \/ \E k \in 1 .. Len(before) : Without(i)[j] = before[k]
        \/ \E k \in 1 .. Len(after) : Without(i)[j] = after[k]
    <3>1. j \in 1 .. Len(before \o after)
      BY <1>5, <1>7
    <3>3. before \in Seq(S) /\ after \in Seq(S)
      BY <1>3, <1>4
    <3>2. \/ \E k \in 1 .. Len(before) : (before \o after)[j] = before[k]
          \/ \E k \in 1 .. Len(after) : (before \o after)[j] = after[k]
      BY <3>1, <3>3, PartOf
    <3> QED BY <1>5, <3>2
  <2>2. ASSUME NEW k \in 1 .. Len(before) PROVE k \in DOMAIN cache /\ before[k] = cache[k]
    BY <1>1, <1>3, <2>2
  <2>3. ASSUME NEW k \in 1 .. Len(after) PROVE k + i \in DOMAIN cache /\ after[k] = cache[k + i]
    BY <1>1, <1>4, <2>3
  <2> QED BY <2>1, <2>2, <2>3
<1> QED BY <1>6, <1>7

(* A client's step that answers, or fails.                                 *)
LEMMA Ended ==
  ASSUME Good, NEW c \in Clients, req[c].step # "idle", NEW step, NEW shown, End(c, step, shown),
         step # "idle"
  PROVE  \E r : /\ req' = [req EXCEPT ![c] = r] /\ req'[c] = r /\ IsRequest(r)
                /\ r.step = step /\ r.seen = shown /\ r.since = req[c].since
                /\ r.calm = req[c].calm /\ r.id = req[c].id /\ r.kind = req[c].kind
                /\ r.age = req[c].age
<1>1. IsRequest(req[c])
  BY Known
<1>2. PICK r : r = [req[c] EXCEPT !.step = step, !.at = 0, !.rev = 0, !.key = None,
                                  !.pubs = Broken, !.left = {}, !.seen = shown]
  OBVIOUS
<1>3. req' = [req EXCEPT ![c] = r] /\ req'[c] = r
  BY <1>2 DEF End, Good, ShapeInv
<1>4. /\ r.step = step /\ r.seen = shown /\ r.since = req[c].since
      /\ r.calm = req[c].calm /\ r.id = req[c].id /\ r.kind = req[c].kind
      /\ r.age = req[c].age /\ IsRequest(r)
  BY <1>1, <1>2 DEF IsRequest
<1> QED BY <1>3, <1>4

(* A failure: the disk cannot have been good since the request was made.   *)
LEMMA FailStep ==
  ASSUME Good, NEW c \in Clients, req[c].step # "idle", Fail(c), UNCHANGED <<disk, cache>>,
         ~req[c].calm, req[c].step # "answered"
  PROVE  Good'
<1>1. PICK r : /\ req' = [req EXCEPT ![c] = r] /\ req'[c] = r /\ IsRequest(r)
               /\ r.step = "failed" /\ r.since = req[c].since /\ r.calm = req[c].calm
               /\ r.age = req[c].age
  BY Ended DEF Fail
<1>2. versions' = versions /\ UNCHANGED held /\ RequestInv(c)
  BY Known DEF disk, Fail
<1>3. RequestInv(c)' /\ CalmInv(c)'
  BY <1>1, <1>2 DEF RequestInv, CalmInv, Loading
<1> QED BY <1>1, <1>2, <1>3, OneClient

(* publications.json is read.                                              *)
LEMMA LoadPublicationsStep ==
  ASSUME Good, NEW c \in Clients, LoadPublications(c)
  PROVE  Good'
<1>1. req[c].step = "load" /\ UNCHANGED <<disk, cache>>
  BY DEF LoadPublications
<1>2. /\ IsRequest(req[c]) /\ RequestInv(c) /\ CalmInv(c)
      /\ req[c].since \in 1 .. Len(versions) /\ Len(versions) \in Nat
  BY <1>1, Known
<1>3. CASE pubs = Broken
  <2>1. ~req[c].calm
    BY <1>1, <1>2, <1>3 DEF CalmInv, Loadable
  <2> QED BY <1>1, <1>3, <2>1, FailStep DEF LoadPublications
<1>4. CASE pubs # Broken
  <2>1. PICK r : r = [req[c] EXCEPT !.step = "list", !.pubs = pubs]
    OBVIOUS
  <2>2. req' = [req EXCEPT ![c] = r] /\ UNCHANGED held /\ req'[c] = r
    BY <1>4, <2>1 DEF LoadPublications, Good, ShapeInv
  <2>3. /\ r.step = "list" /\ r.pubs = pubs /\ r.kind = req[c].kind /\ r.since = req[c].since
        /\ r.seen = req[c].seen /\ r.calm = req[c].calm /\ r.key = req[c].key
        /\ r.age = req[c].age /\ IsRequest(r)
    BY <1>2, <2>1 DEF IsRequest
  <2>4. /\ pubs = versions[Len(versions)] /\ DOMAIN req[c].seen = {}
        /\ req[c].kind = "list" => LoadedUnder(req[c].key, versions[Len(versions)], pubs, pstamp)
    BY <1>1, <1>2, <1>4 DEF Good, DiskInv, Latest, RequestInv, LoadedUnder
  <2>5. /\ UNCHANGED <<versions, pubs, pstamp>> /\ Loadable' = Loadable
        /\ Len(versions) \in req[c].since .. Len(versions)
    BY <1>1, <1>2, DiskStays DEF Good
  <2>6. LoadedWith(r.seen, versions[Len(versions)])
    BY <2>3, <2>4 DEF LoadedWith
  <2>7. RequestInv(c)'
    BY <1>1, <1>2, <2>2, <2>3, <2>4, <2>5, <2>6 DEF RequestInv, Loading
  <2>8. CalmInv(c)'
    BY <1>1, <1>2, <2>2, <2>3, <2>5 DEF CalmInv, Loading
  <2> QED BY <1>1, <2>2, <2>3, <2>7, <2>8, OneClient
<1> QED BY <1>3, <1>4

(* The directory is listed.                                                *)
LEMMA ListStep ==
  ASSUME Good, NEW c \in Clients, List(c)
  PROVE  Good'
<1>1. req[c].step = "list" /\ UNCHANGED <<disk, cache>>
  BY DEF List
<1>2. /\ IsRequest(req[c]) /\ RequestInv(c) /\ CalmInv(c)
      /\ req[c].since \in 1 .. Len(versions) /\ Len(versions) \in Nat
  BY <1>1, Known
<1>3. CASE Present = {}
  <2>1. ~req[c].calm
    BY <1>1, <1>2, <1>3 DEF CalmInv, Loadable
  <2> QED BY <1>1, <1>3, <2>1, FailStep DEF List
<1>4. CASE Present # {}
  <2>1. PICK r : r = [req[c] EXCEPT !.step = "read", !.left = Present]
    OBVIOUS
  <2>2. req' = [req EXCEPT ![c] = r] /\ UNCHANGED held /\ req'[c] = r
    BY <1>4, <2>1 DEF List, Good, ShapeInv
  <2>3. /\ r.step = "read" /\ r.left = Present /\ r.pubs = req[c].pubs /\ r.kind = req[c].kind
        /\ r.since = req[c].since /\ r.seen = req[c].seen /\ r.calm = req[c].calm
        /\ r.key = req[c].key /\ r.age = req[c].age /\ IsRequest(r)
    BY <1>2, <2>1 DEF IsRequest
  <2>4. /\ UNCHANGED <<versions, pubs, pstamp>> /\ Loadable' = Loadable /\ Present' = Present
        /\ Present \subseteq Ids
    BY <1>1, DiskStays DEF Good, Present
  <2>5. RequestInv(c)'
    BY <1>1, <1>2, <2>2, <2>3, <2>4 DEF RequestInv, Loading
  <2>6. CalmInv(c)'
    BY <1>1, <1>2, <2>2, <2>3, <2>4 DEF CalmInv, Loading
  <2> QED BY <1>1, <2>2, <2>3, <2>5, <2>6, OneClient
<1> QED BY <1>3, <1>4

(* The first file of those that are left is one of them.                   *)
LEMMA FirstIsLeft ==
  ASSUME NEW T, T \subseteq Ids, T # {}
  PROVE  Min(T) \in T
<1>1. T \subseteq Nat
  BY PublicationAssumption
<1>2. \E x \in T : \A y \in T : ~(<<y, x>> \in OpToRel(<, Nat))
  BY <1>1, NatLessThanWellFounded, WFMin
<1>3. PICK x \in T : \A y \in T : ~(<<y, x>> \in OpToRel(<, Nat))
  BY <1>2
<1>4. ASSUME NEW y \in T PROVE x <= y
  <2>1. x \in Nat /\ y \in Nat
    BY <1>1
  <2>2. ~(y < x)
    BY <1>3, <2>1 DEF OpToRel
  <2> QED BY <2>1, <2>2
<1> QED BY <1>4 DEF Min

(* A file is read: it becomes part of what was loaded, or ends it.         *)
LEMMA ReadStep ==
  ASSUME Good, NEW c \in Clients, Read(c)
  PROVE  Good'
<1>1. req[c].step = "read" /\ req[c].left # {} /\ UNCHANGED <<disk, cache>>
  BY DEF Read
<1>2. IsRequest(req[c]) /\ RequestInv(c) /\ CalmInv(c)
  BY <1>1, Known
<1>3. PICK v \in req[c].since .. Len(versions) :
        /\ req[c].pubs = versions[v] /\ LoadedWith(req[c].seen, versions[v])
        /\ req[c].kind = "list" => LoadedUnder(req[c].key, versions[v], pubs, pstamp)
  BY <1>1, <1>2 DEF RequestInv, Loading
<1>4. PICK id : id = Min(req[c].left)
  OBVIOUS
<1>5. id \in req[c].left /\ id \in Ids /\ req[c].left \subseteq Ids
  BY <1>1, <1>2, <1>4, FirstIsLeft DEF RequestInv
<1>6. CASE ~Acceptable(files[id], req[c].pubs, id)
  <2>1. Fail(c)
    BY <1>4, <1>6 DEF Read
  <2>2. ~req[c].calm
    BY <1>1, <1>2, <1>5, <1>6 DEF CalmInv, Loading, Loadable
  <2> QED BY <1>1, <2>1, <2>2, FailStep
<1>7. CASE Acceptable(files[id], req[c].pubs, id)
  <2>1. PICK seen : seen = [i \in DOMAIN req[c].seen \cup {id} |->
                             IF i \in DOMAIN req[c].seen THEN req[c].seen[i]
                             ELSE [content |-> files[id], publication |-> req[c].pubs[id]]]
    OBVIOUS
  <2>2. PICK r : r = [req[c] EXCEPT !.left = req[c].left \ {id}, !.seen = seen]
    OBVIOUS
  <2>3. req' = [req EXCEPT ![c] = r] /\ UNCHANGED held
    BY <1>4, <1>7, <2>1, <2>2 DEF Read, Good, ShapeInv
  <2>4. req'[c] = r
    BY <2>3 DEF Good, ShapeInv
  <2>5. /\ r.step = "read" /\ r.left = req[c].left \ {id} /\ r.pubs = req[c].pubs
        /\ r.kind = req[c].kind /\ r.since = req[c].since /\ r.seen = seen
        /\ r.calm = req[c].calm /\ r.age = req[c].age /\ r.key = req[c].key /\ IsRequest(r)
    BY <1>1, <1>2, <2>2 DEF IsRequest
  <2>6. LoadedWith(seen, versions[v])
    <3>1. DOMAIN seen = DOMAIN req[c].seen \cup {id}
      BY <2>1
    <3>2. ASSUME NEW i \in DOMAIN seen
          PROVE  /\ i \in Ids /\ Acceptable(seen[i].content, versions[v], i)
                 /\ seen[i].publication = versions[v][i]
      <4>1. CASE i \in DOMAIN req[c].seen
        BY <1>3, <2>1, <3>1, <4>1 DEF LoadedWith
      <4>2. CASE i \notin DOMAIN req[c].seen
        <5>1. i = id /\ seen[i] = [content |-> files[id], publication |-> versions[v][id]]
          BY <1>3, <2>1, <3>1, <4>2
        <5>2. seen[i].content = files[id] /\ seen[i].publication = versions[v][id]
          BY <5>1
        <5> QED BY <1>3, <1>5, <1>7, <5>1, <5>2
      <4> QED BY <4>1, <4>2
    <3> QED BY <3>2 DEF LoadedWith
  <2>7. UNCHANGED <<versions, pubs, pstamp>> /\ Loadable' = Loadable /\ Present' = Present
    BY <1>1, DiskStays DEF Good
  <2>8. RequestInv(c)'
    BY <1>1, <1>2, <1>3, <1>5, <2>4, <2>5, <2>6, <2>7 DEF RequestInv, Loading
  <2>9. CalmInv(c)'
    BY <1>1, <1>2, <2>4, <2>5, <2>7 DEF CalmInv, Loading
  <2> QED BY <1>1, <2>3, <2>5, <2>8, <2>9, OneClient
<1> QED BY <1>6, <1>7

(* What was loaded with one version shows what that version says, and was  *)
(* published.                                                              *)
LEMMA LoadedShows ==
  ASSUME NEW v \in 1 .. Len(versions), NEW catalogue, LoadedWith(catalogue, versions[v])
  PROVE  Shows(catalogue, versions[v]) /\ OncePublished(catalogue)
<1>1. ASSUME NEW id \in DOMAIN catalogue
      PROVE  /\ id \in Ids /\ versions[v][id] # None /\ catalogue[id].publication = versions[v][id]
             /\ catalogue[id].content.valid
             /\ Admits(catalogue[id].content, versions[v][id].status)
             /\ versions[v][id].hash \in {None, catalogue[id].content}
  BY <1>1 DEF LoadedWith, Acceptable
<1>2. Shows(catalogue, versions[v])
  BY <1>1 DEF Shows
<1>3. OncePublished(catalogue)
  BY <1>1 DEF OncePublished
<1> QED BY <1>2, <1>3

(* A copy of the same ETag shows the same: the ETag holds the content, and *)
(* a publicationRevision stands for one status.                            *)
LEMMA SameVersion ==
  ASSUME HistoryInv, NEW v \in 1 .. Len(versions), NEW catalogue, LoadedWith(catalogue, versions[v]),
         NEW copy, OncePublished(copy), ETag(copy) = ETag(catalogue)
  PROVE  Shows(copy, versions[v])
<1>1. DOMAIN copy = DOMAIN catalogue
  <2>1. DOMAIN ETag(copy) = DOMAIN copy /\ DOMAIN ETag(catalogue) = DOMAIN catalogue
    BY DEF ETag
  <2> QED BY <2>1
<1>2. ASSUME NEW id \in DOMAIN copy
      PROVE  /\ copy[id].content = catalogue[id].content
             /\ copy[id].publication.revision = catalogue[id].publication.revision
  <2>1. ETag(copy)[id] = ETag(catalogue)[id]
    OBVIOUS
  <2>2. /\ ETag(copy)[id] = <<copy[id].content, copy[id].publication.revision>>
        /\ ETag(catalogue)[id] = <<catalogue[id].content, catalogue[id].publication.revision>>
    BY <1>1, <1>2 DEF ETag
  <2> QED BY <2>1, <2>2
<1>3. Shows(catalogue, versions[v])
  BY LoadedShows
<1>4. ASSUME NEW id \in DOMAIN copy
      PROVE  copy[id].publication.status = versions[v][id].status
  <2>1. PICK w \in 1 .. Len(versions) :
          /\ id \in Ids /\ versions[w][id] # None
          /\ copy[id].publication.revision = versions[w][id].revision
          /\ copy[id].publication.status = versions[w][id].status
    BY <1>4 DEF OncePublished
  <2>2. versions[v][id] # None /\ catalogue[id].publication = versions[v][id]
    BY <1>1, <1>3, <1>4 DEF LoadedWith, Shows
  <2>3. versions[w][id].revision = versions[v][id].revision
    BY <1>2, <1>4, <2>1, <2>2
  <2> QED BY <2>1, <2>2, <2>3 DEF HistoryInv
<1> QED BY <1>1, <1>2, <1>3, <1>4 DEF Shows

(* A catalogue is answered.                                                *)
LEMMA AnswerStep ==
  ASSUME Good, HistoryInv, NEW c \in Clients, req[c].step \in {"stat2", "read"}, NEW catalogue,
         Answer(c, catalogue), UNCHANGED disk,
         NEW v \in req[c].since .. Len(versions), LoadedWith(catalogue, versions[v]),
         CacheInv', \E S : cache' \in Seq(S)
  PROVE  Good'
<1>1. /\ IsRequest(req[c]) /\ RequestInv(c) /\ CalmInv(c)
      /\ req[c].since \in 1 .. Len(versions) /\ Len(versions) \in Nat
  BY Known
<1>2. v \in 1 .. Len(versions)
  BY <1>1
<1>3. PICK shown : /\ shown = IF held[c] # None /\ ETag(held[c].catalogue) = ETag(catalogue)
                              THEN held[c].catalogue ELSE catalogue
  OBVIOUS
<1>12. PICK copy : copy = [catalogue |-> shown, since |-> req[c].since, at |-> req[c].at]
  OBVIOUS
<1>4. End(c, "answered", shown) /\ held' = [held EXCEPT ![c] = copy]
  BY <1>3, <1>12 DEF Answer
<1>5. Shows(shown, versions[v]) /\ OncePublished(shown)
  <2>1. CASE held[c] # None /\ ETag(held[c].catalogue) = ETag(catalogue)
    <3>1. shown = held[c].catalogue /\ OncePublished(held[c].catalogue)
      BY <1>3, <2>1 DEF Good, HeldInv, GoodCopy
    <3> QED BY <1>2, <2>1, <3>1, SameVersion
  <2>2. CASE ~(held[c] # None /\ ETag(held[c].catalogue) = ETag(catalogue))
    BY <1>2, <1>3, <2>2, LoadedShows
  <2> QED BY <2>1, <2>2
<1>6. PICK r : /\ req' = [req EXCEPT ![c] = r] /\ req'[c] = r /\ IsRequest(r)
               /\ r.step = "answered" /\ r.seen = shown /\ r.since = req[c].since
               /\ r.calm = req[c].calm /\ r.age = req[c].age
  BY <1>4, Ended
<1>7. versions' = versions /\ Loadable' = Loadable /\ pubs' = pubs
  BY DiskStays DEF Good
<1>8. held' = [b \in Clients |-> held'[b]] /\ \A b \in Clients : held'[b] \in {held[b], copy}
  BY <1>4 DEF Good, ShapeInv
<1>9. HeldInv'
  <2>1. GoodCopy(copy)
    BY <1>1, <1>5, <1>12 DEF GoodCopy
  <2>2. \A b \in Clients : held'[b] # None => GoodCopy(held'[b])
    BY <1>8, <2>1 DEF Good, HeldInv
  <2>3. ASSUME NEW b \in Clients, held'[b] # None PROVE GoodCopy(held[b])'
    <3>1. PICK x : x = held'[b] /\ GoodCopy(x)
      BY <2>2, <2>3
    <3> QED BY <1>7, <3>1 DEF GoodCopy, OncePublished, Shows
  <2> QED BY <2>3 DEF HeldInv
<1>10. RequestInv(c)'
  BY <1>1, <1>5, <1>6, <1>7 DEF RequestInv, Loading
<1>11. CalmInv(c)'
  BY <1>1, <1>6, <1>7 DEF CalmInv, Loading
<1> QED BY <1>6, <1>8, <1>9, <1>10, <1>11, OneRequest

(* The cache gains an entry, or moves one, of a good catalogue.            *)
LEMMA CacheGains ==
  ASSUME Good, UNCHANGED disk, NEW entry, NEW v \in 1 .. Len(versions),
         LoadedWith(entry.catalogue, versions[v]),
         LoadedUnder(entry.key, versions[v], pubs, pstamp),
         \A j \in DOMAIN cache' : cache'[j] = entry \/ \E i \in DOMAIN cache : cache'[j] = cache[i]
  PROVE  CacheInv'
<1>1. UNCHANGED <<versions, pubs, pstamp>>
  BY DiskStays DEF Good
<1>2. ASSUME NEW j \in DOMAIN cache'
      PROVE  \E w \in 1 .. Len(versions) : /\ LoadedWith(cache'[j].catalogue, versions[w])
                                            /\ LoadedUnder(cache'[j].key, versions[w], pubs, pstamp)
  <2>1. CASE cache'[j] = entry
    BY <2>1
  <2>2. ASSUME NEW i \in DOMAIN cache, cache'[j] = cache[i]
        PROVE  \E w \in 1 .. Len(versions) : /\ LoadedWith(cache'[j].catalogue, versions[w])
                                              /\ LoadedUnder(cache'[j].key, versions[w], pubs, pstamp)
    BY <2>2 DEF Good, CacheInv
  <2> QED BY <1>2, <2>1, <2>2
<1> QED BY <1>1, <1>2 DEF CacheInv

(* The cache is looked at: what is found was loaded with the present       *)
(* publications.                                                           *)
LEMMA LookUpStep ==
  ASSUME Good, HistoryInv, NEW c \in Clients, LookUp(c)
  PROVE  Good'
<1>1. req[c].step = "stat2" /\ UNCHANGED disk
  BY DEF LookUp
<1>2. /\ IsRequest(req[c]) /\ RequestInv(c) /\ CalmInv(c)
      /\ req[c].since \in 1 .. Len(versions) /\ Len(versions) \in Nat
  BY <1>1, Known
<1>3. PICK key : key = Key(req[c].rev, pstamp)
  OBVIOUS
<1>4. key[1] = pstamp /\ pstamp \in Nat
  BY <1>3 DEF Key, Good, DiskInv
<1>5. ASSUME NEW i \in DOMAIN cache, cache[i].key = key,
             cache' = Front(cache[i], Without(i)), Answer(c, cache[i].catalogue)
      PROVE  Good'
  <2>1. PICK v \in 1 .. Len(versions) : /\ LoadedWith(cache[i].catalogue, versions[v])
                                        /\ LoadedUnder(cache[i].key, versions[v], pubs, pstamp)
    BY DEF Good, CacheInv
  <2>2. pubs # Broken /\ versions[v] = pubs /\ pubs = versions[Len(versions)]
    BY <1>4, <1>5, <2>1 DEF LoadedUnder, Good, DiskInv, Latest
  <2>3. Len(versions) \in req[c].since .. Len(versions)
    BY <1>2
  <2>4. LoadedWith(cache[i].catalogue, versions[Len(versions)])
    BY <2>1, <2>2
  <2>5. PICK S : cache \in Seq(S)
    BY DEF Good, ShapeInv
  <2>6. /\ Without(i) \in Seq(S)
        /\ \A j \in DOMAIN Without(i) : \E k \in DOMAIN cache : Without(i)[j] = cache[k]
    BY <2>5, WithoutOf
  <2>7. /\ \E T : cache' \in Seq(T)
        /\ \A j \in DOMAIN cache' :
             cache'[j] = cache[i] \/ \E k \in DOMAIN cache : cache'[j] = cache[k]
    BY <1>5, <2>5, <2>6, FrontOf
  <2>8. CacheInv'
    BY <1>1, <2>1, <2>7, CacheGains
  <2> QED BY <1>1, <1>5, <2>3, <2>4, <2>7, <2>8, AnswerStep
<1>6. ASSUME req' = [req EXCEPT ![c].step = "load", ![c].key = key], UNCHANGED <<cache, held>>
      PROVE  Good'
  <2>1. PICK r : r = [req[c] EXCEPT !.step = "load", !.key = key]
    OBVIOUS
  <2>2. req' = [req EXCEPT ![c] = r] /\ req'[c] = r
    BY <1>6, <2>1 DEF Good, ShapeInv
  <2>3. /\ r.step = "load" /\ r.kind = req[c].kind /\ r.since = req[c].since
        /\ r.seen = req[c].seen /\ r.calm = req[c].calm /\ r.age = req[c].age
        /\ r.key = key /\ IsRequest(r)
    BY <1>2, <2>1 DEF IsRequest
  <2>4. UNCHANGED <<versions, pstamp>> /\ Loadable' = Loadable
    BY <1>1, DiskStays DEF Good
  <2>5. RequestInv(c)'
    BY <1>1, <1>2, <1>4, <2>2, <2>3, <2>4 DEF RequestInv, Loading
  <2>6. CalmInv(c)'
    BY <1>1, <1>2, <2>2, <2>3, <2>4 DEF CalmInv, Loading
  <2> QED BY <1>1, <1>6, <2>2, <2>3, <2>5, <2>6, OneClient
<1>7. \/ \E i \in DOMAIN cache : /\ cache[i].key = key /\ cache' = Front(cache[i], Without(i))
                                 /\ Answer(c, cache[i].catalogue)
      \/ /\ req' = [req EXCEPT ![c].step = "load", ![c].key = key] /\ UNCHANGED <<cache, held>>
  BY <1>3 DEF LookUp
<1> QED BY <1>5, <1>6, <1>7

(* What was loaded is kept, and answered.                                  *)
LEMMA LoadedStep ==
  ASSUME Good, HistoryInv, NEW c \in Clients, Loaded(c)
  PROVE  Good'
<1>1. /\ req[c].step = "read" /\ req[c].kind = "list" /\ UNCHANGED disk
      /\ Answer(c, req[c].seen)
  BY DEF Loaded
<1>2. /\ IsRequest(req[c]) /\ RequestInv(c)
      /\ req[c].since \in 1 .. Len(versions) /\ Len(versions) \in Nat
  BY <1>1, Known
<1>3. PICK v \in req[c].since .. Len(versions) :
        /\ LoadedWith(req[c].seen, versions[v])
        /\ LoadedUnder(req[c].key, versions[v], pubs, pstamp)
  BY <1>1, <1>2 DEF RequestInv, Loading
<1>4. PICK entry : entry = [key |-> req[c].key, catalogue |-> req[c].seen]
  OBVIOUS
<1>5. entry.key = req[c].key /\ entry.catalogue = req[c].seen /\ v \in 1 .. Len(versions)
  BY <1>2, <1>4
<1>6. cache' = cache \/ cache' = Front(entry, cache)
  BY <1>4 DEF Loaded
<1>7. PICK S : cache \in Seq(S)
  BY DEF Good, ShapeInv
<1>8. /\ \E T : cache' \in Seq(T)
      /\ \A j \in DOMAIN cache' : cache'[j] = entry \/ \E i \in DOMAIN cache : cache'[j] = cache[i]
  <2>1. CASE cache' = cache
    BY <1>7, <2>1
  <2>2. CASE cache' = Front(entry, cache)
    BY <1>7, <2>2, FrontOf
  <2> QED BY <1>6, <2>1, <2>2
<1>9. CacheInv'
  BY <1>1, <1>3, <1>5, <1>8, CacheGains
<1> QED BY <1>1, <1>3, <1>8, <1>9, AnswerStep

(* A save judges the catalogue it has loaded.                              *)
LEMMA JudgeStep ==
  ASSUME Good, NEW c \in Clients, Judge(c)
  PROVE  Good'
<1>1. req[c].step = "read" /\ UNCHANGED <<disk, cache, held>>
  BY DEF Judge
<1>2. /\ IsRequest(req[c]) /\ RequestInv(c) /\ CalmInv(c)
      /\ req[c].since \in 1 .. Len(versions) /\ Len(versions) \in Nat
  BY <1>1, Known
<1>3. PICK v \in req[c].since .. Len(versions) : LoadedWith(req[c].seen, versions[v])
  BY <1>1, <1>2 DEF RequestInv, Loading
<1>4. v \in 1 .. Len(versions)
  BY <1>2
<1>5. versions' = versions /\ Loadable' = Loadable
  BY <1>1, DiskStays DEF Good
<1>6. CASE req[c].id \in DOMAIN req[c].seen /\ req[c].seen[req[c].id].publication.status = "active"
  <2>1. End(c, "saved", req[c].seen)
    BY <1>6 DEF Judge
  <2>2. PICK r : /\ req' = [req EXCEPT ![c] = r] /\ req'[c] = r /\ IsRequest(r)
                 /\ r.step = "saved" /\ r.seen = req[c].seen /\ r.since = req[c].since
                 /\ r.calm = req[c].calm /\ r.id = req[c].id /\ r.age = req[c].age
    BY <1>1, <2>1, Ended
  <2>3. Shows(req[c].seen, versions[v])
    BY <1>3, <1>4, LoadedShows
  <2>4. req[c].seen[req[c].id].content.file
    BY <1>6, <2>3 DEF Shows, Admits
  <2>5. RequestInv(c)'
    BY <1>1, <1>2, <1>5, <2>2, <2>3, <2>4 DEF RequestInv, Loading
  <2>6. CalmInv(c)'
    BY <1>1, <1>2, <1>5, <2>2 DEF CalmInv, Loading
  <2> QED BY <1>1, <2>2, <2>5, <2>6, OneClient
<1>7. CASE ~(req[c].id \in DOMAIN req[c].seen /\ req[c].seen[req[c].id].publication.status = "active")
  <2>1. End(c, "refused", << >>)
    BY <1>7 DEF Judge
  <2>2. PICK r : /\ req' = [req EXCEPT ![c] = r] /\ req'[c] = r /\ IsRequest(r)
                 /\ r.step = "refused" /\ r.since = req[c].since /\ r.calm = req[c].calm
                 /\ r.age = req[c].age
    BY <1>1, <2>1, Ended
  <2>3. RequestInv(c)'
    BY <1>1, <1>2, <1>5, <2>2 DEF RequestInv, Loading
  <2>4. CalmInv(c)'
    BY <1>1, <1>2, <1>5, <2>2 DEF CalmInv, Loading
  <2> QED BY <1>1, <2>2, <2>3, <2>4, OneClient
<1> QED BY <1>6, <1>7

-----------------------------------------------------------------------------
(* The whole.                                                              *)

(* The requests under way, while the disk changes.                         *)
LEMMA ClientsKept ==
  ASSUME DiskGood, Good, Maintain
  PROVE  Good'
<1>1. /\ DiskInv' /\ Onward
      /\ Changed \/ UNCHANGED <<files, stamp, pubs, pstamp, versions, cache, req, held>>
  BY MaintainStep DEF DiskGood
<1>2. DiskInv /\ ShapeInv /\ CacheInv /\ HeldInv /\ ClientInv
  BY DEF Good
<1>3. CASE Changed
  <2>1. /\ UNCHANGED <<cache, held>>
        /\ req' = [c \in Clients |-> IF req[c].step = "idle" THEN Idle
                                     ELSE [req[c] EXCEPT !.calm = FALSE]]
    BY <1>3 DEF Changed
  <2>2. CacheInv' /\ HeldInv'
    BY <1>1, <1>2, <2>1, CopiesKept
  <2>3. ASSUME NEW c \in Clients
        PROVE  (req'[c] = Idle \/ IsRequest(req'[c])) /\ RequestInv(c)' /\ CalmInv(c)'
    <3>1. CASE req[c].step = "idle"
      <4>1. req[c] = Idle /\ req'[c] = Idle
        BY <1>2, <2>1, <3>1 DEF ShapeInv, IsRequest
      <4>2. RequestInv(c)'
        BY <1>1, <1>2, <4>1, RequestKept DEF ClientInv
      <4> QED BY <4>1, <4>2 DEF CalmInv, Idle
    <3>2. CASE req[c].step # "idle"
      <4>1. req'[c] = [req[c] EXCEPT !.calm = FALSE] /\ IsRequest(req[c])
        BY <1>2, <2>1, <3>2 DEF ShapeInv, Idle
      <4>2. RequestInv(c)'
        BY <1>1, <1>2, <3>2, <4>1, RequestKept DEF ClientInv
      <4>3. IsRequest(req'[c]) /\ ~req'[c].calm
        BY <4>1 DEF IsRequest
      <4> QED BY <4>2, <4>3 DEF CalmInv
    <3> QED BY <3>1, <3>2
  <2>4. ShapeInv'
    <3>1. req' = [c \in Clients |-> req'[c]] /\ held' = [c \in Clients |-> held'[c]]
      BY <1>2, <2>1 DEF ShapeInv
    <3>2. \E S : cache' \in Seq(S)
      BY <1>2, <2>1 DEF ShapeInv
    <3> QED BY <2>3, <3>1, <3>2 DEF ShapeInv
  <2> QED BY <1>1, <2>2, <2>3, <2>4 DEF Good, ClientInv
<1>4. CASE UNCHANGED <<files, stamp, pubs, pstamp, versions, cache, req, held>>
  <2>1. CacheInv' /\ HeldInv' /\ ShapeInv'
    BY <1>1, <1>2, <1>4, CopiesKept DEF ShapeInv
  <2>2. ASSUME NEW c \in Clients PROVE RequestInv(c)' /\ CalmInv(c)'
    <3>1. RequestInv(c)'
      BY <1>1, <1>2, <1>4, RequestKept DEF ClientInv
    <3>2. Loadable' = Loadable /\ Present' = Present
      BY <1>4 DEF Loadable, Present
    <3>3. CalmInv(c)'
      BY <1>2, <1>4, <3>2 DEF ClientInv, CalmInv, Loading
    <3> QED BY <3>1, <3>3
  <2> QED BY <1>1, <2>1, <2>2 DEF Good, ClientInv
<1> QED BY <1>1, <1>3, <1>4

(* A client's request goes on.                                             *)
LEMMA ServeStep ==
  ASSUME Good, HistoryInv, NEW c \in Clients, Serve(c)
  PROVE  Good' /\ UNCHANGED disk
<1>1. CASE Fetch(c)
  <2>1. CASE Fresh(c)
    BY <1>1, <2>1, ReuseStep DEF Fetch
  <2>2. CASE ~Fresh(c)
    <3>1. req' = [req EXCEPT ![c] = Request("list", None, "stat")] /\ UNCHANGED <<disk, cache, held>>
      BY <1>1, <2>2 DEF Fetch
    <3> QED BY <3>1, BeginStep
  <2> QED BY <2>1, <2>2
<1>2. ASSUME NEW id \in Ids, Save(c, id) PROVE Good' /\ UNCHANGED disk
  <2>1. req' = [req EXCEPT ![c] = Request("save", id, "load")] /\ UNCHANGED <<disk, cache, held>>
    BY <1>2 DEF Save
  <2> QED BY <2>1, BeginStep
<1>3. CASE Leave(c)
  BY <1>3, LeaveStep DEF Leave
<1>4. CASE StatRevisions(c)
  BY <1>4, StatStep DEF StatRevisions
<1>5. CASE LookUp(c)
  BY <1>5, LookUpStep DEF LookUp
<1>6. CASE LoadPublications(c)
  BY <1>6, LoadPublicationsStep DEF LoadPublications
<1>7. CASE List(c)
  BY <1>7, ListStep DEF List
<1>8. CASE Read(c)
  BY <1>8, ReadStep DEF Read
<1>9. CASE Loaded(c)
  BY <1>9, LoadedStep DEF Loaded
<1>10. CASE Judge(c)
  BY <1>10, JudgeStep DEF Judge
<1> QED BY <1>1, <1>2, <1>3, <1>4, <1>5, <1>6, <1>7, <1>8, <1>9, <1>10 DEF Serve

(* The server starts on a catalogue that loads.                            *)
LEMMA InvInit == Init => Inv
<1> SUFFICES ASSUME Init PROVE Inv
  OBVIOUS
<1>1. /\ pubs # Broken /\ versions = <<pubs>> /\ tool = NoCommand /\ cache = << >>
      /\ \A c \in Clients : req[c] = Idle /\ held[c] = None
      /\ req = [c \in Clients |-> Idle] /\ held = [c \in Clients |-> None]
  BY DEF Init, Loadable
<1>2. pubs \in Records
  <2>1. \A id \in Ids : pubs[id] \in Record \cup {None}
    BY DEF Init, Record, Statuses
  <2> QED BY <2>1 DEF Init, Records
<1>3. versions \in Seq(Records) /\ Len(versions) = 1 /\ Latest = pubs /\ versions[1] = pubs
  BY <1>1, <1>2 DEF Latest
<1>4. DiskInv
  BY <1>1, <1>2, <1>3 DEF Init, DiskInv
<1>5. ToolInv
  BY <1>1 DEF ToolInv, ToolType, NoCommand, Command, Quiet
<1>6. HistoryInv
  <2>1. \A id \in Ids : pubs[id] # None => pubs[id].revision \in Nat
    BY <1>2 DEF Records, Record
  <2>2. \A v \in 1 .. Len(versions) : v = 1
    BY <1>3
  <2> QED BY <1>3, <2>1, <2>2 DEF HistoryInv
<1>7. ShapeInv
  <2>1. cache \in Seq({})
    BY <1>1
  <2> QED BY <1>1, <2>1 DEF ShapeInv
<1>8. CacheInv
  BY <1>1 DEF CacheInv
<1>9. HeldInv /\ ClientInv
  BY <1>1 DEF HeldInv, ClientInv, RequestInv, CalmInv, Idle
<1> QED BY <1>4, <1>5, <1>6, <1>7, <1>8, <1>9 DEF Inv

(* All of it holds always.                                                 *)
LEMMA Invariant == Spec => []Inv
<1>1. ASSUME Inv, [Next]_vars PROVE Inv'
  <2>1. Good /\ DiskGood /\ HistoryInv
    BY <1>1 DEF Inv, Good, DiskGood
  <2>2. CASE Maintain
    BY <2>1, <2>2, MaintainStep, ClientsKept DEF Inv, Good, DiskGood
  <2>3. ASSUME NEW c \in Clients, Serve(c) PROVE Inv'
    <3>1. Good' /\ UNCHANGED disk
      BY <2>1, <2>3, ServeStep
    <3>2. ToolInv' /\ HistoryInv'
      <4>1. UNCHANGED <<files, pubs, tool, versions>> /\ Latest' = Latest
        BY <3>1 DEF disk, Latest
      <4> QED BY <2>1, <4>1 DEF DiskGood, ToolInv, HistoryInv, Quiet, Follows
    <3> QED BY <3>1, <3>2 DEF Inv, Good
  <2>4. CASE UNCHANGED vars
    <3>1. UNCHANGED <<files, pubs, pstamp, clock, versions, tool, cache, req, held>> /\ Latest' = Latest
      BY <2>4 DEF vars, disk, Latest
    <3>2. DiskInv' /\ ToolInv' /\ HistoryInv' /\ ShapeInv' /\ CacheInv' /\ HeldInv'
      BY <1>1, <3>1 DEF Inv, DiskInv, ToolInv, HistoryInv, ShapeInv, CacheInv, HeldInv,
                        GoodCopy, OncePublished, Shows, Quiet, Follows
    <3>3. ClientInv'
      BY <1>1, <3>1 DEF Inv, ClientInv, RequestInv, CalmInv, Loading, Loadable, Present
    <3> QED BY <3>2, <3>3 DEF Inv
  <2> QED BY <1>1, <2>2, <2>3, <2>4 DEF Next
<1> QED BY InvInit, <1>1, PTL DEF Spec

(* Every answer shows the statuses of one version of the publications      *)
(* since the server was asked for it: a takedown is seen by every request  *)
(* that reaches the server after it, whatever is in the caches, and by     *)
(* every page once max-age has passed, for which the browser's copy may be *)
(* shown unasked.                                                          *)
THEOREM TakedownIsSeen == Spec => []TakedownsAreSeen
<1>1. Inv => TakedownsAreSeen
  BY DEF Inv, ClientInv, RequestInv, Shows, TakedownsAreSeen
<1> QED BY Invariant, <1>1, PTL

(* Every content is shown, and saved under, as one such version declares   *)
(* it, although the files change while they are read.                      *)
THEOREM ContentIsAsReviewed == Spec => []ServedAsReviewed
<1>1. Inv => ServedAsReviewed
  BY DEF Inv, ClientInv, RequestInv, Shows, ServedAsReviewed
<1> QED BY Invariant, <1>1, PTL

(* A request on a catalogue that loads, and does not change, does not      *)
(* fail.                                                                   *)
THEOREM FailureIsOfTheDisk == Spec => []FailuresPass
<1>1. Inv => FailuresPass
  BY DEF Inv, ClientInv, CalmInv, FailuresPass
<1> QED BY Invariant, <1>1, PTL
=============================================================================

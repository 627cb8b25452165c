# Portrait Booth in TLA+

This directory holds TLA+ models of Portrait Booth, the TLC configurations that
check them on small instances, and proofs, checked by TLAPS, that hold for all
values of the constants. File names without a directory below are those of
`backend/app/` and `frontend/src/`.

Portrait Booth makes ID-style photos in the browser: the user picks a template,
uploads or takes a photo, crops it, and gets a JPEG that meets the template.
Nothing leaves the browser unless the user *stages* the photo: it is then kept
on the server for a limited time under a six-character retrieval code (the
KEY), for whoever types the KEY, until it is deleted or expires.

    Browser                                   Server (FastAPI, one process)
    -------                                   -----------------------------
    CreatePage                                create_save -- save_photo ---+
      TemplateStep                                                         |
      SourceStep / CaptureStep -- camera      delete_save --- purge_photo -+-- SQLite
      ReviewStep, EditorStep                  resolve ------- rate limiter +-- object
      FinalPage                               download --------------------+   files
        StagingPanel --- api/save.ts --->     worker: run_once ------------+
    RetrievePage ------- api/save.ts --->     list_templates ----- template files

`create_save` is an `async` endpoint that calls `save_photo` on the event loop.
`delete_save`, `resolve` and `download` are plain endpoints and run in a thread
pool, each with a database connection of its own, side by side with each other,
with the event loop and with the worker's thread. SQLite and the directory of
object files are all they share.

## Inventory

What each part keeps, what changes it, what is hard about it, and what would
make it correct.

### Idempotent save (`save_service.py`, `routers/saves.py` create_save)

* State: one row of `save_idempotency_records` per (session, idempotency key):
  status, payload digest, envelope of the answer, created and updated times;
  photo rows; the object file.
* Operations: take the lease (insert, or take over a failed or expired one, or
  replay, or refuse), check and re-encode the image, write the object, commit
  photo + KEY + completed row in one transaction, mark the lease failed, drop
  rows past the window.
* Hard: the client retries what may have succeeded; a process dies with a
  lease in its hands; a takeover races with another takeover and with the owner
  it gave up on; the cleanup deletes rows by age under a save that is working;
  every statement can fail after earlier ones have committed.
* Correct when: one photo per key and window, a lost answer can be fetched
  again for the whole window, an answer belongs to the content that asked for
  it, and an orderly failure leaves neither a lease nor a file behind.

### Photo lifecycle (`routers/saves.py` delete_save, `routers/retrievals.py`, `worker.py`, `storage.py`)

* State: `photo_records` (status, revocation epoch, deletion due),
  `key_registry`, `download_grants`, the object directory.
* Operations: the commit of a save; delete (revoke and commit, then unlink,
  then commit as purged); resolve (look up, issue a grant); download (look up
  the grant, check the photo, consume the grant, read the file); the worker's
  run (expire and erase, finish due deletions, sweep orphans, drop grants and
  records).
* Hard: four statements of a download interleave with a delete, an expiry and a
  purge; the unlink cannot be rolled back with the transaction; a rollback
  leaves rows that claim bytes that are gone; the orphan sweep must spare a
  save that has written its file and not yet committed; one failing file must
  not stop the rest; a KEY that is dropped must not be drawn again.
* Correct when it keeps the promise of `PhotoVault`, a successful delete is
  final, and what is dead loses its bytes in the end.

### Rate limiter (`rate_limit.py`, used by resolve)

* State: a count per (scope, subject, fixed window).
* Operations: `check` counts and compares, in two statements; `peek` compares.
* Hard: parallel requests between the two statements; a window that ends
  between two uses in one request; failures must count and successes not.
* Correct when no more than the limit pass in a window, nobody pays for another
  address, and the failure gate counts this KEY's failures in this window.

### Images (`image_validate.py`, `save_service.py` `_size_constraint`)

* State: none of its own; an upload, a template and the quality being tried.
* Operations: refuse by bytes, format, frames, pixels, edge, then orient and
  compare with the template's size, then search a quality downwards.
* Hard: two limits that intersect, limits on the stored and sizes on the
  oriented picture, a search that changes its step, and a second reading of the
  template's sizes in the browser.
* Correct when what is stored complies with the template and the limits, and
  nothing that the page offers is refused.

### Templates (`template_store.py`, `template_tools.py`, `routers/templates.py`, `lib/templates/catalog.ts`)

* State: `publications.json`, a file for each revision, the server's cache
  under their modification times, the browser's copy under its ETag, the page's
  promise.
* Operations: load and validate file by file; answer 200 or 304; save under an
  active template; edit, publish, take down by hand; `new` and `rehash`.
* Hard: files change one by one while they are read one by one, and are
  truncated before they are written; three caches stand between a takedown and
  the page; a tool may be killed.
* Correct when an answer shows one state of publication since the server was
  asked for it, which a browser's copy was less than `max-age` ago, with the
  contents that were reviewed, and failures pass.

### SQLite store, KEYs, HTTP shell

* `db.py`: tables, connections, an idempotent migration. One writer; readers
  see the last commit.
* `keygen.py`, `hmac_utils.py`: rejection sampling of KEYs, normalisation,
  fingerprints. Correct when KEYs are uniform over the alphabet (nothing to
  model: a pure function of random numbers) and never re-issued (modelled).
* `main.py`, `http_utils.py`, `routers/sessions.py`, `config.py`: headers,
  same-origin check, session cookie, settings; stateless.

### Camera step (`create/capture-step.tsx`, `camera/camera.ts`)

* State: status (idle, requesting, live, capturing), a generation counter, the
  current stream, a countdown, a hidden-page timer.
* Operations: open, reconnect, switch, shoot (take, decode, check, hand over),
  countdown, hide and show the page, back, leave.
* Hard: every await can resolve after the user has gone on; permission prompts
  stay open for minutes; several requests and shots are pending at once.
* Correct when no camera stays on behind the user, no decoded bitmap leaks or is
  used after disposal, and late results change nothing.

### Staging panel (`render/staging-panel.tsx`, `api/save.ts`) and the receipt CreatePage keeps

* State: the panel's stage, idempotency key and session flag, which end with
  the panel; the receipt, which CreatePage keeps; the session cookie.
* Operations: asking to stage and confirming, upload with one resend in a new
  session, retry or back after an error, delete, back to edit and return, restart.
* Hard: lost answers, requests handled after the browser gave up, an expired
  cookie, another tab, the panel gone while its call is on its way.
* Correct when a retry makes no second photo, the receipt is that of the
  content it is kept with, and no code of a deleted photo is handed out.

### Create page and upload step (`create/create-page.tsx`, `source-step.tsx`, `review-step.tsx`)

* State: step, template, photo, edits, chosen size, receipt; a file being
  decoded.
* Operations: choose and change the template, choose a file, confirm, retake,
  edit, finish, restart, leave.
* Hard: decoding ends after the user has gone back, restarted or left; bitmaps
  are released by effects; edits must follow photo and template.
* Correct when edits belong to the photo and template shown, no step is drawn
  without what it needs, and bitmaps are let go.

### Source photos (`image/source.ts`, `header.ts`, `exif.ts`)

* Pure, but of many cases: three formats, header parts in any order within a
  window, two byte orders, eight orientations, decoders that turn the photo and
  decoders that do not, limits and a working size.
* Correct when the photo stands upright and whole on its canvas.

### Editor (`editor/editor-step.tsx`, `edit-transform.ts`, `lib/templates/policy.ts`)

* State: transform, undo and redo stacks, the out-of-bounds warning, fingers.
* Operations: fields, keys, buttons, drag, pinch, undo, redo, reset, done; a
  template or size switch re-projects all of it.
* Hard: several pointer events between two renderings; stacks that outlive a
  template; values typed beside the buttons' limits.
* Correct when locks hold in the stacks too, every change can be undone, and
  switched edits fit.

### Final page (`render/*`, `editor/overlay.ts`)

* State: the running effect, artifact, checks, error.
* Operations: render, search the quality, write the density, build the checks;
  retry, downgrade the size, follow an advice.
* Hard: the checks are awaited after the artifact and set unasked; a bisection
  over a function that need not be monotone; rules read twice, for the guides
  and for the checks.
* Correct when the summary is of the artifact shown, the search is exact where
  it can be, and guides, checks and advice agree.

### Pose guidance (`pose/*`)

* State: the shared landmarker slots, the guide's frame loop, the tracker.
* Operations: acquire, create, fail, release; a frame; a static recheck.
* Hard: creation takes seconds and the guide may be gone by then; a late failure
  meets a later creation; smoothing, hysteresis and stability over gaps.
* Correct when no landmarker leaks and "ready" is said only of a face that was
  held in place, and of a photo only what its pixels show.

### Pages and shell (`app/*`, `pages/*`, `main.tsx`, `api/service-policy.ts`)

* State: the route, the leave question, the error boundary, two shared answers
  of the server; the retrieve page's stage, previews and pending calls.
* Hard: answers after unmounting, two lookups at once, a deletion meanwhile.
* Correct when previews are released and a deleted photo is not shown, except by
  a lookup already under way.

## Modules

| module | models | kind |
| --- | --- | --- |
| `SaveLease` | idempotent save on any number of event loops | detailed |
| `PhotoLifecycle` | save's commit, delete, resolve, download, worker, files | composes the server's actors |
| `PhotoLifecycleProofs` | theorems about `PhotoLifecycle`, and that it implements `PhotoVault` | proofs |
| `PhotoVault` | what the service promises of a photo | abstract, implemented by `PhotoLifecycle` |
| `RateLimit` | `check` and `peek` as resolve uses them | detailed |
| `Publication` | templates on disk, their tools, caches and readers | detailed |
| `PublicationProofs` | theorems about `Publication` | proofs |
| `SaveImage` | image validation and re-encoding on the server | detailed |
| `SourcePhoto`, `SourceLoading` | a photo file: header, limits, decoding, orientation | algorithms, detailed |
| `Pictures` | `SourceLoading` and `SaveImage`: a picture's two gates | composition |
| `PicturesProofs` | theorems about `Pictures`, `SourceLoading`, `SaveImage`, and about `SaveLease` | proofs |
| `Capture` | the camera step and the photo CreatePage holds | detailed |
| `Staging` | the staging panel, receipt, network, session | detailed, over an abstract server |
| `StagingProofs` | theorems about `Staging` | proofs |
| `EditTransform` | transforms, output sizes, template locks | algorithms |
| `Editor` | the editor between confirm and final step | detailed |
| `EditorProofs` | theorems about `Editor` and `EditTransform` | proofs |
| `CropRules` | measurement rules, as guides and as checks | algorithms |
| `FinalPage` | render effect, quality search, density, checks | detailed |
| `FinalPageProofs` | theorems about `FinalPage` and `CropRules` | proofs |
| `PhotoQuality` | exposure, sharpness, background, eyes, mouth of a photo | algorithms |
| `PoseTracking` | the tracker and the static recheck | algorithms |
| `Guide` | the guide and the shared landmarkers | detailed |
| `GuideProofs` | theorems about `Guide` and `PoseTracking`, and about `Capture` | proofs |
| `Shell`, `CreateFlow`, `RetrievePage` | page frame, create page, retrieve page | detailed |
| `App` | the three of them: navigation, errors, reloads | composition |
| `AppProofs` | theorems about `App`, and about `RateLimit` | proofs |
| `MC*` | instances for TLC: data, symmetry, constraints | |

Actions are named after what happens in the code and their comments name the
statement. A definition whose comment starts with "Mutant" is not part of any
specification: it is a plausible slip in the action of a similar name (a dropped
guard, a kept key, a skipped step), kept beside it to show that the property
named for it in `PROJECT.json` notices.

### SaveLease

One request goes `idle -> reading -> insert [-> select [-> takeover]] -> work ->
stored -> done`; `failing` is the handler that calls `_mark_failed`. `Arrive`
is the entry of `create_save` up to its await of the upload; `Begin` is the
start of `save_photo`, which reads the clock once (`start`) and then keeps its
event loop until it returns, hence its guard. `rec` is
`save_idempotency_records`; the envelope is the set `photo`. `InsertLease`,
`InsertConflict`, `Claim`, `TakeOver`, `RefuseInProgress`, `RefuseConflict`,
`Replay`, `RowGone` are the branches of `_acquire_lease`, each committed
statement one step. `Commit` is the transaction of `_do_save`, `CommitFails` its
rollback with the unlink of the object; `Unlink` may raise, as `storage.delete`
forgives a missing file only, and then the bytes stay (`littered`). `LeaseError` is a database error while
the lease is sought, `MarkFailedError` one while it is given back: the request
is then `stranded`, answered with 500, its lease left to expire. `Crash` takes a
loop and all its requests (`lost`). `PurgeIdempotency` is the worker's cleanup
of rows. Digest collisions, the contents of the image and of the envelope are
abstracted; the checks of template and image are one rejection.

### PhotoLifecycle and PhotoVault

`db` is the committed state of the three tables, `tx` the writer's view of it,
`writer` the holder of SQLite's lock. A transaction that touches no file is one
step; one that does (delete's second, the worker's erasures) is a step per file
operation and a commit, with `Rollback` or `Crash` possible between. `objects`
is the directory. The clock is three sets, of what has passed its time:
`expired`, `aged`, `stale`. `issued` is a history variable: the KEY that each
save returned, which outlives the rows. The refinement maps a photo to *none*
before its commit, *alive* while active and unexpired, *dead* after; and a
download to *reading* from its lookup on if the photo was alive then, to
*refused* if it was not. So `KeepsVault` says more than its parts: a step that
revives a photo, takes the bytes of a living one, or serves a late reader is not
a step of `PhotoVault`.

### RateLimit

Each resolve counts (`Record`), reads the count back (`Reread`), looks up
(`Lookup`), counts a failure (`RecordFailure`) or passes the gate (`Gate`); the
clock may move between any two. Both of the code's windows (15 min and 1 h) have
one `Width`; the clock is bounded by `MaxTime`. An id of the address, a KEY and a
malformed KEY are model values; `LifeGoesOn` makes KEYs come and go.

### Capture

A step is one event handler, timer callback or continuation after an await. A
stream is named by the `startCamera` call that opened it and a photo by the
`shoot` call that took it; both remember the generation at their start.
Status changes by a click are rendered at once; what a continuation tells
CreatePage takes effect at `GoOn`, so that other events come between. `on` is
the set of streams whose tracks run, `bitmaps` the decoded photos not disposed,
`source` the one CreatePage holds.

### Staging

Each visit of the final page is a panel with a call of its own on its way
(`wire`), which goes on when the panel is gone; `Saved` and `Deleted` then still
change the receipt. The server is what `SaveLease` shows it to be on one event
loop: one photo per session and key, replayed afterwards. `ConnectionLost` loses
an answer, or makes the request a ghost that `GhostHandled` may carry out later.
A request with no session is refused with SESSION_REQUIRED, and resent once.
`Offers` lists the buttons of each stage, of which `Clicks` is the guard: nothing
goes to the server before the confirmation, and an error that is left with "Back"
keeps its key for the next confirmation.

### Publication

A revision file holds a content or is Broken, `publications.json` likewise; both
carry a modification time. A request stats the revisions, stats the
publications and looks its key up (`StatRevisions`, `LookUp`), and on a miss
reads `publications.json`, lists the directory and reads file by file
(`LoadPublications`, `List`, `Read`); `Loaded` puts what it found under the key
of before and answers 200, or 304 if the client's copy has the same ETag.
A client's HTTP cache (`held`) keeps a catalogue with the tick at which it was last
asked for: while it is younger than `MaxAge` ticks, `Fetch` shows it and the server
hears nothing (`Fresh`, `FromCopy`), afterwards it is revalidated; `Wait` lets it age.
`Judge` is `_do_save`'s use of a fresh load. `New`, `NewFile`, `NewRead`,
`Rehash`, `WriteBack` are the tools, truncation and writing apart, `Interrupt`
kills them; `Edit`, `Publish` and `Restore` are a maintainer's. Assumed, because
the code relies on it: a change of status comes with the next
`publicationRevision`; revision files are not removed; two commands do not share
a tick of the file system's clock (a truncation and its write may). `versions`
is the history of complete publication files.

### SourcePhoto, SourceLoading, SaveImage, Pictures

`ParseHeader` walks the parts of a file as `header.ts` does, window and byte
order included; `Normalize` turns and scales the four corners of the picture;
`SourceLoading` is `loadSourceImage` as `Check` and `Decode`. `SaveImage` is
`validate_and_reencode` in its order of checks and `_encode_within` as `TryLower`,
`Keep`, `GiveUp`; the length each quality encodes to is data of the upload.
`Pictures` lets the page stage a JPEG of a size it offers (`Offered`, from
`allowedOutputSizes`), or any client send anything.

### EditTransform, Editor

The geometry is reduced to what the editor's decisions depend on: `Need`, the
least scale at which the frame fits for an output size and an angle, and one pan
coordinate whose room grows with the scale. `IsValid`, `ClampTranslation`,
`FitTransform`, `Project`, `Reproject` follow `edit-transform.ts` function by
function. `Editor` has an action per control; what the page enables, and the
handlers ask once more, is `MayCompose`, `MayRotate`, `MayMirror` (the template's
locks), `CanUndo`, `CanRedo`, `CanReset` and `MayGoOn`. `shown` is the transform
last rendered, from which handlers compute, `edit` the state they update; `Moved`
may happen several times before `Render`, other events are rendered at once.

### CropRules, FinalPage

`Guide` is what `overlay.ts` makes of a rule, `DrawnLines` the lines the editor
draws for it, `GeometryCheck` what `geometry-checks.ts` says of it, in output
pixels; the head ellipse is left out. A run of the effect in
`FinalPage` goes `Drawn -> Encode... -> Made -> Deliver`, with the bisection of
`searchQuality` step by step over the set of qualities that fit, and its
failures; `ChecksBuilt` comes after `Deliver` on its own. `view` stands for the
render matrix: a pan and a zoom, which `FollowAdvice` changes in the way the
advice of a check says (`Moved`; "crop tighter" zooms in). `Offers` is what the
page lets the user do: back and restart always, the file from when it is made.

### PhotoQuality, PoseTracking, Guide

`Update` is one frame through `tracking.ts`: primary face, smoothing with halved
weights, hysteresis of place and angles, stable time. `Guide` has `Mount` and
`Unmount`, `Loaded` and `LoadFails` of each landmarker, frames skipped and
inferred, `Says` for what it tells the user, and `Recheck` with a landmarker and a fresh tracker of its own. What a
recheck finds in the pixels is `AnalyzeQuality`, on grids of luma: ratios,
deviations and means are compared in integers, multiplied out, so that each limit
is exact. `background` is kept as the problems that the final page makes of it.

### Shell, CreateFlow, RetrievePage, App

`Shell` is `App.tsx`, layout and error boundary with the two answers pages wait
for. `CreateFlow` has an action per step change, selects whatever active template
some setting of the filters lists (`Offered`; the filters are forgotten with the
step), and decoding that ends whenever it likes (`PhotoReady`, `FileRefused`);
editor, camera, final page and panel only give their results there. `RetrievePage`
has two requests per lookup and one per deletion, handled and answered separately.

What the user does is rendered before the next event. What comes after an await is
not: `PhotoReady` and `CameraReady`, and the answers of `RetrievePage` (`Queue`), only
set the state, and any other event may be handled before `RenderPage` or `RenderStage`
shows it. In between the page on screen is the old one (`drawn`, `painted`), its handlers
read the old values (`shown`), and what they set is queued behind, as `Done` of an editor
whose photo was just replaced does. The effect that revokes a preview's URL runs
when a stage is rendered (`Rendered`), and so never sees a preview that another answer
replaced before. `App` adds navigation, which unmounts
a page and leaves its calls pending, rendering errors and reloads.

## Runs

| run | instance | properties |
| --- | --- | --- |
| `save` | 3 requests, 1 key, 2 contents, 1 loop, lease 1, window 1, clock to 2, a crash or a failing unlink | CommittedPhotoReplayable, NoSecondPhotoInWindow, AnswerMatchesContent, AnsweredSaveLeavesNoOrphan, EveryRequestAnswered |
| `photo_serving` | 2 photos for 1 KEY, 1 delete, 1 resolve, 2 downloads, a fault | SingleUse, DeleteOkMeansRevoked, KeyLeadsToItsPhoto, KeepsVault |
| `photo_erasure` | 2 photos, 1 delete, a fault, a crash | PurgedMeansBytesGone, EventuallyErased, OrphansSwept |
| `rate_limit` | 3 resolves, 2 addresses, 2 KEYs, limits 1, window 2, clock to 2 | IpLimitHolds, GateCountsFailures |
| `templates` | 2 revisions, one of them new, 4 contents, 2 clients, 2 cache entries, max-age 2, clock to 3 | TakedownsAreSeen, ServedAsReviewed, FailuresPass |
| `pictures` | files of every format, tag, part order and decoder; 7 templates, 3 caps, 17 uploads with 4 length tables | PhotosUpright, StoredPhotosComply, PageSizesAreTaken |
| `capture` | 3 camera requests, 2 shots | CameraOffAfterLeaving, PhotosAccounted, LateShotIsDropped, CapturingEnds |
| `staging` | 2 visits, 2 contents, 2 keys each, 2 sessions, 1 restart | RetryMakesNoSecondPhoto, ReceiptMatchesPhoto, UploadNeverReplaysDeleted |
| `editor` | 6 templates, 3 sizes, quarter turns, scale to 3, 2 fingers, 3 edits, 2 moves unrendered | LocksHold, EveryChangeCanBeUndone, SwitchedEditsFit |
| `final_page` | a template per rule, 7 browsers, 5 qualities, 3 runs, 1 advice | ChecksAreOfArtifact, SearchIsExact, ChecksAgreeWithGuides |
| `guide` | 3 landmarkers, 8 kinds of frame, gaps of 80 and 400 ms, 8 photos of 5 by 5 pixels | LandmarkersAccounted, ShootableMeansStable, BackgroundIsOutsideFace |
| `app` | 4 pages, 3 templates (1 locked, 1 not active), 2 uploads, 1 camera photo, 2 lookups, 1 deletion | EditsBelongToSource, BlankOnlyAfterLateUpload, NothingElseHeld, ShownAfterDeleteOnlyIfPending |

Why the bounds are enough to be interesting:

* Saves: with three requests one can hold the lease, one take it over and one
  replay; the clock runs past lease and window, so takeovers, expiries and the
  cleanup happen in all orders, with one crash or one failing unlink. Contents are only
  compared, so that of one request is fixed (`MCSpec`).
* Photos: two photos contend for one KEY, a token that is used twice needs two
  downloads. One fault at every step includes a rollback after an unlink; the
  crash, between a delete's two commits too, is in `photo_erasure`.
* Rate limit: with limit 1 a second request is over it; three requests and a
  clock that enters a second window put two in one window and one across.
* Templates: a clock to 3 lets a tool truncate and write two files, or a
  maintainer edit and publish; two clients share the server's cache; a cache of
  two entries (four in the code) evicts; a copy with max-age 2 is fresh over one
  publication and stale in the end.
* Pictures: every limit has a picture on it, one below and one above; the length
  tables include one that never fits and one that fits at a quality not tried.
* Capture: two requests race, the third is a reconnect after the race; two
  shots make the page replace a photo.
* Staging: a resend needs two keys; two sessions separate namespaces; the second
  visit meets the first one's late answer.
* Editor: an undo stack of two overflows at the third edit; a quarter turn fits
  only zoomed, or not at all; two moves before a rendering.
* Final page: three runs are a failure, a retry and a downgrade.
* Guide: two gaps of 400 ms reach the stable time, gaps of 80 ms are skipped;
  three landmarkers are one failing late, one in the slot and one for a recheck.
  Photos are rechecked in every order, but only two of them while a guide runs
  (`FewWhileGuiding`); they differ in face, background and what is missing.
* App: two uploads can be late for each other. A session uses the create page,
  the retrieve page or the privacy page (`OneFlow`), which share nothing but `Shell`.

Deadlock is checked in the `photo_*` runs, where the worker always can run
again, and in `editor`. The other systems may stop (every request answered, the
user gone, the clock at its bound), and their configurations say so. Types are in
no run: those of the modules with proofs are proved, as part of the inductive
invariants.

### Divergences between code and documents

Reproduced by a configuration that is not among the runs, or by a run's own with
another invariant, since TLC finds the property violated (`tlc -config X.cfg M`):

* `MCSaveLease_Takeover`: the takeover's UPDATE (`save_service.py:327`) names the
  key and not the condition that its SELECT saw, so on two event loops two saves
  take over one lease; `tests/test_contract.py:180` says "the same idempotency key
  must produce exactly one photo". On the one loop of the Docker image this
  cannot happen (run `save`, theorem `OnePhotoPerWindow`).
* `MCPhotoLifecycle_StuckObject`: one object whose unlink raises ends each run of
  the worker at the same place (`worker.py:148`), before later photos.
* `MCCapture_Residual`: a failed reconnect leaves the old camera running behind
  the "Open camera" button (`capture-step.tsx:128`; SPEC.md, "Stop residual tracks").
* `MCStaging` with `RoundTripMakesNoSecondPhoto` as its invariant: back to edit
  and return while the upload is on its way stages the photo twice ("so the
  server never ends up with a second photo from this round trip",
  `create-page.tsx:77`).
* `MCEditor_Final`: undo, redo and reset keep the out-of-bounds warning of the
  transform they replaced, so that Done hands over a crop which
  `final-artifact.ts:157` refuses.
* `MCSourceLoading`, two properties (`tlc -continue` shows both): the matrices
  of tags 6 and 8 are swapped (`exif.ts:50`), so that a decoder that does not turn
  the photo leaves it upside down (`UprightForEveryTag`; `exif.test.ts`, "rotates
  90 CW for orientation 6", "top-left -> top-right"); the size of a plain lossy
  WebP is read from its start code (`header.ts:180`), so that good photos are
  refused (`GoodPhotosAccepted`).
* `MCGuide` with `FailureIsSaid` as its invariant: an exception of `detectForVideo`
  ends the frame loop without a word (`pose-guide.tsx:3`, "on model failure it only
  says guidance is unavailable").
* `MCGuide` with `ConfirmPageWarnsOfAll` as its invariant: a background that was
  measured and is uneven is warned of by the final page (`checks.ts:254`) and not
  by the confirm page (`static-check.ts:102`), which may even say that the recheck
  found no obvious issues (`review-step.tsx:6`, "Static-recheck results are also
  given here, rather than first appearing at the final page").

Noticed while modelling, with no configuration:

* Photos: `download` consumes its grant with an UPDATE that asks only for
  `consumed_at IS NULL` (`routers/retrievals.py:175`), where SPEC.md section 7
  wants status, expiry and epoch in the same update. A delete that looked the
  photo up before another purge committed sets a purged row back to
  access-revoked (`routers/saves.py:126`). A database error in delete's lookup, or in the
  rollback of its UPDATE, is answered 204 by the outer except with the photo alive
  (`routers/saves.py:157`), where the inner one answers 503 because "reporting success when the
  revocation did not land is a direct privacy incident" (`routers/saves.py:133`); hence the
  exception in `DeleteOkMeansRevoked`. A save whose unlink raises leaves its bytes to
  the orphan sweep (`storage.py:46`). `resolve_ipv4_24_limit` (`config.py:67`) is
  read by no one.
* Templates: removing a revision file that is not the newest does not change
  `_content_key` ("When content changes the cache key changes",
  `routers/templates.py:28`). A status changed without `publicationRevision` keeps
  the ETag. `must-revalidate` does not keep a cache from serving a fresh copy for
  its 300 s, as the comment at `routers/templates.py:21` has it: a page may show a
  template that was taken down up to `max-age` ago, and `TakedownsAreSeen` promises no more. `clearTemplateCatalogCache` is
  called by tests only. Export does not re-confirm the pinned version (SPEC.md:634);
  staging does. While a tool writes, or after it was killed, every template
  request and every save fails. Every re-encoding has a cap, so the branch "fixed-92"
  of `_encode_within` is dead. The schema allows a ranged template whose default
  breaks its own list, range or aspect: the page offers it and the server refuses
  it; hence `Consistent` in
  `PageSizesAreTaken`. Nor does anything compare a template's sizes with the service's
  limits of pixels and edge (`config.py`): a template may offer a size whose every
  photo is refused as too large; hence `WithinLimits`.
* Source photos: EXIF in big-endian byte order, and EXIF after the image data of
  a WebP, are not read; of two EXIF segments the last one in the window counts
  (`header.ts:118`), so `Readable` asks for one; a JPEG whose frame lies beyond the
  first 64 KB is refused.
* Camera: `startCamera` opens the new stream before it stops the old one; a
  `play()` that settles after the hidden-page timer sets the status to live
  without a stream; the hidden-page timer is armed only while live.
* Create page: a file decoded after Back or restart replaces the photo, throws
  the edits away and may leave a blank step; one decoded after leaving leaks its
  bitmap. If the editor is open by then, a click on "Done" that is handled before the
  new photo is rendered hands over the old photo's edits after `replaceSource` has
  dropped them ("previous crop parameters no longer correspond to anything",
  `create-page.tsx:145`); hence the exception in `EditsBelongToSource`. `stagedStale` compares source and transform but neither template nor
  size (`create-page.tsx:352`). The notice of a template switch stays.
* Editor: a typed zoom may be negative, and typed or rotated scales exceed
  `MAX_SCALE`; scale 0 throws. Rotating by 90 degrees multiplies the scale each
  time. Rotating there and back under a composition lock keeps the zoom.
* Final page: `face_center_offset_x` without a bound falls back to the centre
  line, not "to the canvas edge" (`overlay.ts:76`); advice for an interval that
  excludes the centre points the wrong way ("recenter"), hence `OffCentre`. A head
  that is too long is told to "crop tighter or move further from the camera"
  (`geometry-checks.ts:132`): cropping tighter makes it longer, and
  `ChecksAgreeWithGuides` says so. The one
  template with such an interval is `jp-passport-paper@1.json:103`, whose 15 to 19 mm
  ("horizontal centre 17 mm") are measured from the photo's edge, while `overlay.ts:106`
  and `geometry-checks.ts:271` take them from the centre line: the band lies at
  the right edge, and a centred face is warned of. The template is `reference_only`,
  which the create page does not list. A rule with its bounds in reverse order is
  drawn and never passes, hence `InOrder`; a rule with only a maximum passes a
  chin cut off by the canvas. `MAX_QUALITY` is never tried. A failure of
  `buildChecks` shows an error beside the artifact.
* Retrieve page: Enter has no guard against a pending lookup; a lookup pending
  while the deletion is answered shows the photo beside "Delete submitted"; an
  answer after unmounting leaks its object URL, and so does a preview that another answer
  replaces before it is rendered ("the single blob URL release point",
  `retrieve-page.tsx:49`).
* Shell: the privacy page's retry does not clear its error; the detail page does
  make a network call on a direct load (`template-detail-page.tsx:5`); the error
  boundary's retry remounts the create page without its photo.
* Pose: `releaseLandmarkers` is called by tests only; frames whose matrix is
  unusable keep counting as stable time.

## Fairness

* `SaveLease`: weak fairness of each request's next step, database errors while
  it seeks its lease left out (`Proceed`): an event loop goes on with what it
  has started, and no request needs an error to be answered. Arrivals, clock,
  cleanup and crashes have none. A request of a crashed loop is not obliged to
  anything.
* `PhotoLifecycle`: weak fairness of the steps of each started request and of
  the worker, whose loop (`run_periodically`) sleeps, runs, logs what fails and
  goes on. Faults are bounded, as a disk or a lock that fails for ever lets
  nothing be promised; deletes, resolves and expiries have no fairness: they are
  what the properties start from.
* `Capture`: weak fairness of a shot that has begun (`takePhoto` is raced with
  a timeout of two seconds, decoding ends or throws) and of rendering the next
  page. `startCamera` has none: a permission prompt may stay open.
* All other modules state safety only.

## Proofs

Eight modules hold proofs, about every component that is modelled. They hold for
every value of the constants, so for any number of requests, photos, clients,
contents, ticks, faults and crashes. "Assumes" names what a theorem needs beyond the `ASSUME` of its module,
which only gives the constants their types, keeps `None` and its like apart from the
data, and states what the code has as constants of its own: a threshold that widens
after "ready" does not narrow (`Exit >= 10` in `TrackingAssumption`), a file's header
window ends with its parts and no edge is longer than its format can say
(`LoadingAssumption`).

Three modules hold the proofs of two components that belong together and share no
state, so that one module can extend both: `AppProofs` with `RateLimit` (the
retrieve page's lookups are counted first), `GuideProofs` with `Capture` (the guide
runs on the camera's page), `PicturesProofs` with `SaveLease` (a save under a lease re-encodes the picture).
For this `RateLimit`, `Capture` and `SaveLease` name their parts after themselves
(`LimitSpec`, `CaptureSpec`, `SaveSpec`).

| module | theorem | property | assumes |
| --- | --- | --- | --- |
| `PhotoLifecycleProofs` | `KeyIsNeverReissued` | KeyLeadsToItsPhoto | |
| | `PurgeIsPhysical` | PurgedMeansBytesGone | |
| | `OkMeansRevoked` | DeleteOkMeansRevoked | |
| | `TokenIsSingleUse` | SingleUse | |
| | `ServiceKeepsVault` | KeepsVault (refinement of `PhotoVault`) | |
| `PicturesProofs` | `StoredComply` | StoredPhotosComply | |
| | `PageSizesTaken` | PageSizesAreTaken | |
| | `PhotosAreUpright` | PhotosUpright | |
| | `AnswersMatch` | AnswerMatchesContent | |
| | `NoOrphanOfAnsweredSave` | AnsweredSaveLeavesNoOrphan | |
| | `LeaseHasOwner` | ProcessingHasOwner | |
| | `CommittedIsReplayable` | CommittedPhotoReplayable | `SingleLoop` |
| | `OnePhotoPerWindow` | NoSecondPhotoInWindow | `SingleLoop` |
| `PublicationProofs` | `TakedownIsSeen` | TakedownsAreSeen | |
| | `ContentIsAsReviewed` | ServedAsReviewed | |
| | `FailureIsOfTheDisk` | FailuresPass | |
| `GuideProofs` | `NoLandmarkerIsLost` | LandmarkersAccounted | |
| | `ReadyMeansHeld` | ShootableMeansStable | |
| | `CameraIsReleased` | CameraOffAfterLeaving | |
| | `NoPhotoLeaks` | PhotosAccounted | |
| | `LateShotsAreDropped` | LateShotIsDropped (action property) | |
| `FinalPageProofs` | `SearchExact` | SearchIsExact | |
| | `ChecksOfArtifact` | ChecksAreOfArtifact | |
| | `ChecksAgree` | ChecksAgreeWithGuides | |
| `EditorProofs` | `LocksAlwaysHold` | LocksHold | |
| | `ChangesCanBeUndone` | EveryChangeCanBeUndone (action property) | |
| | `SwitchedEditsAreValid` | SwitchedEditsFit (action property) | |
| `StagingProofs` | `RetriesAreIdempotent` | RetryMakesNoSecondPhoto | |
| | `ReceiptIsTrue` | ReceiptMatchesPhoto | |
| | `DeletedIsNotReplayed` | UploadNeverReplaysDeleted | |
| `AppProofs` | `NoForeignEdits` | EditsBelongToSource | |
| | `OnlyLateUploadsBlank` | BlankOnlyAfterLateUpload | |
| | `NothingLeaks` | NothingElseHeld | |
| | `DeletedIsNotShown` | ShownAfterDeleteOnlyIfPending | |
| | `IpLimitCorrect` | IpLimitHolds | |
| | `GateCorrect` | GateCountsFailures | |

`PhotoLifecycleProofs`, `EditorProofs`, `StagingProofs` and `AppProofs` also state
`TypeCorrect`, `PicturesProofs` `LeaseTypeCorrect` (of `SaveLease`). Each inductive
invariant was checked by TLC as an invariant of its run before it was proved. None of the properties is inductive by itself;
what has to be added, and why, is the content of the proofs:

**SaveLease.** On any number of loops (`AnyLoopInv`) one needs that a loop runs
one save at a time, that a committed photo's request is done, that a request's
object exists exactly while it has stored and not failed, unless its unlink
raised (`littered`), and that a completed
row is the work of the photo in its envelope, with its key, digest and start
time. From the last, a replay is of the content that was sent. On a single loop
(`SingleLoopInv`) the heart is `NoFreshRival`: whoever may still commit (holds
the lease, or has decided to take it over) has no committed photo of its key in
its window. It is established when the lease is taken, because a fresh photo's
row is there and completed, so the request would be refused or answered with a
replay; and nobody else can commit until the request is done, because the loop
is its own. A row is purged only when it is past the window *since its last
update*, which the completed row has from its photo's start: that keeps
`CommittedPhotoReplayable`. `SingleLoop` says that all requests share one event
loop, which is how the image starts uvicorn (one process, no `--workers`);
without it the two theorems are false (`MCSaveLease_Takeover.cfg`). The proofs do
not need the lease to be shorter than the window.

**PhotoLifecycle.** The invariant speaks of the committed tables and of the
writer's view alike (`TableInv(db) /\ TableInv(tx)`), so that a commit makes true
nothing new and a rollback loses nothing; `LockInv` says that the two differ only
while somebody holds the lock. Of the tables: a row carries the KEY its save
returned and the registry forgets none (`RowInv`); a live row has its bytes and a
purged one none (`BytesInv`); a grant belongs to a resolve that was given it
(`GrantInv`), is consumed once somebody passed with it (`SpentInv`), and who saw a
photo dead will find it dead (`DeathInv`). `WorkInv` is what makes it work: an
uncommitted transaction takes away expired photos only, and what the orphan
sweep has listed is an orphan for good. `SingleUse` is then an invariant step
of its own, since the worker may drop a consumed grant. `ServiceKeepsVault` is proved step by step (`VaultStep`): a
commit of a save is *Keep*, of a revocation or an expiry a death (`PhotoDies`), an
unlink a loss of bytes (`BytesGo`), the statements of a download the vault's
reader; everything else stutters.

**RateLimit.** `PlaceInv`: every counted request has a place of its own in its
window, no higher than the count, so that no more than the limit have an early
one; it is what two interleaved statements keep although the second reads a
count that others have raised since. `FailInv`: a count is the number of the
requests that failed with this KEY in this window. `Requests` is finite.

**Publication.** The disk: a complete `publications.json` is the latest version,
and a tool that is writing holds one that may follow it (`DiskInv`, `ToolInv`); a
`publicationRevision` stands for one status and only grows (`HistoryInv`). The
readers: a catalogue is loaded *with one version*, that of the publications read
first, whatever happens to the files after that, because each file is judged by
it (`RequestInv`); what is cached under the present time of `publications.json`
was loaded with the present version (`LoadedUnder` in `CacheInv`), which is why the
key must be taken before the load; and a copy that a client holds was published
in a version since its client asked the server (`GoodCopy`): it may be shown while it is
fresh, and later an equal ETag means equal contents and, by `HistoryInv`, equal
statuses (`SameVersion`). `CalmInv` gives `FailuresPass`.

**Capture.** `GenInv`: no call is younger than `genRef`, and once the step has gone
every call under way is older; `TrackInv`: only the stream in `streamRef` may
run, and none when the step has gone.

**Guide.** `SlotInv`: a slot holds a landmarker that is loaded, or one that is
loading and wanted; who is wanted no more while it loads is `doomed` and in no slot;
the two slots differ; and the guide's slot is empty without a guide. It is the last
three that make a late failure harmless: it can only empty the slot that is its own.
`PoseInv`: the tracker's stable time is never longer than the time the face was in
reach (`strayed`, which a frame out of reach resets), because whatever hysteresis still
lets pass counts as in reach (`InPositionWidens`: the wider limits contain the
narrow ones) and both clocks are capped at `StableMs` alike (`AgedIs`). The tracker's
choice of face and its smoothing are lemmas (`PrimaryIs`, `JudgedIs`, `UpdateIs`).

**FinalPage.** `SearchInv` is the loop invariant of the bisection: the upper bound
does not fit, the lower is the best quality found, or 0 while there is none. The
search ends when the bounds are neighbours, so that for a monotone encoder nothing
above the one kept fits; that the range is halved is not needed for it.
`ShownInv`: checks are built of the artifact shown only, as no run starts while
there is no error; a built check is `BuildChecks` of the artifact, and
`ChecksOfArtifact` computes it. That the density is read where it was written
(`DensityIsRead`) is about the segment lists. `ChecksAgree` is about the operators alone:
`MarginsAgree` and `OffsetsAgree` follow a rule from its bounds (`BoundsAre`) through
guide and check, for every size, density and anchor; `ProjectionIs` has the zoom and pan of
a face's anchors, from which `TighterIsLonger`.

**Pictures.** `ServerInv`: every quality tried above the present one was too long. The
search goes down from 92 by 4, or by 1 where that would pass the floor; `Steps` shows
that it leaves none out and ends at 40, as 52 is divisible by 4. `PageInv` says that what the page
sends is one of its artifacts, from which `NoComplaint` derives that the server's
reading of the template finds no fault with the size. `PhotosUpright`: `WalkFinds`
(a walk over the parts stops at the first frame or the window, and reports the
one EXIF part that stands before both), `HeaderIs` (so that a tag is read whenever
`Readable`), `DrawnOnCorners` and `PlacesAre` (what each of the eight matrices does
to the corners, for every size), `CanvasIs` (the working size keeps to the budget: the
rounded roots are at most half a pixel off, `AreaIs`).

**Editor.** For any templates, sizes, photos (`Need`), fingers and lengths of the
stacks. `LocksHold` is about `edit` and `saved`; handlers compute from `shown`,
which pointer moves leave behind, so the invariant (`LawInv`) has that `shown` too
is allowed by the template (`Lawful`), and every transform of both stacks. The
algorithms are lemmas: fitting changes scale and pan only, keeps what is centred
centred and leaves an upright centred frame at scale one (`FitIs`), because `Need`
is one there (`Upright`), so that it keeps to every lock (`FitLawful`); clamping
brings the pan within the photo whenever the scale allows it at all (`ClampIs`);
and `Project`'s last resort, the untouched photo, fits every size (`IdentityIs`),
from which `SwitchedEditsFit`. A template that locks the composition undoes no
pan: it is reached with earlier edits only by selecting it once more
(`ProjectIs`).

**Staging.** The hard part is that a key may be given up while a request with it
is still on its way. `FreshOk`: a key that may still be uploaded with names no
photo that anybody refers to. `OrderOk`: sessions only grow, so what was asked
with a key that was given up belongs to an earlier session than anything to come,
unless its photo is deleted; hence two photos of one panel and session have one
key. `StageOk` and `KeyOk` tie panel and call together, `AskedInv` bounds what the
server may have of a visit.

**App.** `LoadInv` and `AwayInv` say what may still be pending when a page is gone,
`StepInv` that a step has what it needs unless a photo came too late, `BitmapInv`
and `UrlInv` who holds what is decoded, `AfterDeleteInv` that lookups which are
pending after a deletion were pending before it. `DrawnInv`: the page on screen differs from
the one set only when a photo has just come, without edits, to the upload or camera step
or else too late; `StepInv` then speaks of both pages (`Fits`), and `UrlInv` of what is
painted and of what will be. It assumes that an edit record is
no photo, no template and not `None`.

What stays with TLC, and why:

* Liveness (`EveryRequestAnswered`, `EventuallyErased`, `OrphansSwept`,
  `CapturingEnds`): TLAPS here proves nothing under fairness.
* `BackgroundIsOutsideFace`: it compares means and deviations of sets of pixels,
  which are folds; that a sum does not change with a pixel outside its set is an
  induction over the set, which cannot be instantiated here. The run `guide`
  checks it on photos that differ in the face only.
* What a rule with bounds out of order, or beside the centre line, is told
  (excluded by `InOrder` and `OffCentre`, see the divergences above).

## Not modelled

* What is data only: scaling and drawing of pixels, matrix decomposition
  (`angles.ts`), coverage and upscale figures, all floating point; wording,
  layout, logging, HTTP headers; names of templates; `perf.ts`, which measures in development builds.
* The second pan coordinate of the editor: it is handled like the first.
* Text of `publications.json` beyond status, hash and revision; the JSON schema.
* The migration of `init_schema` (idempotent DDL) and `Storage.clear_all` (tests).
* HMACs are taken as injective; KEY sampling is a pure function of random
  numbers; timing (the constant response time of resolve) is outside the model.
* Shared HTTP caches between browser and server: a copy they serve carries its age,
  which counts against the same `max-age`.
* The service of MediaPipe and its vendored WebAssembly
  (`public/assets/models/wasm`, generated third-party code and half of the
  repository's lines): only that creation takes time, may fail, and that a frame
  gives faces or an exception.

## Plan

Modelled and checked: every part of the inventory but the stateless HTTP shell
and the build. Proved: all safety properties of the runs but one, 35 of their 40
properties; the rest is liveness and sums over pixels. What is left:

1. A bound on the number of steps of the quality searches, as an invariant in place
   of termination under fairness.
2. Which controls of the pages that only draw are on screen in which state.
3. The second pan coordinate of the editor, and the pixels of the head ellipse.

# Revaro: specifications, model checking and proofs

Revaro is a self-hosted file server: one process (`src/crates/revaro-server`,
axum and tokio) over one SQLite database and one directory of objects. This
directory specifies its core in TLA+: what the rows, the files and the requests
that work on them do when requests overlap, clients leave, the process dies and
calls land late.

| file | what it is |
| --- | --- |
| `UploadSession.tla` | one upload session: rows, files, requests, jobs, faults |
| `UploadPublication.tla` | what a session promises, without requests or files |
| `UploadSession_proof.tla` | theorems about `UploadSession`, checked by TLAPS |
| `UploadIntact_proof.tla` | the published object is intact and on disk |
| `UploadCreation.tla` | `POST /api/uploads`: keys, reclaim, name conflicts, staging directories |
| `UploadCreation_proof.tla` | theorems about `UploadCreation` |
| `UploadLocks.tla` | the session's locks as queues, and how requests take them |
| `UploadLocks_proof.tla` | theorems about `UploadLocks` |
| `FileTree.tla` | directories, moves, copies, the trash and the directory counters |
| `FileTree_proof.tla` | theorems about `FileTree` |
| `BlobReferences.tla` | document saves and versions, the cleanup queue, the collector |
| `BlobReferences_proof.tla` | theorems about `BlobReferences` |
| `MediaProgress.tla` | playback positions: players, outboxes, the network, the server |
| `MediaProgress_proof.tla` | theorems about `MediaProgress` |
| `CatalogueReads.tla` | cached catalogue reads over the connection pool |
| `CatalogueReads_proof.tla` | theorems about `CatalogueReads` |
| `MC*.tla`, `*.cfg` | instances for TLC |
| `PROJECT.json` | the runs, the code each definition models, hazards, findings |

Run `tlc -config UploadSafety.cfg MCUploadSession.tla` (or another pair of the
table under *Runs*) and `tlapm UploadSession_proof.tla` (or another `_proof` module).

## 1. Inventory

Paths are below `src/crates/revaro-server/src` unless they start with a crate.

**Upload sessions** (`upload_routes.rs`). State: a row of `uploads` (status
pending/completed/aborted, `commit_state` receiving/assembling/staged, deadline,
staged tag and hash), rows of `upload_parts` (one acknowledgement per part), and
the pending row of `files` that reserves the name. Operations: create (with an
idempotency key, reclaiming an expired placeholder of the same name), PUT of the
body or of a part, acknowledge a stored part, complete, abort; the jobs
`upload-commits` (resume) and `uploads` (expire). Hard: every handler awaits the
disk and the database many times, a client may leave at any await, and a call
submitted to the blocking pool is not cancelled with it. Correct when: what is
published is one intact, durable object made of the accepted bytes; an answer
is final; a commit that began is concluded; expiry never removes such a commit.

**Upload locks and budgets** (`state.rs`). A `RwLock` per session (part writers
share it; completion, abort and expiry are its writers), a mutex per part, both
in maps that drop unused entries, a semaphore of I/O slots and a disk-space
budget. Correct when: guards exclude each other while map entries come and go,
nobody waits for ever, and no permit is lost or invented.

**Local object store** (`storage.rs`). Files under keys; written under a
temporary name, fsynced, renamed, directory fsynced. The entity tag is size and
modification time, never the content. Multipart parts live in a directory per
session and are copied into the object. Correct when: a name never shows partial
bytes, and survives a power loss once its operation has answered.

**Maintenance** (`maintenance.rs`). A single loop runs named jobs one after
another, each with an interval, a timeout, exponential backoff and `wake`:
recovery and expiry of uploads, trash retention, the `object_cleanup` queue,
garbage collection, session and cache pruning. Correct when: no referenced
object is deleted, every unreferenced one eventually is, no wake is lost.

**Database** (`db.rs`). A pool of connections behind admission and worker
semaphores; statements run on blocking threads and hold their permits
themselves. A revision counter is bumped when a connection that wrote returns.

**File tree** (`file_routes.rs`, `listing_routes.rs`). Directories, moves with a
cycle check, copies sharing object keys, trash (mark the subtree, detach its
root), restore, purge; unique names among live siblings. Correct when: the live
rows form a tree, names are unique, trash and restore are inverse.

**Document versions** (`version_routes.rs`, `update_document`). Saves write a
new blob, snapshot the old one (twenty at most) and swap keys under a tag check.
Correct when: no save is lost and no referenced blob is deleted.

**Media progress** (`revaro-core/src/progress.rs`, `save_media_progress`).
Versioned writes with writer, sequence and revision; listening sessions in the
same transaction. Correct when: a position is never overwritten by a writer that
had not seen it, and a retry is recognised.

**Library, stacks, batches** (`library_routes*`): catalogue rows, one
transaction per operation. **Authentication** (`auth/*`): one user, sessions,
TOTP, an attempt limiter over time windows. **Query cache** (`query_cache.rs`):
responses stamped with the database revision. **Cache** (`cache.rs`,
`memory.rs`): derived data bounded by bytes. **Delivery** (`delivery.rs`,
`transfer.rs`, `batch_download.rs`, `file_access.rs`, `proxy.rs`): ranges,
archives, permits held by response bodies. **Media and reader**
(`media_routes.rs`, `reader_routes.rs`, `revaro-media`, `revaro-reader`):
derived objects under per-key locks. **Sharing, galgame, administration, HTTP
shell, web client**: see `PROJECT.json`.

How they interact: handlers call the store and the database directly and share
only the locks above; jobs call the same functions as handlers
(`recover_upload_commits` calls `finalize_upload`). Deleting rows queues object
keys through triggers, jobs consume the queue. Deleting an unfinished file row
removes its session by foreign key, without the session's lock.

The hard behaviours, each at its line and with the properties that cover it,
are the `hazards` of `PROJECT.json`.

## 2. Plan

Written in this order, most important first.

1. `UploadSession` with `UploadPublication`: how bytes become a published file.
2. `UploadLocks`: the locks `UploadSession` takes for granted.
3. `UploadCreation`: how sessions come to be.
4. `FileTree`: where a row is, with checks and transactions apart where the code
   has them apart.
5. `BlobReferences`: what keeps a blob, and what removes it.
6. `MediaProgress`: the one protocol with the client as a partner.
7. `CatalogueReads`: the cache above the database and the pool below it.

How they meet. `UploadSession` uses the locks of `UploadLocks` as guards and
begins where `Insert` of `UploadCreation` ends. In `FileTree` an upload is three
steps (`Reserve`, `PublishUpload`, `DropUpload`); in `UploadSession` and
`UploadCreation` the tree is two (`DeletePending`, `ToggleTrash`; `TrashParent`).
`BlobReferences` has one bit of the tree, whether a document is in the trash.
The pool of `CatalogueReads` is what every statement of the others runs on: a
closure with its permit runs to its end (`Land` in the others).

What is left for a later step: the scheduler's wakes and deadlines, the listening
half of a progress packet, single-flight loads of the cache, authentication.
Every safety invariant and every action property the passing runs check is a
theorem (section 12), and so is the refinement; what is left to TLC alone is
liveness. No module declares a RECURSIVE operator.

## 3. UploadSession

### State

| variable | code |
| --- | --- |
| `row` | the `uploads` row (`status`, `commit_state`, `cleaned`), `upload_parts` and the staged tag and hash (`ack`), and the `files` row (`file`, `trashed`, `published`) |
| `mode`, `expired` | the session's mode; whether `expires_at` has passed |
| `obj`, `durable` | what a key holds (bytes, modification time), and what a power loss would leave |
| `pc`, `loc` | where each handler or job is, and its local variables |
| `late` | calls submitted to the blocking pool whose handler is gone |
| `clock`, `puts`, `faults` | modification times and the bounds' counters |
| `told`, `heard`, `upset` | history: hashes answered 204, lifecycle answers, and which disk hazards have occurred |

A row that does not exist any more has status `"gone"`. `aborted` is never
visible: the statement that writes it deletes the `files` row in the same
transaction, and the foreign key takes the session with it. The
acknowledgement of the object itself (`ack[Blob]`) is `staged_etag` and
`content_hash` of the session row. Bytes are payloads; the assembled object is
the function from parts to payloads; a SHA-256 is the bytes. Sizes are all
correct: a wrong one is refused before anything changes.

### Actions

A step is the code between two awaits at which somebody else may change what
the next step reads. So the checks of `upload_content_part` and its streamed
body are one step (`PutBegin`), and its rename, directory fsync, and statement
are one each (`PutRename`, `PutSync`, `PutAck`). `Acked`, `Frozen`, `Staged`,
`Committed`, `Aborted`, `Swept`, `Recorded` and `Cleaned` are the SQL statements
as functions of the row with their WHERE clauses (`CanAck`, ...); they are apart
from the actions because a statement may run without its handler.

- PUT: `PutBegin`, `PutAccept` (bytes already known: compare and head only),
  `PutRename`, `PutSync`, `PutAck`, `PutReply`; legacy acknowledgement:
  `RecordBegin`, `RecordAck`.
- Completion, by a client (`CompleteUpload`) or the recovery job
  (`RecoverCommits`): `FinishBegin`, `FinishFreeze`, then per phase
  `FinishReuse`/`FinishSync` (an object is there), `FinishCheckParts`,
  `FinishRead`, `FinishRename`, `FinishSettle` (assemble), `FinishStage`,
  `FinishVerify`, `FinishCommit`, `FinishClean`, `FinishMark`, `FinishReply`.
- Removal: `AbortBegin` (`expired_only` is `create_upload` reclaiming a name),
  `AbortTx`, `AbortParts`, `AbortBlob`, `AbortReply`, `AbortCompleted`; expiry:
  `SweepLoad` lists, `SweepBegin` locks, `SweepTx` deletes under the WHERE clause.
- Around it: `DeletePending` (delete of the unfinished file, or purge of its
  directory), `ToggleTrash` (its directory goes to the trash or comes back),
  `Expire`.
- Faults: `Interrupt` (error, client gone, job timeout: guards are released; a
  rename or statement under way moves to `late`), `Land` (it runs), `Crash`,
  `PowerLoss` (names not fsynced may go back), `CleanupFails` (removing files
  fails, half-way for a directory). `Refuse` collects the failing checks.

Guards are derived from where a process is: `PartGuard` and `WriteGuard` are the
labels at which the code holds them. How guards are obtained is `UploadLocks`.

Left out: a detached `remove_dir_all` or `remove_file` is not kept in `late`,
because after the session is gone or completed nothing reads what it removes
(a completed session's object is not among the files a completion removes); a
directory fsync that the file system refuses with PermissionDenied (the code
treats it as done); temporary files; the staging sweep of old temporary files;
the object-cleanup queue, which may remove `obj[Blob]` of a session that is gone.
Changes to a published file are the business of the file tree.

### Properties

`TypeOK` is the type invariant. `PublishedIntact`: a ready file has the object
its metadata describes. `PublishedDurable`: a power loss cannot take it.
`AcceptedIsPublished`: what is published under a key is what every answered PUT
of that key was told. `StagingRetained`: from the freeze on, the parts or the
object that recovery needs are there. `PartsFrozen`: acknowledgements that
arrive late do not exchange the parts under a commit. `AnswersHonoured`,
`AnswersFinal`: a completion that was reported stays published and a removed
session is not published. `ExpirySparesCommits`: neither the job nor a
reclaim removes a session whose commit began, although both looked before they
had the lock. `CommitsConclude`: a commit that began ends, unless the file stays
in the trash. `ImplementsPublication`: the refinement below.

`Undisturbed` and `upset` name the two histories under which the bytes
properties do not hold, and these are exactly the findings: a detached rename
that lands after its guards are gone ("overrun"), and, for a single upload
whose PUT writes the object itself, a rename whose directory fsync was lost
("torn"). Apart from these histories the properties are checked with detached
calls and power losses switched on.

`UploadPublication` says what a session promises: each key takes its bytes once
while the session is open, completion closes it (adopting bytes a client had
stored but never acknowledged), and what is published is what was accepted.
The refinement takes the acknowledged hash as the accepted bytes.

## 4. UploadLocks

`queue`, `free`: a tokio semaphore per lock object, first come first served; the
session's `RwLock` is one with many permits, a writer taking them all.
`granted`, `waits`: what a request holds, and where it queues. `Plan` is the
order in which each kind of request takes its locks, as the handlers do.
`entry` is the object each map entry points to, `LookUp` the lookup with its
`retain`: an object nobody holds or waits for is replaced by a new one.
`create_upload` also locks its idempotency key; it takes that lock first and
only then a session's, and nobody takes them the other way round. A database
permit is held only while a statement runs, never while waiting for these locks.

`Exclusive`: lifecycle requests exclude everybody, each part has one writer.
`TypeOK` includes that no semaphore is overdrawn or overfilled, also when a
waiting request is dropped. `NoStandstill`: of the requests under way one can
always go on. `Served`: each request is answered. Both make an exception of the
entanglement of finding 4. A one-block PUT is that exception: its kind is
included so that it is in everybody else's way.

## 5. UploadCreation

Several requests to create an upload of one name in one directory. `row` is the
`uploads` row of each session with its `files` row: `named` says that it has
this name in this directory, `trashed` that it is in the trash. `parent` says
that the directory is not; `dirs` are the staging directories. What happens
inside a session is one step each here (`Commit`, `Complete`, `End`, `Expire`,
`DeleteFile`, `MoveAway`): its details are `UploadSession`, which starts where
`Insert` ends.

`create_upload` is the sequence `Begin` (the key's lock), `LookUp` (the session
of the key), `AbortLoad`, `AbortTx`, `AbortFiles` (reclaim, of that session or
of the one `Find` sees under the name), `Reload` (who won instead),
`CheckParent`, `Make` (directory), `Insert` (`CanInsert` is the WHERE EXISTS and
the two unique indexes) and `Undo`. All sessions are multipart: a single upload
has no directory, and otherwise the same path. `Sessions` bounds the ids ever
generated, so a request begins only while there are enough of them.

`ParentLive`: no upload is in place in a directory that is in the trash, though
the first look at the directory is long past when the insert runs.
`StagingMatches`: a refused upload leaves no directory, and none is taken from a
session that still receives parts. `left` names the directories that are left on
purpose to the periodic sweep: of interrupted requests and of deleted rows.
`OwnSessionKept`: a request with a key is not refused because of the session
that the same key already made, unless an insert landed after its request had
given up the key's lock (`overrun`): then a retry that looked the key up just
before is refused once with 409, and the next is answered. `Answered`: nobody
waits for ever, though a reclaim takes a session's lock inside the key's lock
and may lose the session it waits for. The fairness is that of section 10; for
the session's lock it is strong, because the lock is a queue.

## 6. FileTree

`row` is the `files` table as far as places go: parent, name, whether the row is
ready, `restore_parent_id` and `trash_root_id` (`troot`; `deleted_at` is set
exactly when it is). `stats` is `directory_stats.file_count`, kept by the
triggers of migration 001, which run row by row inside the statements: `Recounted`
is the insert, delete and update triggers, `Carried` the move of a live row.
`Constraints` is what SQLite enforces (`files_unique_name`, the foreign key): a
statement that breaks it changes nothing (`Write`). `used` are the ids generated.

Operations in one transaction or statement are one action: `InsertFile` (an
upload's placeholder or a document, whose INSERT checks its parent itself),
`PublishUpload`, `DropUpload`, `Rename`, `Move` (with the recursive cycle check),
`Copy`, `EmptyTrash`, and `CleanupTrash`, a batch of the retention job, which
deletes leaves first and may stop anywhere. Four handlers look first and change
in a later statement or transaction: create_directory, delete_file, restore_trash
and purge_trash. They are `Check...`, which leaves what it found in `job`, and
`CreateDirectory`, `TrashItem`, `DropItem`, `RestoreItem`, `PurgeItem`.

Between the two anything may happen, and the code does not look again. `stale` is
the set of the items that were changed although what their request had found of
them no longer held. That is the finding of this module; these are the histories:

- Two deletions, of an item and of its directory, both look their rows up; the
  directory goes first. The item's own transaction then finds no live subtree to
  mark, and detaches it all the same (`file_routes.rs:533`): its `trash_root_id`
  is the directory's, its parent is NULL. It is reachable from no item of the
  trash listing, against the comment at 519-521, and restoring the directory
  leaves it live with no parent.
- Two deletions of one item: the second sets `restore_parent_id` to the NULL
  parent, and a restore goes to the root.
- The parent that restore_trash or create_directory has checked goes to the
  trash before the row is attached: a live row below a trashed one. When it was
  moved into what is being restored, parents form a cycle.
- An item found in the trash is restored before purge_trash deletes it: the live
  subtree is erased.

The properties do not stop there. They are about what such a transaction does, and
about every transaction after it, and say how far the damage goes:

- `LivePlaces`: a live item is in a live directory, and parents lead to the root
  without a cycle. Out of place is at most the very item that was changed on an
  overtaken check: what hangs below it keeps a live parent, and every cycle has such
  an item in it.
- `TrashListed`: what is in the trash hangs below an item that is listed and knows
  where it came from, or below an item of `stale`; though trashed subtrees overlap,
  lose parts to the retention job and are restored one by one.
- `NothingLiveErased`: a finished item is deleted from the trash only, unless it is
  in `stale` or hangs below such an item, the one this purge is about included. A
  placeholder that is found unfinished and published before the statement runs is
  not dropped.

Each of the exceptions is needed: with any one of them dropped TLC finds one of the
histories above. `StatsExact` alone, that the incremental counters are the number
of ready files below each directory, holds until a check is overtaken and not
after it; counters are not negative until then either (`TypeOK`).

Three things bound what TLC explores past an overtaken check; the theorems hold with
any `MaxStale`. After `MaxStale` items no request looks any more: the one under
way still changes what it found, and moves, copies, renamings, uploads, emptying the
trash and the retention job go on. A behaviour ends with more than `MaxStale` items, or when a counter has drifted out of
`0..Cardinality(Files)`. And on a cycle of parents the triggers, and the recursive
queries with UNION ALL, run until the statement is given up and nothing is
committed; here they end and the change is made, which only adds behaviours.

Left out: byte counters (the triggers keep them next to the file counters), the
limit of 5000 copied rows, rows of media metadata, and `deleted_at` as a time
(the retention job may take any set of trashings).

## 7. BlobReferences

No transaction spans the database and the object directory. `file` and
`versions` are what refers to blobs, `queue` is `object_cleanup` with its
generations, which the deletion triggers of migrations 002 and 004 fill; `blobs`
is what is stored, `old` what is older than the collector's cutoff.

A save is `SaveLook` (the row, the editor's tag, the new blob under a new key),
`Commit` (compare again, snapshot, prune, refer to the new blob) or `Discard`.
`RestoreVersion`, `CopyDocument`, `Trash` and `Purge` change references only.
The worker's pass is `WorkerLoad`, `WorkerRefs` (all references), and for each
row `WorkerNext` (referenced in the list, or by now), `WorkerDelete`,
`WorkerRemove`. `Collect` and `CollectOne` are the collector, which looks at the
references once and deletes one object after the other. Faults: a request
dropped before its statement or its discard, with the statement running later
or not (`Interrupt`, `Land`), a pass that fails or times out, a deletion that
fails, a crash.

`ReferencedKept`: what a file or a version refers to is stored. The hazard is
that the worker's and the collector's decisions are old when they act; it holds
because keys are generated once, a reference to an old key is only made from
another reference to it, and a blob ages only after the request that wrote it
ended. `CleanupQueued`: a blob that nothing refers to and no request holds is in
the queue, or is left to the collector for a named reason: its request was
interrupted (`left`), or the removal of a pass that timed out landed late
(`overrun`): the generation of a key that was removed and queued again begins at
0, so that removal may take the newer row. `NoStaleSave`: an accepted save
replaces the very content its editor had read, also after an undo brought an old
key back; saves without a tag are compared with what their own lookup saw.
`HistoryKept`: each change of a document keeps the replaced content as the
newest version and drops the oldest only.

Left out: derived objects (thumbnails, reader flows), whose keys are functions of
the blob's; retry counts and the batch of 1000 rows; ties and clock steps in
`created_at`, by which versions are ordered. The blob write is one step with the
look before it, as nobody else knows the key; the collector reads its references
and its cutoff in one step; the head check of a restore is merged into its
transaction. That a request ends before its blob is older than `upload_expires`
plus one hour is taken from the configuration, it is not checked by the code.

## 8. MediaProgress

A film's position is a row with a revision, a writer (the session of a player)
and the sequence number of the packet it came from. `decide_write` accepts a
packet of the row's own writer when its number is newer, of another writer when
it has seen the latest revision, answers a duplicate with the row that stands,
and refuses the rest with 409. `net` holds requests as a bag: a retry does not
recall the first copy, so a packet may be served twice and late. `outbox` is the
client's PENDING map (`progress_outbox.rs`), `stored` the journals it keeps in
local storage, which all tabs of a browser share under the same keys. `player` is
`PlaybackProgress` (`playback.rs`): the newest row it knows (`view`), its session
and number, and its gates (`changed`, `fenced`, `ready`, `latest`).

User steps: `Play` (the clock moved, the player saves), `Seek`, `Intent`, `Reopen`
(another file and back: a new session), `Replay` (the same file again: the
session stays, its number goes on), `Restart` (the page is lost and loaded again,
`initialize` sends what was journalled). `Left` is the last save of a player that
goes away. Reads: `LoadRead`/`Loaded`, `LoadFails`, and the three-second poll,
whose answer fences the player when another session has taken over.

The file may go to the trash and come back (`Trash`, `Untrash`). Meanwhile reads
fail and writes are answered 404 (`require_media_file`, before the transaction
and again in it); `TurnAway` is that answer, or a guard's. To the outbox 400, 403,
404 and 410 are as final as 409 (`progress_outbox.rs:232-235`): the entry goes, and
with it the journal, whatever it holds by then. To the player they are nothing
(`Err(_) => {}`, `playback.rs:334`): it stays open, and dirty. 401, 429, 5xx and a
request without an answer are `Fail`: entry and journal stay, and a timer, the
"online" event or the next packet tries again.

`NeverRewinds`: a session's packets are taken in the order they were composed,
also across somebody else's turn, whatever is retried, duplicated or reordered.
`LateStaysOut`: what was composed before another session took over is not
accepted after it. `QuietMeansSaved`: while a player is open for writing and its
dirty flag is down, the server has taken the last packet it composed. The flag is
what the next save goes by, so a packet that an error answer has dropped is not
mistaken for a saved one. `JournalSurvives`: the last packet of a session that the
server has not taken is in its browser's journal, so that a lost page does not lose
it, unless an error answer has removed that journal since (`discarded`).

The exception is needed, and it is a limit of what the code promises
(`progress_outbox.rs:1`, "Durable, idempotent progress writes survive player
teardown and reload"). The removal does not compare sequences as the removal after a
success does (255): two tabs send one journal, or a retry is late; the file is in the
trash when the old copy is served; its 404 removes the newer packet that was
journalled meanwhile, and when the page is lost before the next save, that position
is gone although the file comes back. A 409 does the same after `Replay`, which
keeps the writer (`playback.rs:60-61`: "a late completion from the previous play is
not another device taking over"): a packet of the earlier play that is refused late
fences the new play and drops its newer journal.

Left out: the listening queue that packets carry, saves to local storage only,
packets without `sync` (from old clients), polls that find nothing new, when the
retry timer runs (after a 401 only the next event tries again, which `Retry` may
always be); one read at a time per tab. That an
outbox drains when the network works is not checked: the liveness graph is too
large for the instances in which something happens.

## 9. CatalogueReads

A GET of a catalogue page (`query_cache.rs`) loads the database revision, looks
for the page under that revision, takes the lock of that key, looks again, asks
the handler, and stores what it got if the revision is still the same. Below it,
`call` and `call_api` admit an operation or refuse it (`admitted`), wait for a
worker permit or time out (`workers`), and run a closure on a blocking thread,
which cannot be cancelled: it takes or opens a connection (`idle`, `total`), runs,
publishes a new revision if rows changed, gives the connection back and, last,
its permits. The actions are these steps, in this order. A handler's several
database calls count as one. `content` counts commits, so that a page's value is
the commit it shows; `answered` is the newest commit some client was told of.

`Fresh`: a read that begins after a write was answered shows it, whether the page
is cached, another reader's, or its own; a reader may be slow, and fill the cache
under a revision that has passed, but only under that. `Accounted` and
`ConnectionReady`: no permit and no connection is lost or counted twice, though
clients leave at every step, an open fails, or the closure runs for nobody; and a
closure that has a permit never sleeps for a connection. `Answered`: everybody is
answered, refused or timed out.

Reads that do not follow a write are not monotone in the code, and the model does
not say so: a slow reader of an old revision may show a commit that is not
published yet, and a later reader that hits the cache an older page.

Left out: authentication before the cache, headers, page classes and the size
limit; prefetch and warming (they are reads nobody awaits); the connections taken
directly by migration and backup.

## 10. Runs

| run | checks | instance | size |
| --- | --- | --- | --- |
| `UploadSafety` | TypeOK, PublishedIntact, PublishedDurable, AcceptedIsPublished, StagingRetained, AnswersHonoured, PartsFrozen, AnswersFinal | 2 clients, 2 parts, 2 payloads, both modes, 3 bodies, 1 fault, detached calls, power loss; symmetric | 727,269 states |
| `UploadRecovery` | ExpirySparesCommits, ImplementsPublication, CommitsConclude | 2 clients, 1 part, 2 payloads, both modes, 2 bodies, 2 faults | 328,074 states |
| `UploadCreation` | TypeOK, ParentLive, StagingMatches, OwnSessionKept, Answered | 2 requests, 3 sessions, 1 key, 2 fingerprints, 1 fault, 1 move of the directory | 351,992 states |
| `LocksServed` | TypeOK, Exclusive, NoStandstill, Served | 3 requests of 5 kinds, 2 parts, 1 slot, 1 cancellation | 94,642 states |
| `FileTree` | TypeOK, LivePlaces, TrashListed, StatsExact, NothingLiveErased | 2 directories and 2 files below the root, 2 names, 2 requests, batches of 2, 1 item changed on an overtaken check; symmetric | 388,943 states |
| `BlobReferences` | TypeOK, ReferencedKept, CleanupQueued, NoStaleSave, HistoryKept | 2 editors, 2 documents, 3 blobs, 1 version kept, 5 events, 1 fault; symmetric | 1,842,232 states |
| `MediaProgress` | TypeOK, QuietMeansSaved, JournalSurvives, NeverRewinds, LateStaysOut | 2 tabs of one browser, 2 sessions each, 2 and 1 packets, 1 fault or trashing, 1 turn | 2,873,397 states |
| `CatalogueReads` | TypeOK, Fresh, Accounted, ConnectionReady, Answered | 2 readers, 1 writer, 1 page, 1 connection, 2 operations, 2 commits, 1 fault | 232,644 states |
| `UploadOverrun` | AcceptedBytesKept, violated | 2 parts, detached calls | finding 1 |
| `UploadDurable` | AcceptedIsDurable, violated | 2 parts, 1 fault | finding 2 |
| `UploadStuck` | CommitsConclude, violated | 1 part, detached calls | finding 3 |
| `LocksOneBlock` | OneBlockAnswered, violated | 2 requests | finding 4 |

Bounds. `Clients`: two handlers besides the job are enough for every pair of
handlers to overlap at every step, with the recovery or expiry job as a third.
`Parts`: two, so that one part is missing, wrong or stale while another is
right. `Contents`: two payloads, so that bytes can differ. `MaxPuts` bounds the
bodies written to disk (three: both parts, and one again), `MaxFaults` the
interruptions, crashes, power losses and failed removals. `Versions` in
`UploadLocks`: with two objects per name one may be in use while the map has
another. `FileTree`: two directories can be each other's parent and two requests
overtake each other; ids are not used twice, so a behaviour creates at most four
items, which is enough to trash an item, then its directory, and to restore or
purge either. `BlobReferences`: three keys are an original, its replacement and
a third under way; `Limit` is 1 instead of 20 so that a restored version is itself
the one to be pruned; `MaxEvents` bounds ids, keys, undos and faults together.
`MediaProgress`: the first tab can play, be taken over by the second, and write
again; a trashing is one of `MaxFaults`, and every request served while it lasts finds
404 without being counted. `CatalogueReads`: with one connection everybody is in
everybody's way; the
invariants without the liveness property were also checked with two writers, two
connections and three operations (4,726,095 states).

Deadlock checking is off where the system may really stop: a session that is
gone, an entangled one-block PUT that blocks everybody, ids and packets used up.
In `CatalogueReads` it is on.

Symmetry over ids, names, clients, parts and payloads is used for safety runs
only; the liveness runs use none.

### Fairness

`Continue(i)`: a handler that can take its next step does. The code justifies
this: nothing in a handler waits for its client except the body, which has an
idle and a total timeout (`body_reader`), and the body is inside one step.
Beginning a request is never fair: clients may do nothing. `RecoverCommits` is
strongly fair: the job runs every minute, and its lock request joins a fair
queue, so that clients who come and go do not keep it out for ever; the same for
`SweepBegin`. Weak fairness would not do, because each new request disables
them for a while. In `UploadLocks` handlers and semaphores are weakly fair, and
here the queues themselves show that nobody is overtaken for ever.

In `CatalogueReads` the steps of a request are weakly fair together: tasks and
threads run, and an opened connection answers. Beginning a request, leaving,
failing and evicting are not. `Lock` is strongly fair, as the lock of a key is a
tokio mutex, first come first served. The worker queue needs no more than weak
fairness: whoever waits gets a permit or its timeout.

## 11. Findings

1. `UploadOverrun`, against README.md:119 "已接收的分片不会被不同内容覆盖". A PUT
   is dropped while its rename is on the blocking pool. Its guards are released,
   a retry finds neither file nor acknowledgement, stores other bytes and is
   acknowledged; then the first rename lands and replaces them. In the trace it
   lands between completion's comparison of the entity tags and its copy.
2. `UploadDurable`, against README.md:119 and `state.rs:43`. A PUT is
   interrupted after its rename and before the directory fsync; the retry
   compares bytes, heads the file and acknowledges, without an fsync. The legacy
   PUT of `/parts/{part}` acknowledges such a file in the same way.
3. `UploadStuck`, against README.md:121 "提交失败或进程重启会自动重试". The rename of
   a cancelled completion lands after a retry has staged its own object: the
   tag differs and every attempt answers 409 from then on.
4. `LocksOneBlock`, against docs/file-transport.md:41. A one-block PUT to
   `/data` locks the session for reading twice; a completion, an abort or the
   expiry job that queues between the two lets both wait for each other.

Three more disagreements are described where their model is, without a run of
their own: the overtaken checks of the trash (section 6, against the comment at
`file_routes.rs:519`), and error answers that remove a newer journal and the refused
packet of an earlier play (section 8, against the comments at
`progress_outbox.rs:1` and `playback.rs:60`).

## 12. Proofs

`UploadSession_proof.tla` proves, for every choice of the constants that
satisfies `SessionAssumption` (any number of clients, parts, payloads, faults,
with and without detached calls and power losses):

- `TypeCorrect`: `Spec => []TypeOK`. `TypeInv` is proved inductive action by
  action; the statements are typed by lemmas of their own.
- `AnswersCorrect`: `Spec => []AnswersHonoured /\ AnswersFinal`. By themselves
  the two are not inductive: an answer is written by a handler that only
  remembers what it saw. The strengthening `Settled` says what a handler past
  its decision knows: at the labels after a commit the row is completed, at
  those after a removal it is not pending. It is preserved because no
  statement, also none that lands late, changes the outcome of a row that is not
  pending (`StatementOutcome`), which rests on the WHERE clauses alone: the
  locks are not used. So the finality of answers does not depend on them.
- `AnswersAreFinal`: the second half by itself.

`UploadIntact_proof.tla` proves `PublishedObjectIntact` (`PublishedIntact`) and
`PublishedObjectDurable` (`PublishedDurable`) for any number of clients, parts,
payloads and faults, on top of the invariants above, and like the properties
themselves for `Undisturbed` histories. `IntactInv` has two halves.
`Guarded` is mutual exclusion: a lifecycle request excludes everybody and a key
has one writer. It does not suffice, because a statement whose request is gone
runs without its locks. `Knowing` says what is known without them: `Knows`, what
a process at each label, or a statement that was submitted there, holds of the
object; `RowSound`, what the row says of it; `BodySettled`, that a single
upload's object is a body and is on disk or has a PUT that will sync it. The
idea is that an object renamed into place was renamed where none was, and that
once it is on disk nothing replaces it. So a tag read from it is its tag
whenever it is written down, and locks matter only between two that rename.
`Knowing` is void after a disk hazard (`Calm`), but only after one that matters: a
single upload that lost its directory fsync is as good as durable while the
machine keeps its power, which is what `Disk` stands for.

The same module proves, on top of that:

- `AcceptedBytesPublished` (`AcceptedIsPublished`), `StagingIsRetained`
  (`StagingRetained`) and `PartsAreFrozen` (`PartsFrozen`). None is inductive: a
  hash is told to a client after the guards are gone, by which time anything may
  have happened to the part. `PartsInv` says what stays true. `KnowsParts` is what
  a process at each label, or a statement submitted there, carries of a part:
  until the session is published, bytes about to be acknowledged are those stored
  (`Here`); afterwards, those published (`Holds`). `PartFits` is what the rows and
  the store say of each part: a tag written down is the tag of what is stored,
  and no part goes missing once completion has begun; when the object exists it
  is made of the parts. `ToldFits` ties the history to the acknowledgements.
  The commit is the step that turns "stored" into "published" for all of these
  at once (`CommitMoves`). Parts of a multipart upload may be taken by a power loss
  if their PUT lost its directory fsync (`Frail`): `PartFits` allows for that, so
  `AcceptedBytesPublished` covers it.
- `AcceptedBytesDurable`: `AcceptedIsDurable` holds while no disk hazard has occurred
  (`upset = {}`). `UploadDurable` shows it violated without the condition, so the
  lost fsync of finding 2 is not one of several ways to lose accepted bytes.
- `ExpirySpares` (`ExpirySparesCommits`), assuming `~Detach`. `ReclaimsOpen`: a session
  whose removal is about to run still receives, because the lock keeps the
  statements that begin a commit out. The assumption is needed: a statement that
  outlived an earlier completion can begin the commit while the lock is held, and
  the abort repeats only the status check. The run makes the same assumption.
- `SessionImplementsPublication`: `Spec /\ []Unharmed => ImplementsPublication`, the
  refinement of `UploadPublication`, and `UndisturbedSessionPublishes`, the same from
  `~Detach` and `~PowerFails`, as the run assumes. `Unharmed` is `Calm /\ ~Frail`: no
  rename landed late and no power loss can take a body whose PUT lost its fsync.
  Without it the refinement is false, in the histories of findings 1 and 2: with
  `Detach` TLC finds a late rename that replaces bytes a completion
  has adopted, and with `PowerFails` a power loss that takes them. The proof reads the accepted bytes off the store
  (`Accounted`): an acknowledged hash is the hash of what is stored, and what is
  stored when completion begins stays until it is published (`StagedStay`). Each
  step is then a stutter or one abstract action, by the status before and after
  it (`RowSteps`, `StatementGoes`).

`UploadCreation_proof.tla` proves, for any number of requests, sessions and keys:

- `TypeCorrect`: `Spec => []TypeOK`.
- `ParentKept`: `Spec => []ParentLive`, which is inductive given the types: the
  statements that put a row in place carry the directory in their guard, and
  the directory's own step takes every row along.
- `StagingKept`: `Spec => []StagingMatches`. A directory is removed by a request
  that believes its session has no row. `StagingInv` says why that stays true:
  each generated id is in at most one pair of hands that may insert it (`Apart`),
  a session to be inserted, refused or cleaned up has no row (`NoRowYet`), its
  directory is there before the row is (`Staged`), ids in use are among those
  generated (`Known`), and each directory is claimed (`Claimed`). The locks are
  not used: ids that are never generated twice are enough.
- `OwnKept` (`OwnSessionKept`). Here the lock of a key is needed. `KeyInv`: requests
  that hold a key's lock hold it alone (`KeysApart`), a key has at most one session
  (`KeysUnique`), and a request past its look at the sessions knows that none has
  its key (`KeysKnown`). The last, like the property, is void once an insert has run
  after its request had given the lock back (`overrun`).

`UploadLocks_proof.tla` proves `LocksTyped` (`TypeOK`), `LocksExclusive`
(`Exclusive`) and `LocksNeverStandStill` (`NoStandstill`) for any number of requests, parts, slots and lock objects. Locks
that come and go are the difficulty: `Current` says that a lock somebody holds or
waits for is the one its name stands for in the map, so two requests that lock
one name lock one object. `Accounted` says what its permits are worth: a lock is
shared, its free permits and the guards on it adding up to all of them, or it is
owned by one lifecycle request, with none left. It counts guards with
`Cardinality`, so no step sums over requests. `Queued` (who waits is in the
queue) keeps a dropped waiter from giving back what it never got.

`LocksNeverStandStill` is the part of `Served` that needs no fairness. `LinesInv`
adds to `IInv` that locks are granted in the order of the plans (`Ordered`) and
that whoever stands in a queue waits there, once (`Lined`). Suppose that nobody can
go on. The first in a queue lacks permits, so somebody holds that lock, and waits
itself for a later name of its plan. A holder of an I/O slot has nothing left to
wait for, so nobody waits for a slot; then nobody waits for a numbered part, whose
holder could only wait for a slot; and the data mutex is held by a one-block PUT
that locks the session again. So somebody waits for the session. Readers that wait
hold fewer guards on it than it has permits (`ReadersLeavePermits`: the first in the
queue has at most one, the others at most two), so the first in its queue is a
completion or an abort, and the reader it waits for leads to a one-block PUT in the
same queue: the entanglement.

`FileTree_proof.tla` proves, for any number of ids, names and requests, and any
`MaxStale`: `PlacesKept` (`LivePlaces`), `TrashKept` (`TrashListed`) and
`ErasedKept` (`NothingLiveErased`), past any number of overtaken checks. None of them
is inductive. `Sound(row, stale)` is: the tree but for the items of `stale`.
`TrashShape` says of each row in the trash that it is either an item that was
trashed, detached and knowing where it was, or hangs below a row of the trash
with the same `troot`: this is local, so it survives trashings that overlap and
batches that delete leaves first, and by `Acyclic` the way up ends at a listed
item. `InPlace` and `RootKept` do the same for live rows. `StraySound` is the step
that matters: whatever is written into one row, the tree stays sound with that row as
an exception more, so an overtaken request needs no other argument than whose row
it writes; `Settled` takes an item off the exceptions again where it is put in its
place. `JobsOK` types what the checks have left behind. Reachability is stated
without recursion: `Below` is the least set that is closed under children, so the
lemmas about it argue with closed sets, and `Acyclic` says that every set of rows
without an exception has a member whose parent is outside of it, which moving one row
preserves when the target is not below it. For a purge, what is below an item of the
trash is in the trash or below an exception (`BelowTrashed`).

The same module proves `CountersKept` (`StatsExact`) and `TreeTyped` (`TypeOK`).
`Above`, like `Below`, is a least closed set. `Tallied` is inductive for
behaviours without an overtaken check, given the shape above: a step other than
a move leaves every live item where it hung (`KeptAbove`), so a counter changes
by what begins and what ceases to count (`RecountedExact`, with cardinalities of
disjoint sets); a move changes what is above the items below it by exactly what
is above the item itself (`HungAbove`, `HungApart`), which is what the triggers
subtract and add (`CarriedExact`). There is no sum over the tree: the set counted
in a directory is split in two. Types hold after an overtaken check as well, so
`Typed` is proved without any of this; that a counter is not negative is not
inductive and follows from its being exact.

`BlobReferences_proof.tla` proves all five properties of its module, for any
number of documents, keys, editors, versions and faults.

- `BlobsKept` (`ReferencedKept`): `IInv` adds that each request under way holds a
  key of its own (`ReqsOK`, `Distinct`) and that the kinds of keys keep apart
  (`Apart`): what a request holds is stored, new, and neither referenced nor
  queued; what the worker is about to delete and what the collector has listed
  is neither referenced nor held. It stays so although both act on old
  decisions, because a reference to a key comes from another reference to it or
  from the request that holds it.
- `BlobsTyped` (`TypeOK`): generations are computed by counting rows before and
  after a pruning, so that none is ever negative needs `PrunedFewer`.
- `NoSaveIsStale` (`NoStaleSave`) and `HistoryIsKept` (`HistoryKept`): `Past` says
  what is remembered of the past. A tag in use was made for its key, or with an
  id drawn before (`TagsOld`), so a restore, which may bring an old key back,
  brings a tag nobody has seen; a request that remembers the present tag of a
  document remembers its present revision (`Remembered`); and a document about
  to be created is known to its creator alone (`Unborn`).
- `CleanupIsQueued` (`CleanupQueued`): `Cleaned` alone is not inductive, because a
  pass removes rows on what it read before. `WorkerKnows` says what that is worth:
  no row but its own goes, so the generation of a row it loaded can only have
  grown, and as long as it has not, a key found referenced is still referenced
  and a blob it deleted is still unneeded. All of this is void after a statement of
  a pass that timed out (`overrun`), as is the property.

`CatalogueReads_proof.tla` proves `ReadsTyped`, `ReadsFresh`, `PoolAccounted` and
`PoolNeverWaits`. For `Fresh`, `Reading` says that everything cached or read
under a revision shows every commit that was published under it: `Promised`
carries this from the writer that publishes to the revision the reader loads,
whichever thread is slow. For the pool, `PoolOK` says that each counter is the
cardinality of a set of requests; every step moves one request between the
stages, so it moves at most one in or out of each set, and the counters move
with it. `ConnectionReady` follows: connections are held by closures with a
permit, and this one holds a permit and no connection.

`MediaProgress_proof.tla` proves `ProgressTyped`, `ProgressNeverRewinds` and
`ProgressLateStaysOut`, `ProgressQuietMeansSaved` and `ProgressJournalSurvives`. What
the second and the third say of an accepted packet is not
inductive, because packets wait in the network, in outboxes and in journals for
any time. `Due` says what is true of each of them wherever it is: the row it was
composed against has been (`base` is at most the present revision), and if that
row still stands and is another session's, the packet is ahead of all that was
taken of its session and of all its session had composed when it was
overtaken. An accepted packet raises the revision, which makes the second part
void for everything afoot; a new packet is numbered above everything its session
composed (`Fits`), so it satisfies it. Only the session's own tab numbers its
packets (`OthersWriters`), and a session begun after a conflict, a reset or a
reload has composed nothing (`FitsNew`).

`QuietMeansSaved` and `JournalSurvives` rest on `Faithful`. `EntriesHonest`: an answer
with a row tells of no less than what was sent and of no more than the server has
taken. `JournalsFiled` and `JournalsKept`: a journal is filed under its session and is
its last packet, until the server has taken it or an error answer has removed it; an
honest answer removes it only when it covers it. `PlayersClean` is the property
itself: the flag goes down with the fence, or for an answer to the very packet the
player composed last. Both properties speak of the server's `taken`, which only grows.

Assumptions are those on the constants; `ExpirySpares` and
`UndisturbedSessionPublishes` name theirs in the statement. Only model-checked is
every liveness property (`CommitsConclude` and its kind), which is out of the
prover's reach: it has no rules for fairness or ENABLED.

## 13. Not modelled

The components marked so in `PROJECT.json`, with their reasons: streaming and
archives, parsing of media and books, catalogue rows changed in one transaction,
authentication, start-up and administration, and the user interface. Most of
the code is of these kinds, so the models cover a small part of its lines: the
part in which steps of several actors meet.

Within what is modelled: the disk-space budget (a request that finds no space is
answered before it has done anything), single uploads in `UploadCreation`, the
rotation of recovery batches (one session, so each batch has it), the
maintenance scheduler (its jobs may run at any time), the staging sweep, the HTTP
details of errors, rows from before migration 010, and what each section names as
left out.

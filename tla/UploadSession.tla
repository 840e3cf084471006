---------------------------- MODULE UploadSession ----------------------------
(***************************************************************************)
(* One upload session of revaro-server (upload_routes.rs), from the moment *)
(* its rows exist to its publication, abort or expiry: the SQLite rows,    *)
(* the files of the local object store, and the requests and maintenance   *)
(* jobs that work on them.  A step of a process is the code between two    *)
(* awaits at which another process can change what the next step reads.    *)
(*                                                                         *)
(* A dropped future (client gone, job timeout) releases its locks at once, *)
(* but a blocking call it had submitted still runs (db.rs call_api,        *)
(* tokio::fs): such calls are kept in `late` and land at any later time.   *)
(***************************************************************************)
EXTENDS Naturals, FiniteSets

CONSTANTS
  Clients,      \* slots for concurrent HTTP requests
  Maintenance,  \* the background worker (recovery and expiry jobs)
  Parts,        \* part numbers of a multipart session
  Blob,         \* the key of the published object
  Contents,     \* the payloads a client may send for one key
  None,         \* absent content or hash
  Modes,        \* the session modes to consider
  MaxPuts,      \* bound: PUT bodies written to disk
  MaxFaults,    \* bound: interruptions, crashes and power losses
  Detach,       \* blocking calls may outlive the request that made them
  PowerFails    \* directory entries that were not fsynced may be lost

ASSUME SessionAssumption ==
  /\ Maintenance \notin Clients
  /\ Blob \notin Parts
  /\ None \notin Contents
  /\ Modes \subseteq {"single", "multipart"}
  /\ MaxPuts \in Nat /\ MaxFaults \in Nat
  /\ Detach \in BOOLEAN /\ PowerFails \in BOOLEAN

VARIABLES
  mode,      \* "single" or "multipart", fixed at creation
  row,       \* the uploads row, its upload_parts and its files row
  expired,   \* expires_at has passed
  obj,       \* the object store as processes see it
  durable,   \* what a power loss leaves of it
  pc, loc,   \* where each process is, and its local variables
  late,      \* blocking calls whose request is gone
  clock,     \* modification times: one per file written
  puts, faults,   \* counters for the bounds
  told,      \* history: hashes whose PUT was answered 204, by key
  heard,     \* history: lifecycle answers the client received
  upset      \* history: which disk hazards have happened

session == <<mode, row, expired>>
store   == <<obj, durable>>
control == <<pc, loc>>
counts  == <<clock, puts, faults>>
history == <<told, heard, upset>>
vars    == <<mode, row, expired, obj, durable, pc, loc, late, clock, puts,
             faults, told, heard, upset>>

-----------------------------------------------------------------------------
(* Data.  An object version is its bytes and its modification time; the    *)
(* entity tag is the time (size and mtime in the code, the size is fixed), *)
(* and the SHA-256 is the bytes themselves.                                *)

Procs == Clients \cup {Maintenance}
Keys  == Parts \cup {Blob}

\* The bytes an object may hold: a payload, or one payload per part.
Bytes == Contents \cup [Parts -> Contents]

Absent == [content |-> None, stamp |-> 0]
NoAck  == [etag |-> 0, hash |-> None]
AckOf(version) == [etag |-> version.stamp, hash |-> version.content]

NoList == [p \in Parts |-> 0]
NoLoc  == [key |-> Blob, version |-> Absent, ack |-> NoAck, list |-> NoList]

\* The keys that PUTs write: the object itself, or its staged parts.
WriteKeys == IF mode = "single" THEN {Blob} ELSE Parts

Stored(k) == obj[k] # Absent

-----------------------------------------------------------------------------
(* Database statements, as functions from the row to the row.              *)

Pending(r)   == r.status = "pending"
Receiving(r) == Pending(r) /\ r.commit_state = "receiving"

\* Deleting the files row takes the session and its parts with it (cascade).
Dropped(r) == [r EXCEPT !.status = "gone", !.file = "gone",
                        !.ack = [k \in Keys |-> NoAck]]

\* A part acknowledgement is an upsert that only needs the session to exist;
\* the single-request one updates the session while it is receiving.
CanAck(r, l) == IF l.key = Blob THEN Receiving(r) ELSE r.status # "gone"
Acked(r, l)  == IF CanAck(r, l) THEN [r EXCEPT !.ack[l.key] = l.ack] ELSE r

\* A legacy acknowledgement is a plain insert.
CanRecord(r, l) == r.status # "gone" /\ r.ack[l.key] = NoAck
Recorded(r, l)  == IF CanRecord(r, l) THEN [r EXCEPT !.ack[l.key] = l.ack] ELSE r

\* The completion list fills in the missing acknowledgements, without a hash.
Frozen(r, l) ==
  IF Receiving(r)
  THEN [r EXCEPT !.commit_state = "assembling",
                 !.ack = [k \in Keys |->
                            IF k \in Parts /\ r.ack[k] = NoAck /\ l.list[k] # 0
                            THEN [etag |-> l.list[k], hash |-> None]
                            ELSE r.ack[k]]]
  ELSE r

CanStage(r)  == Pending(r) /\ r.commit_state = "assembling"
Staged(r, l) == IF CanStage(r)
                THEN [r EXCEPT !.commit_state = "staged", !.ack[Blob] = l.ack]
                ELSE r

CanCommit(r) == /\ r.file = "pending" /\ ~r.trashed
                /\ Pending(r) /\ r.commit_state = "staged"
Committed(r, l) == IF CanCommit(r)
                   THEN [r EXCEPT !.file = "ready", !.published = l.ack,
                                  !.status = "completed"]
                   ELSE r

\* Mutant: the abort trusts the status it loaded and repeats no check.
AbortUnchecked(r) == r.file # "gone"

CanAbort(r)   == Pending(r) /\ r.file = "pending"
\* Mutant: the session is only marked, its file row is left behind.
MarkedOnly(r) == IF CanAbort(r) THEN [r EXCEPT !.status = "aborted"] ELSE r

Aborted(r)    == IF CanAbort(r) THEN Dropped(r) ELSE r

\* Mutant: the deletion only asks again whether the session is unfinished.
SweepPending(r) == Pending(r) /\ expired /\ r.file = "pending"

CanSweep(r)   == Receiving(r) /\ expired /\ r.file = "pending"
Swept(r)      == IF CanSweep(r) THEN Dropped(r) ELSE r
Cleaned(r)    == IF r.status = "completed" THEN [r EXCEPT !.cleaned = TRUE] ELSE r

\* What each submitted statement does to the row when it runs.
RowAfter(op, l) ==
  CASE op = "put_ack"    -> Acked(row, l)
    [] op = "rec_ack"    -> Recorded(row, l)
    [] op = "fin_freeze" -> Frozen(row, l)
    [] op = "fin_stage"  -> Staged(row, l)
    [] op = "fin_commit" -> Committed(row, l)
    [] op = "fin_mark"   -> Cleaned(row)
    [] op \in {"abort_tx", "reclaim_tx"} -> Aborted(row)
    [] op = "sweep_tx"   -> Swept(row)
    [] OTHER             -> row

Statements == {"put_ack", "rec_ack", "fin_freeze", "fin_stage", "fin_commit",
               "fin_mark", "abort_tx", "reclaim_tx", "sweep_tx"}
Renames    == {"put_rename", "fin_rename"}

-----------------------------------------------------------------------------
(* Locks.  Part writers share the session's RwLock and hold their part's   *)
(* mutex; completion, abort and expiry take the RwLock for writing.        *)

PartGuard  == {"put_accept", "put_rename", "put_sync", "put_ack", "rec_ack"}
WriteGuard == {"fin_freeze", "fin_head", "fin_sync", "fin_read", "fin_rename",
               "fin_settle", "fin_stage", "fin_verify", "fin_commit",
               "fin_clean", "fin_mark", "abort_tx", "reclaim_tx", "sweep_tx",
               "abort_parts", "abort_blob"}

ReadFree(k) == \A j \in Procs : /\ pc[j] \notin WriteGuard
                                /\ pc[j] \in PartGuard => loc[j].key # k
WriteFree   == \A j \in Procs : pc[j] \notin WriteGuard \cup PartGuard

Goto(i, label, l) == /\ pc' = [pc EXCEPT ![i] = label]
                     /\ loc' = [loc EXCEPT ![i] = l]
Stop(i) == Goto(i, "idle", NoLoc)

Init ==
  /\ mode \in Modes
  /\ row = [status |-> "pending", commit_state |-> "receiving",
            ack |-> [k \in Keys |-> NoAck], file |-> "pending",
            trashed |-> FALSE, published |-> NoAck, cleaned |-> FALSE]
  /\ expired = FALSE
  /\ obj = [k \in Keys |-> Absent] /\ durable = [k \in Keys |-> Absent]
  /\ pc = [i \in Procs |-> "idle"] /\ loc = [i \in Procs |-> NoLoc]
  /\ late = {}
  /\ clock = 0 /\ puts = 0 /\ faults = 0
  /\ told = [k \in Keys |-> {}] /\ heard = {} /\ upset = {}

-----------------------------------------------------------------------------
(* PUT /data and PUT /data/{part}.                                         *)

RequirePending == Receiving(row) /\ ~expired

\* Mutant: a retry is not compared with what was accepted before.
ForgetHash(k) == None

\* The hash later bodies are held to: the acknowledged one, else the hash of
\* the bytes an interrupted request left behind.
KnownHash(k) == IF row.ack[k].hash # None THEN row.ack[k].hash ELSE obj[k].content

\* Locks, session checks and the streamed body.  With a known hash the body is
\* only compared (a different one is refused and changes nothing); without
\* one it has been written and fsynced under a temporary name.
PutBegin(i, k, c) ==
  /\ pc[i] = "idle" /\ k \in WriteKeys
  /\ ReadFree(k) /\ RequirePending
  /\ KnownHash(k) \in {None, c}
  /\ IF KnownHash(k) = c
     THEN /\ Goto(i, "put_accept",
                  [NoLoc EXCEPT !.key = k, !.version = [content |-> c, stamp |-> 0]])
          /\ UNCHANGED <<clock, puts>>
     ELSE /\ puts < MaxPuts
          /\ puts' = puts + 1 /\ clock' = clock + 1
          /\ Goto(i, "put_rename",
                  [NoLoc EXCEPT !.key = k,
                                !.version = [content |-> c, stamp |-> clock + 1]])
  /\ UNCHANGED <<session, store, late, faults, history>>

\* A retry of known bytes only looks at the stored file, and keeps it as it is.
PutAccept(i) ==
  /\ pc[i] = "put_accept" /\ Stored(loc[i].key)
  /\ Goto(i, "put_ack",
          [loc[i] EXCEPT !.ack = [etag |-> obj[loc[i].key].stamp,
                                  hash |-> loc[i].version.content]])
  /\ UNCHANGED <<session, store, late, counts, history>>

PutRename(i) ==
  /\ pc[i] = "put_rename"
  /\ obj' = [obj EXCEPT ![loc[i].key] = loc[i].version]
  /\ Goto(i, "put_sync", loc[i])
  /\ UNCHANGED <<session, durable, late, counts, history>>

\* Keys of one directory become durable together.
Siblings(k) == IF k = Blob THEN {Blob} ELSE Parts
SyncDirectory(k) ==
  durable' = [j \in Keys |-> IF j \in Siblings(k) THEN obj[j] ELSE durable[j]]

PutSync(i) ==
  /\ pc[i] = "put_sync" /\ Stored(loc[i].key)
  /\ SyncDirectory(loc[i].key)
  /\ Goto(i, "put_ack",
          [loc[i] EXCEPT !.ack = [etag |-> obj[loc[i].key].stamp,
                                  hash |-> loc[i].version.content]])
  /\ UNCHANGED <<session, obj, late, counts, history>>

PutAck(i) ==
  /\ pc[i] = "put_ack"
  /\ row' = RowAfter("put_ack", loc[i])
  /\ IF CanAck(row, loc[i]) THEN Goto(i, "put_reply", loc[i]) ELSE Stop(i)
  /\ UNCHANGED <<mode, expired, store, late, counts, history>>

\* PUT /parts/{part}: acknowledge bytes a client stored before the upgrade.
RecordBegin(i, k) ==
  /\ pc[i] = "idle" /\ mode = "multipart" /\ k \in Parts
  /\ ReadFree(k) /\ RequirePending
  /\ Stored(k) /\ row.ack[k] = NoAck
  /\ Goto(i, "rec_ack", [NoLoc EXCEPT !.key = k, !.version = obj[k],
                                      !.ack = AckOf(obj[k])])
  /\ UNCHANGED <<session, store, late, counts, history>>

RecordAck(i) ==
  /\ pc[i] = "rec_ack"
  /\ row' = RowAfter("rec_ack", loc[i])
  /\ IF CanRecord(row, loc[i]) THEN Goto(i, "put_reply", loc[i]) ELSE Stop(i)
  /\ UNCHANGED <<mode, expired, store, late, counts, history>>

\* The answer reaches the client; the guards are already released.
PutReply(i) ==
  /\ pc[i] = "put_reply"
  /\ told' = [told EXCEPT ![loc[i].key] = @ \cup {loc[i].ack.hash}]
  /\ Stop(i)
  /\ UNCHANGED <<session, store, late, counts, heard, upset>>

-----------------------------------------------------------------------------
(* POST /complete, and the recovery job that resumes it.                   *)

\* A client may send its own list of entity tags (only the stored ones pass);
\* an empty list means the acknowledged ones.
PartsVerified(explicit) ==
  \A p \in Parts : /\ Stored(p)
                   /\ explicit \/ row.ack[p].etag = obj[p].stamp

FinishBegin(i, explicit) ==
  /\ pc[i] = "idle" /\ WriteFree
  /\ LET record == [NoLoc EXCEPT !.ack = row.ack[Blob]]
     IN \/ /\ row.status = "completed"
           /\ Goto(i, "fin_clean", record)
        \/ /\ Receiving(row) /\ ~expired /\ mode = "multipart"
           /\ PartsVerified(explicit)
           /\ Goto(i, "fin_freeze",
                   [record EXCEPT !.list = [p \in Parts |-> obj[p].stamp]])
        \/ /\ Receiving(row) /\ ~expired /\ mode = "single" /\ ~explicit
           /\ Stored(Blob)
           /\ Goto(i, "fin_freeze", record)
        \/ /\ Pending(row) /\ row.commit_state = "assembling"
           /\ Goto(i, "fin_head", record)
        \/ /\ Pending(row) /\ row.commit_state = "staged"
           /\ Goto(i, "fin_verify", record)
  /\ UNCHANGED <<session, store, late, counts, history>>

\* Mutant: only sessions whose object is staged are resumed.
RecoverStaged == Pending(row) /\ row.commit_state = "staged"

\* The rows recover_upload_commits selects.
Recoverable == \/ Pending(row) /\ row.commit_state # "receiving"
               \/ row.status = "completed" /\ ~row.cleaned

CompleteUpload(i, explicit) == i \in Clients /\ FinishBegin(i, explicit)
RecoverCommits == Recoverable /\ FinishBegin(Maintenance, FALSE)

FinishFreeze(i) ==
  /\ pc[i] = "fin_freeze"
  /\ row' = RowAfter("fin_freeze", loc[i])
  /\ IF Receiving(row) THEN Goto(i, "fin_head", loc[i]) ELSE Stop(i)
  /\ UNCHANGED <<mode, expired, store, late, counts, history>>

\* Mutant: an object found in place is taken as it is, without a sync.
ReuseUnsynced(i) ==
  /\ pc[i] = "fin_head" /\ Stored(Blob)
  /\ Goto(i, "fin_stage", [loc[i] EXCEPT !.ack = AckOf(obj[Blob])])
  /\ UNCHANGED <<session, store, late, counts, history>>

\* An object already in place was left by an interrupted attempt or is the
\* body of a single upload: its recorded hash is reused when the tag matches.
FinishReuse(i) ==
  /\ pc[i] = "fin_head" /\ Stored(Blob)
  /\ IF loc[i].ack.etag = obj[Blob].stamp /\ loc[i].ack.hash # None
     THEN Goto(i, "fin_stage", loc[i])
     ELSE Goto(i, "fin_sync", [loc[i] EXCEPT !.ack = AckOf(obj[Blob])])
  /\ UNCHANGED <<session, store, late, counts, history>>

FinishSync(i) ==
  /\ pc[i] = "fin_sync" /\ Stored(Blob)
  /\ SyncDirectory(Blob)
  /\ Goto(i, "fin_stage", loc[i])
  /\ UNCHANGED <<session, obj, late, counts, history>>

\* complete_multipart: all tags are compared before any byte is copied.
FinishCheckParts(i) ==
  /\ pc[i] = "fin_head" /\ ~Stored(Blob) /\ mode = "multipart"
  /\ \A p \in Parts : Stored(p) /\ row.ack[p].etag = obj[p].stamp
  /\ Goto(i, "fin_read", loc[i])
  /\ UNCHANGED <<session, store, late, counts, history>>

\* Mutant: parts are moved into the object instead of copied.
ReadConsuming(i) ==
  /\ pc[i] = "fin_read" /\ \A p \in Parts : Stored(p)
  /\ clock' = clock + 1
  /\ Goto(i, "fin_rename",
          [loc[i] EXCEPT !.key = Blob,
                         !.version = [content |-> [p \in Parts |-> obj[p].content],
                                      stamp |-> clock + 1]])
  /\ obj' = [k \in Keys |-> IF k \in Parts THEN Absent ELSE obj[k]]
  /\ UNCHANGED <<session, durable, late, puts, faults, history>>

FinishRead(i) ==
  /\ pc[i] = "fin_read" /\ \A p \in Parts : Stored(p)
  /\ clock' = clock + 1
  /\ Goto(i, "fin_rename",
          [loc[i] EXCEPT !.key = Blob,
                         !.version = [content |-> [p \in Parts |-> obj[p].content],
                                      stamp |-> clock + 1]])
  /\ UNCHANGED <<session, store, late, puts, faults, history>>

FinishRename(i) ==
  /\ pc[i] = "fin_rename"
  /\ obj' = [obj EXCEPT ![Blob] = loc[i].version]
  /\ Goto(i, "fin_settle", loc[i])
  /\ UNCHANGED <<session, durable, late, counts, history>>

FinishSettle(i) ==
  /\ pc[i] = "fin_settle" /\ Stored(Blob)
  /\ SyncDirectory(Blob)
  /\ Goto(i, "fin_stage",
          [loc[i] EXCEPT !.ack = [etag |-> obj[Blob].stamp,
                                  hash |-> loc[i].version.content]])
  /\ UNCHANGED <<session, obj, late, counts, history>>

FinishStage(i) ==
  /\ pc[i] = "fin_stage"
  /\ row' = RowAfter("fin_stage", loc[i])
  /\ IF CanStage(row) THEN Goto(i, "fin_verify", loc[i]) ELSE Stop(i)
  /\ UNCHANGED <<mode, expired, store, late, counts, history>>

FinishVerify(i) ==
  /\ pc[i] = "fin_verify" /\ Stored(Blob)
  /\ obj[Blob].stamp = loc[i].ack.etag /\ loc[i].ack.hash # None
  /\ Goto(i, "fin_commit", loc[i])
  /\ UNCHANGED <<session, store, late, counts, history>>

\* Mutant: the number of rows the commit changed is not looked at.
CommitUnchecked(i) ==
  /\ pc[i] = "fin_commit"
  /\ row' = RowAfter("fin_commit", loc[i])
  /\ Goto(i, "fin_clean", loc[i])
  /\ UNCHANGED <<mode, expired, store, late, counts, history>>

FinishCommit(i) ==
  /\ pc[i] = "fin_commit"
  /\ row' = RowAfter("fin_commit", loc[i])
  /\ IF CanCommit(row) THEN Goto(i, "fin_clean", loc[i]) ELSE Stop(i)
  /\ UNCHANGED <<mode, expired, store, late, counts, history>>

RemoveParts(kept) ==
  obj' = [k \in Keys |-> IF k \in Parts \ kept THEN Absent ELSE obj[k]]

FinishClean(i) ==
  /\ pc[i] = "fin_clean"
  /\ RemoveParts({})
  /\ Goto(i, "fin_mark", loc[i])
  /\ UNCHANGED <<session, durable, late, counts, history>>

FinishMark(i) ==
  /\ pc[i] = "fin_mark"
  /\ row' = RowAfter("fin_mark", loc[i])
  /\ Goto(i, "fin_reply", loc[i])
  /\ UNCHANGED <<mode, expired, store, late, counts, history>>

FinishReply(i) ==
  /\ pc[i] = "fin_reply"
  /\ heard' = IF i \in Clients THEN heard \cup {"completed"} ELSE heard
  /\ Stop(i)
  /\ UNCHANGED <<session, store, late, counts, told, upset>>

-----------------------------------------------------------------------------
(* DELETE /uploads/{id}, reclaiming by a new upload, and the expiry job.   *)

\* expired_only is the reclaiming of a stale placeholder by create_upload.
AbortBegin(i, expired_only) ==
  /\ pc[i] = "idle" /\ WriteFree
  /\ IF expired_only THEN Receiving(row) /\ expired ELSE Pending(row)
  /\ Goto(i, IF expired_only THEN "reclaim_tx" ELSE "abort_tx", NoLoc)
  /\ UNCHANGED <<session, store, late, counts, history>>

\* Mutant: the files are removed whether or not the session was.
AbortRegardless(i) ==
  /\ pc[i] \in {"abort_tx", "reclaim_tx"}
  /\ row' = RowAfter(pc[i], loc[i])
  /\ Goto(i, "abort_parts", loc[i])
  /\ UNCHANGED <<mode, expired, store, late, counts, history>>

AbortTx(i) ==
  /\ pc[i] \in {"abort_tx", "reclaim_tx"}
  /\ row' = RowAfter(pc[i], loc[i])
  /\ IF CanAbort(row) THEN Goto(i, "abort_parts", loc[i]) ELSE Stop(i)
  /\ UNCHANGED <<mode, expired, store, late, counts, history>>

\* The session that already completed is left alone and the client is told 204.
AbortCompleted(i) ==
  /\ pc[i] = "idle" /\ row.status = "completed"
  /\ Goto(i, "abort_reply", NoLoc)
  /\ UNCHANGED <<session, store, late, counts, history>>

\* The job lists the expired sessions first and takes each lock afterwards; it
\* does not load the session again.
SweepLoad ==
  /\ pc[Maintenance] = "idle"
  /\ Receiving(row) /\ expired
  /\ Goto(Maintenance, "sweep_wait", NoLoc)
  /\ UNCHANGED <<session, store, late, counts, history>>

SweepBegin ==
  /\ pc[Maintenance] = "sweep_wait" /\ WriteFree
  /\ Goto(Maintenance, "sweep_tx", NoLoc)
  /\ UNCHANGED <<session, store, late, counts, history>>

SweepTx ==
  /\ pc[Maintenance] = "sweep_tx"
  /\ row' = RowAfter("sweep_tx", loc[Maintenance])
  /\ IF CanSweep(row) THEN Goto(Maintenance, "abort_parts", NoLoc)
                      ELSE Stop(Maintenance)
  /\ UNCHANGED <<mode, expired, store, late, counts, history>>

AbortParts(i) ==
  /\ pc[i] = "abort_parts"
  /\ RemoveParts({})
  /\ Goto(i, "abort_blob", loc[i])
  /\ UNCHANGED <<session, durable, late, counts, history>>

AbortBlob(i) ==
  /\ pc[i] = "abort_blob"
  /\ obj' = [obj EXCEPT ![Blob] = Absent]
  /\ IF i = Maintenance THEN Stop(i) ELSE Goto(i, "abort_reply", NoLoc)
  /\ UNCHANGED <<session, durable, late, counts, history>>

\* The end of an abort; a create_upload that reclaimed the name also goes on
\* believing that the session is gone.
AbortReply(i) ==
  /\ pc[i] = "abort_reply"
  /\ heard' = heard \cup {"aborted"}
  /\ Stop(i)
  /\ UNCHANGED <<session, store, late, counts, told, upset>>

\* Removing files may fail, half-way for a directory: the request only logs it.
\* A completion then skips the mark, so that the recovery job tries again.
CleanupFails(i) ==
  /\ faults < MaxFaults /\ faults' = faults + 1
  /\ \/ pc[i] = "fin_clean" /\ Goto(i, "fin_reply", loc[i])
     \/ pc[i] = "abort_parts" /\ Goto(i, "abort_blob", loc[i])
     \/ /\ pc[i] = "abort_blob"
        /\ IF i = Maintenance THEN Stop(i) ELSE Goto(i, "abort_reply", NoLoc)
  /\ \E kept \in SUBSET Parts :
       /\ pc[i] = "abort_blob" => kept = Parts
       /\ RemoveParts(kept)
  /\ UNCHANGED <<session, durable, late, clock, puts, history>>

-----------------------------------------------------------------------------
(* What happens around the session.                                        *)

\* DELETE /files/{id} of the unfinished row, and the purge of its directory:
\* both work on the files table only and take no upload lock.
DeletePending ==
  /\ row.file = "pending"
  /\ row' = Dropped(row)
  /\ UNCHANGED <<mode, expired, store, control, late, counts, history>>

\* A directory above the file goes to the trash with it, or comes back.
ToggleTrash ==
  /\ row.file = "pending"
  /\ row' = [row EXCEPT !.trashed = ~row.trashed]
  /\ UNCHANGED <<mode, expired, store, control, late, counts, history>>

Expire ==
  /\ ~expired /\ expired' = TRUE
  /\ UNCHANGED <<mode, row, store, control, late, counts, history>>

\* A request ends early: an error, a client that left, a job that timed out.
\* Its locks are released; a call it had submitted may still be on its way.
Interrupt(i) ==
  /\ pc[i] # "idle" /\ faults < MaxFaults
  /\ faults' = faults + 1
  /\ \/ late' = late
     \/ /\ Detach /\ pc[i] \in Statements \cup Renames
        /\ late' = late \cup {[op |-> pc[i], loc |-> loc[i]]}
  /\ upset' = IF pc[i] = "put_sync" THEN upset \cup {"torn"} ELSE upset
  /\ Stop(i)
  /\ UNCHANGED <<session, store, clock, puts, told, heard>>

\* A check that fails ends the request the same way, with nothing in flight.
Refuse(i) ==
  /\ \/ pc[i] = "put_accept" /\ ~Stored(loc[i].key)
     \/ pc[i] = "put_sync" /\ ~Stored(loc[i].key)
     \/ /\ pc[i] = "fin_head" /\ ~Stored(Blob)
        /\ \/ mode = "single"
           \/ \E p \in Parts : ~Stored(p) \/ row.ack[p].etag # obj[p].stamp
     \/ pc[i] \in {"fin_sync", "fin_settle"} /\ ~Stored(Blob)
     \/ pc[i] = "fin_read" /\ \E p \in Parts : ~Stored(p)
     \/ /\ pc[i] = "fin_verify"
        /\ \/ ~Stored(Blob)
           \/ obj[Blob].stamp # loc[i].ack.etag
           \/ loc[i].ack.hash = None
  /\ Stop(i)
  /\ UNCHANGED <<session, store, late, counts, history>>

\* A submitted call runs after its request is gone.
Land(call) ==
  /\ call \in late
  /\ late' = late \ {call}
  /\ row' = RowAfter(call.op, call.loc)
  /\ IF call.op \in Renames
     THEN /\ obj' = [obj EXCEPT ![call.loc.key] = call.loc.version]
          /\ upset' = upset \cup {"overrun"}
     ELSE UNCHANGED <<obj, upset>>
  /\ UNCHANGED <<mode, expired, durable, control, counts, told, heard>>

\* The process dies and starts again: only the database and the files remain.
Restart ==
  /\ faults < MaxFaults /\ faults' = faults + 1
  /\ pc' = [i \in Procs |-> "idle"] /\ loc' = [i \in Procs |-> NoLoc]
  /\ late' = {}
  /\ upset' = IF \E i \in Procs : pc[i] = "put_sync" THEN upset \cup {"torn"}
                                                     ELSE upset
Crash ==
  /\ Restart
  /\ UNCHANGED <<session, store, clock, puts, told, heard>>

\* The machine loses power: names changed since the last directory fsync may
\* be back where they were.
PowerLoss ==
  /\ PowerFails /\ Restart
  /\ \E lost \in SUBSET {k \in Keys : durable[k] # obj[k]} :
       /\ lost # {}
       /\ obj' = [k \in Keys |-> IF k \in lost THEN durable[k] ELSE obj[k]]
       /\ durable' = obj'
  /\ UNCHANGED <<session, clock, puts, told, heard>>

-----------------------------------------------------------------------------

PutStep(i) ==
  \/ \E k \in Keys, c \in Contents : PutBegin(i, k, c)
  \/ \E k \in Keys : RecordBegin(i, k)
  \/ PutAccept(i) \/ PutRename(i) \/ PutSync(i) \/ PutAck(i)
  \/ RecordAck(i) \/ PutReply(i)

FinishStep(i) ==
  \/ FinishFreeze(i) \/ FinishReuse(i) \/ FinishSync(i) \/ FinishCheckParts(i)
  \/ FinishRead(i) \/ FinishRename(i) \/ FinishSettle(i) \/ FinishStage(i)
  \/ FinishVerify(i) \/ FinishCommit(i) \/ FinishClean(i) \/ FinishMark(i)
  \/ FinishReply(i)

AbortStep(i) == AbortTx(i) \/ AbortParts(i) \/ AbortBlob(i) \/ AbortReply(i)

ClientStep(i) ==
  \/ PutStep(i)
  \/ \E explicit \in BOOLEAN : CompleteUpload(i, explicit)
  \/ \E expired_only \in BOOLEAN : AbortBegin(i, expired_only)
  \/ AbortCompleted(i)

JobStep == RecoverCommits \/ SweepLoad \/ SweepBegin \/ SweepTx

Next ==
  \/ \E i \in Clients : ClientStep(i)
  \/ JobStep
  \/ \E i \in Procs : FinishStep(i) \/ AbortStep(i) \/ CleanupFails(i) \/ Interrupt(i) \/ Refuse(i)
  \/ \E call \in late : Land(call)
  \/ DeletePending \/ ToggleTrash \/ Expire \/ Crash \/ PowerLoss

Spec == Init /\ [][Next]_vars

\* A request that runs goes on: bodies have an idle and a total timeout, and
\* nothing else in a handler waits for the client.
Continue(i) ==
  \/ PutAccept(i) \/ PutRename(i) \/ PutSync(i) \/ PutAck(i) \/ RecordAck(i)
  \/ PutReply(i) \/ FinishStep(i) \/ AbortStep(i) \/ Refuse(i)
  \/ i = Maintenance /\ SweepTx

\* The recovery job runs every minute, and the session's lock is a queue: the
\* jobs are not overtaken for ever by requests that come and go.
Fairness == /\ \A i \in Procs : WF_vars(Continue(i))
            /\ SF_vars(RecoverCommits) /\ SF_vars(SweepBegin)

LiveSpec == Spec /\ Fairness

-----------------------------------------------------------------------------
(* Properties.                                                             *)

Version == [content : Bytes \cup {None}, stamp : Nat]
Ack     == [etag : Nat, hash : Bytes \cup {None}]
Labels  == {"idle", "sweep_wait", "put_reply", "fin_reply", "abort_reply"} \cup PartGuard \cup WriteGuard
Locals  == [key : Keys, version : Version, ack : Ack, list : [Parts -> Nat]]
RowType == [status : {"pending", "completed", "gone"},
            commit_state : {"receiving", "assembling", "staged"},
            ack : [Keys -> Ack], file : {"pending", "ready", "gone"},
            trashed : BOOLEAN, published : Ack, cleaned : BOOLEAN]

\* Every variable has the shape the code gives it.
TypeOK ==
  /\ mode \in {"single", "multipart"} /\ row \in RowType /\ expired \in BOOLEAN
  /\ obj \in [Keys -> Version] /\ durable \in [Keys -> Version]
  /\ pc \in [Procs -> Labels] /\ loc \in [Procs -> Locals]
  /\ late \subseteq [op : Statements \cup Renames, loc : Locals]
  /\ clock \in Nat /\ puts \in Nat /\ faults \in Nat
  /\ told \in [Keys -> SUBSET (Bytes \cup {None})]
  /\ heard \subseteq {"completed", "aborted"} /\ upset \subseteq {"torn", "overrun"}

\* No rename landed after its request had lost its guards, and in a single
\* upload, whose PUTs write the object itself, none lost its directory fsync.
Undisturbed == /\ "overrun" \notin upset
               /\ mode = "single" => "torn" \notin upset

\* The bytes told about a key, and the bytes published for it.
PublishedBytes(k) == IF k = Blob THEN row.published.hash ELSE row.published.hash[k]

\* A ready file has exactly the object its metadata describes: the bytes of
\* the recorded hash under the recorded entity tag (finalize_upload's commit).
PublishedIntact ==
  row.file = "ready" /\ Undisturbed =>
    /\ row.status = "completed"
    /\ AckOf(obj[Blob]) = row.published

\* ... and a power loss cannot take that object away.
PublishedDurable ==
  row.file = "ready" /\ Undisturbed => durable[Blob] = obj[Blob]

\* What is published under a key is what a client was told had been accepted
\* for it: concurrent, retried and interrupted PUTs never substitute bytes.
AcceptedIsPublished ==
  row.file = "ready" /\ Undisturbed =>
    \A k \in WriteKeys : told[k] \subseteq {PublishedBytes(k)}

\* Once completion has begun, what the recovery job needs is still there:
\* every acknowledged part until the object exists, then that very object.
StagingRetained ==
  Pending(row) /\ upset = {} =>
    /\ row.commit_state = "assembling" =>
         \/ Stored(Blob)
         \/ /\ mode = "multipart"
            /\ \A p \in Parts : Stored(p) /\ row.ack[p].etag = obj[p].stamp
    /\ row.commit_state = "staged" => AckOf(obj[Blob]) = row.ack[Blob]

\* The parts a completion started from are not exchanged under it, whatever
\* acknowledgement still arrives.
PartsFrozen ==
  [][/\ Pending(row) /\ Pending(row') /\ row.commit_state # "receiving"
     /\ upset' = {}
     => \A p \in Parts : row'.ack[p].etag = row.ack[p].etag]_vars

\* Answers are final: a completion that was reported stays published, and an
\* upload reported as removed is not published by a straggling request.
AnswersHonoured ==
  /\ "completed" \in heard => row.status = "completed"
  /\ "aborted" \in heard => row.status \in {"completed", "gone"}
AnswersFinal ==
  [][row.status # "pending" => row'.status = row.status /\ row'.published = row.published]_vars

\* README.md:121 -- a session whose commit has begun is not removed because
\* its deadline passed, neither by the expiry job nor by a new upload that
\* reclaims its name; both decided so before they held the session's lock.
ExpirySparesCommits ==
  [][\A i \in Procs :
       pc[i] \in {"reclaim_tx", "sweep_tx"} /\ pc'[i] = "abort_parts"
       => row.commit_state = "receiving"]_vars

\* README.md:121 -- a commit that failed, or that a restart cut short, is
\* finished by the recovery job, unless the file stays in the trash.
CommitsConclude ==
  <>[]~row.trashed =>
    (Pending(row) /\ row.commit_state # "receiving" ~> ~Pending(row))

\* Refinement of UploadPublication: bytes count as accepted once they are
\* acknowledged with a hash; stored bytes without one when completion begins.
AcceptedBytes(k) ==
  CASE k \notin WriteKeys \/ row.status = "gone" -> None
    [] OTHER ->
       IF row.ack[k].hash # None THEN row.ack[k].hash
       ELSE IF row.status = "completed" THEN PublishedBytes(k)
       ELSE IF row.commit_state = "receiving" THEN None
       ELSE obj[k].content

SessionPhase ==
  CASE row.status = "gone" -> "discarded"
    [] row.status = "completed" -> "published"
    [] OTHER -> IF row.commit_state = "receiving" THEN "open" ELSE "closed"

Accepted  == [k \in Keys |-> AcceptedBytes(k)]
Published == [k \in Keys |-> IF row.status = "completed" /\ k \in WriteKeys
                             THEN PublishedBytes(k) ELSE None]

Publication == INSTANCE UploadPublication WITH
  Payloads <- Contents, phase <- SessionPhase, accepted <- Accepted, published <- Published

\* Every step of the session is a step of what it promises, or none.
ImplementsPublication == Publication!Spec

\* README.md:119 -- received parts are not overwritten by different content.
AcceptedBytesKept ==
  row.file = "ready" => \A k \in WriteKeys : told[k] \subseteq {PublishedBytes(k)}

\* README.md:119 -- a PUT that succeeded means its bytes are on disk to stay.
AcceptedIsDurable ==
  Receiving(row) =>
    \A k \in WriteKeys : told[k] \subseteq {durable[k].content}
=============================================================================

---------------------------- MODULE BlobReferences ----------------------------
(***************************************************************************)
(* Document blobs and what refers to them: saves with their version        *)
(* overrun, restored versions, copies, the trash, the durable cleanup      *)
(* queue that the triggers fill and a worker empties, and the garbage      *)
(* collector behind it.  Blobs live in a directory, references in the      *)
(* database; no transaction spans both.                                    *)
(***************************************************************************)
EXTENDS Integers, FiniteSets, Sequences

CONSTANTS
  Files, Keys,  \* ids and blob keys that may be generated, never twice
  Editors,      \* clients that read, save and restore documents
  None,         \* no row, no value
  Limit,        \* versions kept for a document
  MaxUndo,      \* bound: restored versions
  MaxFaults,    \* bound: interruptions, failed deletions, crashes
  MaxEvents     \* bound: ids, keys, restored versions and faults together

\* An etag is made of size and modification time when a blob is written, and
\* of an old one and a new id when a version is restored.
Tags == [of : Keys, id : 0..MaxUndo]
Contents == [key : Keys, tag : Tags]
Rows == [key : Keys, tag : Tags, trashed : BOOLEAN]

ASSUME BlobAssumption ==
  /\ None \notin Files \cup Keys \cup Rows \cup Nat
  /\ Limit \in Nat \ {0} /\ MaxUndo \in Nat /\ MaxFaults \in Nat
  /\ MaxEvents \in Nat

VARIABLES
  file,      \* files rows: object key, etag and whether it is in the trash
  versions,  \* document_versions of each file, oldest first
  queue,     \* object_cleanup: the generation of each queued key
  blobs,     \* keys in the object store
  old,       \* blobs older than the collector's cutoff
  req,       \* what each editor's request is at
  late,      \* submitted statements whose request or pass is gone
  worker,    \* the object-cleanup pass
  gc,        \* keys the collector is going to delete
  used,      \* ids and keys generated
  undo,      \* restored versions so far
  rev,       \* history: how often each document was changed
  left,      \* history: blobs whose request did not finish with them
  overrun,   \* history: a statement of a pass that timed out removed a row
  faults

Room(n) == Cardinality(used) + undo + faults + n <= MaxEvents

vars == <<file, versions, queue, blobs, old, req, late, worker, gc, used, undo,
          rev, left, overrun, faults>>

rows    == <<file, versions, queue, rev, undo>>
disk    == <<blobs, old, left>>
jobs    == <<worker, gc>>

-----------------------------------------------------------------------------
(* References.                                                             *)

Kept(f) == {versions[f][i].key : i \in DOMAIN versions[f]}
Exists(f) == file[f] # None
Live(f) == Exists(f) /\ ~file[f].trashed

\* What the catalogue needs, whatever the queries below say.
Needed(k) == \E f \in Files : Exists(f) /\ (file[f].key = k \/ k \in Kept(f))

\* Mutant: the query forgets the versions.
FilesOnly(fs) == {file[f].key : f \in {g \in fs : Exists(g)}}

\* The UNION ALL query over files and document_versions.
References(fs) == FilesOnly(fs) \cup UNION {Kept(f) : f \in {g \in fs : Exists(g)}}

Count(f, k) == Cardinality({i \in DOMAIN versions[f] : versions[f][i].key = k})

\* The triggers queue the key of every row that goes; a queued key gets a new
\* generation.  n[k] is the number of rows with key k.
Queued(n) ==
  [k \in Keys |-> IF n[k] = 0 THEN queue[k]
                  ELSE IF queue[k] = None THEN n[k] - 1 ELSE queue[k] + n[k]]

\* Mutant: the row is removed although the key was queued again.
RemovedAnyway(k, g) == [queue EXCEPT ![k] = None]

Removed(k, g) == IF queue[k] = g THEN [queue EXCEPT ![k] = None] ELSE queue

-----------------------------------------------------------------------------
(* Documents.                                                              *)

Tag(k, n) == [of |-> k, id |-> n]

FreshTag(t) == Tag(t.of, undo + 1)

\* Mutant: nothing is pruned.
Unpruned(s) == s

\* Mutant: the newest are pruned.
FirstOnes(s) == IF Len(s) <= Limit THEN s ELSE SubSeq(s, 1, Limit)

Pruned(s) == IF Len(s) <= Limit THEN s ELSE SubSeq(s, Len(s) - Limit + 1, Len(s))

\* The transaction of a save or a restore: snapshot the current content, prune,
\* refer to the new one.
Replace(f, k, t) ==
  LET all   == Append(versions[f], [key |-> file[f].key, tag |-> file[f].tag])
      kept  == Pruned(all)
      Gone(x) == Cardinality({i \in DOMAIN all : all[i].key = x})
                   - Cardinality({i \in DOMAIN kept : kept[i].key = x})
                   + (IF x = file[f].key /\ x # k THEN 1 ELSE 0)
  IN  /\ versions' = [versions EXCEPT ![f] = kept]
      /\ queue' = Queued([x \in Keys |-> Gone(x)])
      /\ file' = [file EXCEPT ![f] = [key |-> k, tag |-> t, trashed |-> FALSE]]
      /\ rev' = [rev EXCEPT ![f] = @ + 1]

NoReq == [pc |-> "idle", op |-> None, file |-> None, tag |-> None, rev |-> None,
          key |-> None, prev |-> None]

Goto(e, r) == req' = [req EXCEPT ![e] = r]

\* GET content: the editor holds the document's etag.
OpenDocument(e, f) ==
  /\ req[e].pc = "idle" /\ Exists(f)
  /\ Goto(e, [NoReq EXCEPT !.pc = "open", !.file = f, !.tag = file[f].tag, !.rev = rev[f]])
  /\ UNCHANGED <<rows, disk, late, jobs, used, overrun, faults>>

\* The blob is written under a new key before any row refers to it.  Nobody
\* else knows the key yet, so the write is one step with the look before it.
WriteBlob(e, r, k) ==
  /\ k \in Keys \ used /\ Room(1)
  /\ blobs' = blobs \cup {k}
  /\ Goto(e, [r EXCEPT !.pc = "commit", !.key = k])

\* PUT content: the row as it is, and the editor's etag if it sent one.  A
\* stale one is refused.
SaveLook(e, f, k, blind) ==
  /\ \/ req[e].pc = "open" /\ req[e].file = f /\ ~blind
     \/ req[e].pc = "idle" /\ blind
  /\ Live(f)
  /\ IF blind \/ req[e].tag = file[f].tag
     THEN /\ WriteBlob(e, [NoReq EXCEPT !.op = "save", !.file = f, !.prev = file[f],
                                        !.rev = IF blind THEN None ELSE req[e].rev], k)
          /\ used' = used \cup {k}
     ELSE Goto(e, NoReq) /\ UNCHANGED <<used, blobs>>
  /\ UNCHANGED <<rows, old, left, late, jobs, overrun, faults>>

CreateDocument(e, f, k) ==
  /\ req[e].pc = "idle" /\ f \in Files \ used /\ Room(2)
  /\ WriteBlob(e, [NoReq EXCEPT !.op = "create", !.file = f], k)
  /\ used' = used \cup {f, k}
  /\ UNCHANGED <<rows, old, left, late, jobs, overrun, faults>>

\* Mutant: only the key is compared again.
SameKey(r) == Live(r.file) /\ file[r.file].key = r.prev.key

Unchanged(r) == Live(r.file) /\ file[r.file] = r.prev

\* The statement or transaction of a request r; accepted says how it went.
Statement(r, accepted) ==
  \/ /\ r.op = "save" /\ accepted /\ Unchanged(r)
     /\ Replace(r.file, r.key, Tag(r.key, 0))
     /\ UNCHANGED undo
  \/ /\ r.op = "save" /\ ~accepted /\ ~Unchanged(r)
     /\ UNCHANGED rows
  \* the name may be taken, or the directory gone
  \/ /\ r.op = "create" /\ accepted
     /\ file' = [file EXCEPT ![r.file] = [key |-> r.key, tag |-> Tag(r.key, 0), trashed |-> FALSE]]
     /\ UNCHANGED <<versions, queue, rev, undo>>
  \/ /\ r.op = "create" /\ ~accepted
     /\ UNCHANGED rows

Commit(e) ==
  \E accepted \in BOOLEAN :
    /\ req[e].pc = "commit" /\ Statement(req[e], accepted)
    /\ Goto(e, IF accepted THEN NoReq ELSE [req[e] EXCEPT !.pc = "discard"])
    /\ UNCHANGED <<disk, late, jobs, used, overrun, faults>>

\* The row never landed: the blob is removed at once.
Discard(e) ==
  /\ req[e].pc = "discard"
  /\ blobs' = blobs \ {req[e].key} /\ old' = old \ {req[e].key}
  /\ Goto(e, NoReq)
  /\ UNCHANGED <<rows, left, late, jobs, used, overrun, faults>>

\* A version becomes the document again, under a new etag; what was current
\* becomes a version, and the oldest, perhaps the restored one, is pruned.
RestoreVersion(e, i) ==
  LET f == req[e].file IN
  /\ req[e].pc = "open" /\ Live(f) /\ undo < MaxUndo /\ Room(1)
  /\ i \in DOMAIN versions[f] /\ versions[f][i].key \in blobs
  /\ IF req[e].tag = file[f].tag
     THEN /\ Replace(f, versions[f][i].key, FreshTag(versions[f][i].tag))
          /\ undo' = undo + 1
     ELSE UNCHANGED rows
  /\ Goto(e, NoReq)
  /\ UNCHANGED <<disk, late, jobs, used, overrun, faults>>

\* A copy refers to the same blob.
CopyDocument(f, g) ==
  /\ Live(f) /\ g \in Files \ used /\ Room(1)
  /\ used' = used \cup {g}
  /\ file' = [file EXCEPT ![g] = file[f]]
  /\ UNCHANGED <<versions, queue, rev, undo, disk, req, late, jobs, overrun, faults>>

Trash(f) ==
  /\ Exists(f)
  /\ file' = [file EXCEPT ![f].trashed = ~@]
  /\ UNCHANGED <<versions, queue, rev, undo, disk, req, late, jobs, used, overrun, faults>>

\* The row goes, its versions with it, and the triggers queue every key.
Purge(f) ==
  /\ Exists(f) /\ file[f].trashed
  /\ queue' = Queued([k \in Keys |-> Count(f, k) + (IF file[f].key = k THEN 1 ELSE 0)])
  /\ file' = [file EXCEPT ![f] = None]
  /\ versions' = [versions EXCEPT ![f] = <<>>]
  /\ UNCHANGED <<rev, undo, disk, req, late, jobs, used, overrun, faults>>

-----------------------------------------------------------------------------
(* The object-cleanup job, one pass at a time.                             *)

Rest == [pc |-> "idle", todo |-> {}, refs |-> {}, cur |-> None]
At(w) == worker' = w

WorkerLoad ==
  /\ worker.pc = "idle" /\ \E k \in Keys : queue[k] # None
  /\ At([Rest EXCEPT !.pc = "refs",
                     !.todo = {<<k, queue[k]>> : k \in {x \in Keys : queue[x] # None}}])
  /\ UNCHANGED <<rows, disk, req, late, gc, used, overrun, faults>>

WorkerRefs ==
  /\ worker.pc = "refs"
  /\ At([worker EXCEPT !.pc = "next", !.refs = References(Files) \cap {c[1] : c \in worker.todo}])
  /\ UNCHANGED <<rows, disk, req, late, gc, used, overrun, faults>>

\* Referenced in the list, or by now.
WorkerNext ==
  /\ worker.pc = "next"
  /\ \/ worker.todo = {} /\ At(Rest)
     \/ \E c \in worker.todo :
          LET live == c[1] \in worker.refs \/ c[1] \in References(Files)
          IN  At([worker EXCEPT !.pc = IF live THEN "remove" ELSE "delete",
                                !.cur = c, !.todo = @ \ {c}])
  /\ UNCHANGED <<rows, disk, req, late, gc, used, overrun, faults>>

WorkerDelete ==
  /\ worker.pc = "delete"
  /\ blobs' = blobs \ {worker.cur[1]} /\ old' = old \ {worker.cur[1]}
  /\ left' = left \ {worker.cur[1]}
  /\ At([worker EXCEPT !.pc = "remove"])
  /\ UNCHANGED <<rows, req, late, gc, used, overrun, faults>>

\* Only the generation that was loaded is removed.
WorkerRemove ==
  /\ worker.pc = "remove"
  /\ queue' = Removed(worker.cur[1], worker.cur[2])
  /\ At([worker EXCEPT !.pc = "next", !.cur = None])
  /\ UNCHANGED <<file, versions, rev, undo, disk, req, late, gc, used, overrun, faults>>

WorkerStep == WorkerLoad \/ WorkerRefs \/ WorkerNext \/ WorkerDelete \/ WorkerRemove

-----------------------------------------------------------------------------
(* The collector: references, then blobs older than the cutoff that are    *)
(* not among them, then one deletion after the other.                      *)

Orphans(refs) == old \ refs

Collect ==
  /\ gc = {} /\ Orphans(References(Files)) # {}
  /\ gc' = Orphans(References(Files))
  /\ UNCHANGED <<rows, disk, req, late, worker, used, overrun, faults>>

CollectOne(k) ==
  /\ k \in gc
  /\ gc' = gc \ {k}
  /\ blobs' = blobs \ {k} /\ old' = old \ {k} /\ left' = left \ {k}
  /\ UNCHANGED <<rows, req, late, worker, used, overrun, faults>>

Held(k) ==
  \/ \E e \in Editors : req[e].key = k
  \/ \E s \in late : s.op # "remove" /\ s.key = k

\* Time passes.  The cutoff is hours back, longer than a request holds a blob.
Age ==
  /\ \E k \in blobs \ old : ~Held(k)
  /\ old' = old \cup {k \in blobs : ~Held(k)}
  /\ UNCHANGED <<rows, blobs, left, req, late, jobs, used, overrun, faults>>

-----------------------------------------------------------------------------
(* Faults.                                                                 *)

Fault == faults < MaxFaults /\ Room(1) /\ faults' = faults + 1

\* A client is gone: its request is dropped, but a statement that was already
\* submitted runs.
Interrupt(e) ==
  /\ Fault /\ req[e].pc \in {"commit", "discard"}
  /\ Goto(e, NoReq)
  /\ \/ /\ req[e].pc = "commit"
        /\ late' = late \cup {req[e]}
        /\ UNCHANGED left
     \/ /\ left' = left \cup ({req[e].key} \cap blobs)
        /\ UNCHANGED late
  /\ UNCHANGED <<rows, blobs, old, jobs, used, overrun>>

\* A pass fails or times out; its last statement may still run.
WorkerFails ==
  /\ Fault /\ worker.pc # "idle"
  /\ At(Rest)
  /\ \/ UNCHANGED late
     \/ /\ worker.pc = "remove"
        /\ late' = late \cup {[NoReq EXCEPT !.op = "remove", !.key = worker.cur[1],
                                            !.rev = worker.cur[2]]}
  /\ UNCHANGED <<rows, disk, req, gc, used, overrun>>

\* A deletion fails: the row is kept for another pass.
DeleteFails ==
  /\ Fault /\ worker.pc = "delete"
  /\ At([worker EXCEPT !.pc = "next", !.cur = None])
  /\ UNCHANGED <<rows, disk, req, late, gc, used, overrun>>

Land(s) ==
  /\ s \in late /\ late' = late \ {s}
  /\ \/ /\ s.op = "remove"
        /\ queue' = Removed(s.key, s.rev)
        /\ overrun' = TRUE
        /\ UNCHANGED <<file, versions, rev, undo, left>>
     \/ \E accepted \in BOOLEAN :
          /\ s.op # "remove" /\ Statement(s, accepted)
          /\ left' = IF accepted THEN left ELSE left \cup {s.key}
          /\ UNCHANGED overrun
  /\ UNCHANGED <<blobs, old, req, jobs, used, faults>>

Crash ==
  /\ Fault
  /\ req' = [e \in Editors |-> NoReq] /\ late' = {} /\ worker' = Rest /\ gc' = {}
  /\ left' = left \cup {k \in blobs : Held(k)}
  /\ UNCHANGED <<rows, blobs, old, used, overrun>>

-----------------------------------------------------------------------------

Init ==
  /\ file = [f \in Files |-> None] /\ versions = [f \in Files |-> <<>>]
  /\ queue = [k \in Keys |-> None]
  /\ blobs = {} /\ old = {} /\ left = {} /\ late = {}
  /\ req = [e \in Editors |-> NoReq] /\ worker = Rest /\ gc = {}
  /\ used = {} /\ undo = 0 /\ rev = [f \in Files |-> 0]
  /\ overrun = FALSE /\ faults = 0

EditorStep(e) ==
  \/ \E f \in Files : OpenDocument(e, f)
  \/ \E f \in Files, k \in Keys :
       CreateDocument(e, f, k) \/ \E blind \in BOOLEAN : SaveLook(e, f, k, blind)
  \/ Commit(e) \/ Discard(e)
  \/ \E i \in 1..Limit : RestoreVersion(e, i)

FileStep ==
  \E f \in Files : Trash(f) \/ Purge(f) \/ \E g \in Files : CopyDocument(f, g)

FaultStep ==
  \/ \E e \in Editors : Interrupt(e)
  \/ WorkerFails \/ DeleteFails \/ Crash
  \/ \E s \in late : Land(s)

Next ==
  \/ \E e \in Editors : EditorStep(e)
  \/ FileStep \/ WorkerStep
  \/ Collect \/ Age \/ \E k \in Keys : CollectOne(k)
  \/ FaultStep

Spec == Init /\ [][Next]_vars

-----------------------------------------------------------------------------
(* Properties.                                                             *)

Reqs == [pc : {"idle", "open", "commit", "discard"}, op : {"save", "create", None},
         file : Files \cup {None}, tag : Tags \cup {None}, rev : Nat \cup {None},
         key : Keys \cup {None}, prev : Rows \cup {None}]

\* The types; a document keeps at most Limit versions (version_routes.rs 44)
\* and generations count from 0.
TypeOK ==
  /\ file \in [Files -> Rows \cup {None}]
  /\ versions \in [Files -> Seq(Contents)]
  /\ \A f \in Files : Len(versions[f]) <= Limit
  /\ queue \in [Keys -> Nat \cup {None}]
  /\ old \subseteq blobs /\ blobs \subseteq Keys /\ gc \subseteq Keys
  /\ req \in [Editors -> Reqs]
  /\ worker.pc \in {"idle", "refs", "next", "delete", "remove"}
  /\ undo \in 0..MaxUndo /\ rev \in [Files -> Nat] /\ faults \in 0..MaxFaults

\* What a document or one of its versions refers to, trashed or not, is in the
\* store: neither the worker nor the collector, which decide first and delete
\* later, ever removes it (002_file_cleanup.sql 1-2, maintenance.rs 867-912).
ReferencedKept == \A k \in Keys : Needed(k) => k \in blobs

\* A blob that nothing refers to is queued, or still in the hands of a request,
\* or one that a request left behind for the collector.  Two passes and the
\* triggers race over the generation (maintenance.rs 954-969); only a pass that
\* timed out can remove a row that was queued anew.
CleanupQueued ==
  overrun \/ \A k \in blobs : Needed(k) \/ queue[k] # None \/ Held(k) \/ k \in left

\* A save that names an etag replaces the very revision its editor had read,
\* restored versions and their reused keys included (file_routes.rs 819-839,
\* version_routes.rs 117-118).
NoStaleSave ==
  [][\A r \in {req[e] : e \in Editors} \cup late :
       (r.op = "save" /\ r.rev # None /\ r.key # None /\ ~Needed(r.key) /\ Needed(r.key)')
         => r.rev = rev[r.file]]_vars

\* Content that a save or a restore replaces becomes a version in the same
\* step and is not the one that is pruned (version_routes.rs 40-46).
HistoryKept ==
  [][\A f \in Files :
       (Exists(f) /\ Exists(f)' /\ file'[f].tag # file[f].tag)
         => \E i \in DOMAIN versions'[f] :
              versions'[f][i] = [key |-> file[f].key, tag |-> file[f].tag]]_vars
=============================================================================

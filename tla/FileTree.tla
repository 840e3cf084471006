------------------------------- MODULE FileTree -------------------------------
(***************************************************************************)
(* The catalogue tree: the rows of the files table, the counters the       *)
(* triggers keep for each directory, and every handler and job that        *)
(* changes where a row is: directories, documents, copies, moves, the      *)
(* trash, uploads and the retention job.  A handler that looks first and   *)
(* changes in a later transaction is two actions; the history variable     *)
(* stale is the items that a transaction changed although what its request *)
(* had found of them no longer held.                                       *)
(***************************************************************************)
EXTENDS Integers, FiniteSets

CONSTANTS
  Dirs, Files,  \* ids that may be generated, never twice
  Root,         \* ROOT_ID
  Names,
  None,         \* NULL, and a row that is not there
  Handlers,     \* bound: requests between their check and their transaction
  Batch,        \* CLEANUP_BATCH
  MaxStale      \* bound: items changed on overtaken checks before a behaviour is cut

Nodes == Dirs \cup Files

Rows == [parent : Dirs \cup {None}, name : Names \cup {None}, ready : BOOLEAN,
         restore : Dirs \cup {None}, troot : Nodes \cup {None}]

Table == [Nodes -> Rows \cup {None}]

ASSUME TreeAssumption ==
  /\ IsFiniteSet(Dirs) /\ IsFiniteSet(Files) /\ Dirs \cap Files = {}
  /\ Root \in Dirs /\ None \notin Dirs \cup Files \cup Rows
  /\ Batch \in Nat \ {0} /\ MaxStale \in Nat

VARIABLES
  row,    \* the files table; deleted_at is set when trash_root_id (troot) is
  stats,  \* directory_stats.file_count
  used,   \* ids generated
  job,    \* what each request between two statements has found
  stale   \* history: items changed on an overtaken check

vars == <<row, stats, used, job, stale>>

-----------------------------------------------------------------------------
(* The table.                                                              *)

Present(r) == {n \in Nodes : r[n] # None}
Live(r)    == {n \in Present(r) : r[n].troot = None}
Trashed(r) == {n \in Present(r) : r[n].troot # None}
LiveDirs(r) == Live(r) \cap Dirs
Listed(r)  == {n \in Trashed(r) : r[n].troot = n}
Ready(r)   == {n \in Live(r) : r[n].ready}

\* The recursive queries: x and what hangs below it, by parent_id among the
\* rows R, H being those that have one below; nothing when x is not one of R.
Below(r, R, x) ==
  LET H == {r[m].parent : m \in R} \cap R
      Whole == {D \in SUBSET H : \A d \in H : d = x \/ r[d].parent \in D => d \in D}
  IN  {n \in R : x \in R /\ (n = x \/ \A D \in Whole : r[n].parent \in D)}

\* Unique names in a directory, rows in the trash aside, and the foreign key.
UniqueNames(r) ==
  \A m, n \in Live(r) :
    /\ m # n /\ r[m].parent = r[n].parent /\ r[m].parent # None
    => r[m].name # r[n].name
ParentsPresent(r) == {r[n].parent : n \in Present(r)} \subseteq Present(r) \cup {None}
Constraints(r) == UniqueNames(r) /\ ParentsPresent(r)

NewRow(p, n, ok) ==
  [parent |-> p, name |-> n, ready |-> ok, restore |-> None, troot |-> None]
RootRow == [parent |-> None, name |-> None, ready |-> TRUE,
            restore |-> None, troot |-> None]

-----------------------------------------------------------------------------
(* The triggers.                                                           *)

Counted(r) == Ready(r) \cap Files

\* The directories above n, by parent_id.  On a cycle the trigger runs for ever
\* and nothing is committed, as do the recursive queries; here they end, which only
\* adds behaviours.
Upward(r, n, S) ==
  /\ r[n].parent \in S \cup {None}
  /\ \A d \in S \cap Present(r) : r[d].parent \in S \cup {None}
Above(r, n) ==
  LET Whole == {S \in SUBSET Dirs : Upward(r, n, S)}
  IN  {d \in Dirs : \A S \in Whole : d \in S}

\* Each file of F counts k more in every directory above it.
Shifted(s, r, F, k) ==
  [d \in Dirs |-> s[d] + k * Cardinality({f \in F : d \in Above(r, f)})]

\* Mutant: what ceases to count is not subtracted.
OnlyMore(s, old, new) == Shifted(s, new, Counted(new) \ Counted(old), 1)

\* Files that begin or cease to count, where they are.
Recounted(s, old, new) ==
  LET less == Shifted(s, old, Counted(old) \ Counted(new), -1)
      more == Shifted(less, new, Counted(new) \ Counted(old), 1)
  IN  [d \in Dirs |-> IF new[d] = None THEN 0 ELSE more[d]]

\* Mutant: only the file itself is carried, as without the directory's trigger.
FilesCarried(s, old, new, n) ==
  IF n \in Files
  THEN Shifted(Shifted(s, old, {n} \cap Counted(old), -1), new, {n} \cap Counted(old), 1)
  ELSE s

\* A live row moves: its own count, or that of the directory, goes along.
Carried(s, old, new, n) ==
  LET k == IF n \in Files THEN Cardinality({n} \cap Counted(old)) ELSE s[n]
  IN  [d \in Dirs |-> s[d] - (IF d \in Above(old, n) THEN k ELSE 0)
                           + (IF d \in Above(new, n) THEN k ELSE 0)]

-----------------------------------------------------------------------------
(* What the transactions do to the table.                                  *)

\* Mutant: only the item itself comes back.
RestoredAlone(r, n, p) ==
  [r EXCEPT ![n].parent = p, ![n].troot = None, ![n].restore = None]

Moved(r, n, p) == [r EXCEPT ![n].parent = p]

Cleared(r, n) ==
  [m \in Nodes |-> IF m \in Trashed(r) /\ r[m].troot = n
                   THEN [r[m] EXCEPT !.troot = None, !.restore = None]
                   ELSE r[m]]

Restored(r, n, p) == Cleared(Moved(r, n, p), n)

\* The live subtree is marked, then n is detached whatever was found.
Discarded(r, n) ==
  LET T == Below(r, Live(r), n)
      marked == [m \in Nodes |-> IF m \in T THEN [r[m] EXCEPT !.troot = n] ELSE r[m]]
  IN  [marked EXCEPT ![n].restore = r[n].parent, ![n].parent = None]

Erased(r, S) == [n \in Nodes |-> IF n \in S THEN None ELSE r[n]]

\* Mutant: any directory will do as the target.
MayAlwaysMove(n, p) == p \in LiveDirs(row)

MayMove(n, p) ==
  /\ p \in LiveDirs(row)
  /\ n \in Dirs => p \notin Below(row, Present(row), n)

Fresh == Nodes \ used

\* A statement that breaks a constraint is refused and changes nothing.
Write(new, s) ==
  IF Constraints(new) THEN row' = new /\ stats' = s ELSE UNCHANGED <<row, stats>>

-----------------------------------------------------------------------------
(* Operations that are one transaction, or one statement.                  *)

\* An upload, a document: the parent is checked by the INSERT itself.
InsertFile(f, p, n, ok) ==
  /\ f \in Fresh \cap Files /\ p \in LiveDirs(row)
  /\ used' = used \cup {f}
  /\ LET new == [row EXCEPT ![f] = NewRow(p, n, ok)]
     IN  Write(new, Recounted(stats, row, new))
  /\ UNCHANGED <<job, stale>>

Reserve(f, p, n)        == InsertFile(f, p, n, FALSE)
CreateDocument(f, p, n) == InsertFile(f, p, n, TRUE)

PublishUpload(f) ==
  /\ f \in Live(row) /\ ~row[f].ready
  /\ LET new == [row EXCEPT ![f].ready = TRUE]
     IN  Write(new, Recounted(stats, row, new))
  /\ UNCHANGED <<used, job, stale>>

\* An upload aborted or expired, in the trash or not.
DropUpload(f) ==
  /\ f \in Present(row) /\ ~row[f].ready
  /\ row' = Erased(row, {f})
  /\ UNCHANGED <<stats, used, job, stale>>

Rename(n, name) ==
  /\ n \in Live(row) \ {Root}
  /\ Write([row EXCEPT ![n].name = name], stats)
  /\ UNCHANGED <<used, job, stale>>

Move(n, p) ==
  /\ n \in Live(row) \ {Root} /\ p # row[n].parent /\ MayMove(n, p)
  /\ Write(Moved(row, n, p), Carried(stats, row, Moved(row, n, p), n))
  /\ UNCHANGED <<used, job, stale>>

\* A live subtree, all of it ready, under new ids and a free name.
Copied(O, n, f, p, name) ==
  [m \in Nodes |->
     IF \E o \in O : f[o] = m
     THEN LET o == CHOOSE o \in O : f[o] = m
          IN  IF o = n THEN NewRow(p, name, TRUE)
              ELSE NewRow(f[row[o].parent], row[o].name, TRUE)
     ELSE row[m]]

Taken(p, name) == \E m \in Live(row) : row[m].parent = p /\ row[m].name = name

Copy(n, p) ==
  LET O == Below(row, Live(row), n) IN
  /\ IF n \in Dirs THEN Fresh \cap Dirs # {} ELSE Fresh \cap Files # {}
  /\ n \in Ready(row) \ {Root} /\ p \in LiveDirs(row)
  /\ p \notin O /\ O \subseteq Ready(row)
  /\ \E f \in [O -> Fresh], name \in Names :
       /\ \A o, q \in O : o # q => f[o] # f[q]
       /\ \A o \in O : f[o] \in Dirs <=> o \in Dirs
       /\ ~Taken(p, name) /\ (~Taken(p, row[n].name) => name = row[n].name)
       /\ used' = used \cup {f[o] : o \in O}
       /\ LET new == Copied(O, n, f, p, name)
          IN  Write(new, Recounted(stats, row, new))
  /\ UNCHANGED <<job, stale>>

EmptyTrash ==
  /\ Trashed(row) # {}
  /\ LET new == Erased(row, Trashed(row))
     IN  Write(new, Recounted(stats, row, new))
  /\ UNCHANGED <<used, job, stale>>

\* Trashings E are past the retention: their rows go, leaves first, a batch
\* at a time, so that a long one is cut anywhere.
CleanupTrash(E) ==
  \E S \in SUBSET {n \in Trashed(row) : row[n].troot \in E} :
    LET Due == {n \in Trashed(row) : row[n].troot \in E} IN
    /\ S # {} /\ Cardinality(S) <= Batch
    /\ \A n \in Present(row) : row[n].parent \in S => n \in S
    /\ Cardinality(S) < Batch =>
         \A n \in Due \ S : \E m \in Present(row) \ S : row[m].parent = n
    /\ row' = Erased(row, S)
    /\ stats' = Recounted(stats, row, Erased(row, S))
    /\ UNCHANGED <<used, job, stale>>

-----------------------------------------------------------------------------
(* Requests that check, and change in a statement or transaction of their  *)
(* own.                                                                    *)

Idle == [op |-> "idle", node |-> None, parent |-> None]
Found(op, n, p) == [op |-> op, node |-> n, parent |-> p]

Look(h, found) ==
  /\ job[h] = Idle
  /\ job' = [job EXCEPT ![h] = found]
  /\ UNCHANGED <<row, stats, used, stale>>

CheckCreate(h, p) ==
  /\ p \in LiveDirs(row)
  /\ Fresh \cap Dirs # {}
  /\ Look(h, Found("create", None, p))

CheckDelete(h, n) ==
  /\ n \in Live(row) \ {Root}
  /\ Look(h, Found(IF row[n].ready THEN "trash" ELSE "drop", n, None))

\* Back to where it was, or to the root when that is not there any more.
CheckRestore(h, n) ==
  /\ n \in Listed(row)
  /\ LET p == IF row[n].restore \in LiveDirs(row) THEN row[n].restore ELSE Root
     IN  Look(h, Found("restore", n, p))

CheckPurge(h, n) == n \in Listed(row) /\ Look(h, Found("purge", n, None))

\* The request answers; what it had found of the items overtaken no longer held.
Finish(h, overtaken) ==
  /\ job' = [job EXCEPT ![h] = Idle]
  /\ stale' = stale \cup overtaken

\* Nothing looks at the name before the INSERT.
CreateDirectory(h) ==
  LET p == job[h].parent IN
  /\ job[h].op = "create"
  /\ \E d \in Fresh \cap Dirs, name \in Names :
       /\ used' = used \cup {d}
       /\ LET new == [row EXCEPT ![d] = NewRow(p, name, TRUE)]
          IN  Write(new, stats)
       /\ Finish(h, IF p \in LiveDirs(row) THEN {} ELSE {d})

TrashItem(h) ==
  LET n == job[h].node IN
  /\ job[h].op = "trash"
  /\ IF n \in Present(row)
     THEN Write(Discarded(row, n), Recounted(stats, row, Discarded(row, n)))
     ELSE UNCHANGED <<row, stats>>
  /\ Finish(h, {n} \cap Trashed(row))
  /\ UNCHANGED used

\* Mutant: the row is deleted because it was unfinished when it was found.
StillDroppable(n) == n \in Present(row)

Droppable(n) == n \in Present(row) /\ ~row[n].ready

DropItem(h) ==
  LET n == job[h].node IN
  /\ job[h].op = "drop"
  /\ IF Droppable(n)
     THEN LET new == Erased(row, {n}) IN Write(new, Recounted(stats, row, new))
     ELSE UNCHANGED <<row, stats>>
  /\ Finish(h, {})
  /\ UNCHANGED used

RestoreItem(h) ==
  LET n == job[h].node
      p == job[h].parent
  IN
  /\ job[h].op = "restore"
  /\ IF n \in Present(row)
     THEN LET there == Moved(row, n, p)
              s == IF n \in Live(row) THEN Carried(stats, row, there, n) ELSE stats
              new == Restored(row, n, p)
          IN  Write(new, Recounted(s, there, new))
     ELSE UNCHANGED <<row, stats>>
  /\ Finish(h, IF n \in Listed(row) /\ p \in LiveDirs(row) THEN {}
               ELSE {n} \cap Present(row))
  /\ UNCHANGED used

PurgeItem(h) ==
  LET n == job[h].node
      new == Erased(row, Below(row, Present(row), n))
  IN
  /\ job[h].op = "purge"
  /\ Write(new, Recounted(stats, row, new))
  /\ Finish(h, {n} \cap Live(row))
  /\ UNCHANGED used

-----------------------------------------------------------------------------

Init ==
  /\ row = [n \in Nodes |-> IF n = Root THEN RootRow ELSE None]
  /\ stats = [d \in Dirs |-> 0]
  /\ used = {Root}
  /\ job = [h \in Handlers |-> Idle]
  /\ stale = {}

FileStep ==
  \E f \in Files :
    \/ \E p \in Dirs, name \in Names : Reserve(f, p, name) \/ CreateDocument(f, p, name)
    \/ PublishUpload(f) \/ DropUpload(f)

NodeStep ==
  \E n \in Nodes :
    \/ \E name \in Names : Rename(n, name)
    \/ \E p \in Dirs : Move(n, p) \/ Copy(n, p)

TrashStep ==
  \/ EmptyTrash
  \/ \E E \in SUBSET {row[n].troot : n \in Trashed(row)} : CleanupTrash(E)

\* Bound: after MaxStale items, no check but those under way.
CheckStep(h) ==
  /\ job[h] = Idle /\ Cardinality(stale) < MaxStale
  /\ \/ \E p \in Dirs : CheckCreate(h, p)
     \/ \E n \in Nodes : CheckDelete(h, n) \/ CheckRestore(h, n) \/ CheckPurge(h, n)

ChangeStep(h) ==
  CreateDirectory(h) \/ TrashItem(h) \/ DropItem(h) \/ RestoreItem(h) \/ PurgeItem(h)

\* Bounds: a behaviour ends with more than MaxStale items, or with a counter that
\* past an overtaken check has drifted out of what is counted at all.
Next ==
  /\ Cardinality(stale) <= MaxStale
  /\ \A d \in Dirs : stats[d] \in 0..Cardinality(Files)
  /\ \/ FileStep \/ NodeStep \/ TrashStep
     \/ \E h \in Handlers : CheckStep(h) \/ ChangeStep(h)

Spec == Init /\ [][Next]_vars

-----------------------------------------------------------------------------
(* Properties.                                                             *)

Jobs == [op : {"idle", "create", "trash", "drop", "restore", "purge"},
           node : Nodes \cup {None}, parent : Dirs \cup {None}]

\* Types; a counter is negative only after an overtaken check.
TypeOK ==
  /\ row \in Table
  /\ stats \in [Dirs -> Int]
  /\ stale = {} => \A d \in Dirs : stats[d] >= 0
  /\ used \in SUBSET Nodes /\ Present(row) \subseteq used
  /\ job \in [Handlers -> Jobs]
  /\ stale \subseteq Nodes

\* Every group of rows has one whose parent is outside of it, or has one of X.
Acyclic(r, X) ==
  \A S \in SUBSET (Present(r) \ X) : S # {} => \E n \in S : r[n].parent \notin S

\* The items of X, and what hangs below them.
Under(X) == UNION {Below(row, Present(row), x) : x \in X}

\* A live item is in a live directory, and following parents ends at the root.
\* Neither is promised of an item that a request changed after another had overtaken
\* its check: a restore into a directory trashed meanwhile, a directory created in
\* one.  But it is that very item that is out of place: all others, those that hang
\* below it included, keep a live parent, and a knot of parents has it in it, also
\* when the tree is changed further.
LivePlaces ==
  /\ Root \in Live(row)
  /\ \A n \in Live(row) \ ({Root} \cup stale) : row[n].parent \in LiveDirs(row)
  /\ Acyclic(row, stale)

\* Whatever is in the trash hangs below an item that the trash page lists and that
\* knows where it came from, also when a trashing, a purge or the retention job took
\* only a part of it.  A deletion that another has overtaken detaches its item all
\* the same (file_routes.rs:533, against the comment at 519-521): that item and what
\* hangs below it may be listed nowhere, nothing else.
TrashListed ==
  /\ Trashed(row) \subseteq Under(Listed(row) \cup stale)
  /\ \A x \in Listed(row) \ stale : row[x].restore # None

\* Until a check is overtaken, the counters of the triggers are the number of
\* finished files below each directory, after any sequence of moves, trashings,
\* restores, uploads and deletions of subtrees.
StatsExact ==
  \/ stale # {}
  \/ \A d \in Dirs :
       stats[d] = Cardinality({f \in Counted(row) : d \in Above(row, f)})

\* A finished item goes through the trash before its row is deleted.  A purge takes
\* live ones with it only where a check was overtaken (file_routes.rs:671): the item
\* purged has been restored since, or a restore or a new directory has been put below
\* it; and then no more than such an item and what hangs below it.
NothingLiveErased ==
  [][\A n \in Ready(row) \ Present(row') :
       \E x \in stale' : n \in Below(row, Present(row), x)]_vars
=============================================================================

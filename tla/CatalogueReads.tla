--------------------------- MODULE CatalogueReads ---------------------------
(***************************************************************************)
(* The reads and writes of the metadata database: the bounded pool of      *)
(* db.rs and the versioned read-through cache of query_cache.rs above it.  *)
(*                                                                         *)
(* A read of the catalogue (catalog, file) loads the database's revision,  *)
(* looks for the page under that revision, takes the lock of that key,     *)
(* looks again, asks the database, and stores what it got only if the      *)
(* revision is still the one it began with.  Every database operation      *)
(* (call, call_api) is admitted or refused, waits for a worker permit or   *)
(* times out, and then runs on a blocking thread that cannot be cancelled: *)
(* it takes a connection, runs, publishes a new revision if anything       *)
(* changed, gives the connection back and, last of all, its permits.       *)
(*                                                                         *)
(* `content' counts the commits, so a page's value is the commit it shows. *)
(* `answered' is history: the newest commit whose writer has been told.    *)
(***************************************************************************)
EXTENDS Naturals, FiniteSets

CONSTANTS Readers,      \* requests that read the catalogue
          Writers,      \* requests that change the database
          Pages,        \* the URLs read, after normalisation
          Size,         \* connections, and worker permits (POOL_SIZE)
          Operations,   \* operations admitted (MAX_DATABASE_OPERATIONS)
          MaxWrites,    \* bound: commits
          MaxFaults,    \* bound: rollbacks, failed opens, departures, crashes
          None

ASSUME CatalogueAssumption ==
    /\ Size \in Nat \ {0}
    /\ Operations \in Nat \ {0}
    /\ MaxWrites \in Nat
    /\ MaxFaults \in Nat
    /\ None \notin Nat
    /\ Readers \cap Writers = {}
    /\ IsFiniteSet(Readers \cup Writers)

VARIABLES content,    \* commits so far
          answered,   \* the newest commit that some client was told of
          revision,   \* Pool.revision
          cache,      \* the pages held, each under the revision it was read at
          admitted,   \* permits taken of Pool.admitted
          workers,    \* permits left of Pool.workers
          idle,       \* PoolState.idle, counted
          total,      \* PoolState.total
          req,        \* what each request is doing
          faults

vars == <<content, answered, revision, cache, admitted, workers, idle, total,
          req, faults>>
pool == <<admitted, workers, idle, total>>
data == <<content, answered, revision, cache>>

Requests == Readers \cup Writers

\* Where a request is: outside the database, in the closure, and after it.
Before == {"look", "lock", "call", "queued"}
Closure == {"granted", "opening", "running", "ran", "release", "returning"}
After == {"returned", "storing", "answered"}
Stages == {"rest"} \cup Before \cup Closure \cup After

Connection == {"opening", "running", "ran", "release"}

Entries == [page : Pages, rev : Nat, value : Nat]
Records == [pc : Stages, page : Pages \cup {None}, rev : Nat, since : Nat,
            value : Nat \cup {None}, changed : BOOLEAN, gone : BOOLEAN]

Rest == [pc |-> "rest", page |-> None, rev |-> 0, since |-> 0, value |-> None,
         changed |-> FALSE, gone |-> FALSE]

At(r, stage) == req[r].pc = stage
Goto(r, stage) == req' = [req EXCEPT ![r].pc = stage]
Finish(r) == req' = [req EXCEPT ![r] = Rest]
Fault == faults < MaxFaults /\ faults' = faults + 1

Init == /\ content = 0 /\ answered = 0 /\ revision = 0 /\ cache = {}
        /\ admitted = 0 /\ workers = Size /\ idle = 0 /\ total = 0
        /\ req = [r \in Requests |-> Rest]
        /\ faults = 0

-----------------------------------------------------------------------------
(* Requests, down to the database.                                         *)

\* The entries that answer r, and the requests that hold the lock of its key.
Hits(r) == {e \in cache : e.page = req[r].page /\ e.rev = req[r].rev}
Holders(r) == {s \in Readers \ {r} :
                 /\ req[s].pc \in (Closure \cup {"call", "queued", "returned", "storing"})
                 /\ ~req[s].gone
                 /\ req[s].page = req[r].page /\ req[s].rev = req[r].rev}

\* A read begins: the revision is loaded before anything is looked at.
BeginRead(r, p) ==
    /\ At(r, "rest")
    /\ req' = [req EXCEPT ![r] =
                 [pc |-> "look", page |-> p, rev |-> revision, since |-> answered,
                  value |-> None, changed |-> FALSE, gone |-> FALSE]]
    /\ UNCHANGED <<pool, data, faults>>

\* A lookup: the cached page is the answer, or the read goes on to `next'.
Lookup(r, next) ==
    \/ \E e \in Hits(r) : req' = [req EXCEPT ![r].pc = "answered",
                                             ![r].value = e.value]
    \/ Hits(r) = {} /\ Goto(r, next)

Look(r) == At(r, "look") /\ Lookup(r, "lock") /\ UNCHANGED <<pool, data, faults>>

\* The key's lock is taken and the cache looked at again.
Lock(r) == /\ At(r, "lock") /\ Holders(r) = {}
           /\ Lookup(r, "call")
           /\ UNCHANGED <<pool, data, faults>>

\* A write goes to the database at once.
BeginWrite(w) ==
    /\ At(w, "rest")
    /\ content + Cardinality({v \in Writers : ~At(v, "rest")}) < MaxWrites
    /\ Goto(w, "call")
    /\ UNCHANGED <<pool, data, faults>>

-----------------------------------------------------------------------------
(* Admission: try_acquire, then a worker permit or the timeout.            *)

Admit(r) == /\ At(r, "call") /\ admitted < Operations
            /\ admitted' = admitted + 1
            /\ Goto(r, "queued")
            /\ UNCHANGED <<workers, idle, total, data, faults>>

Refuse(r) == /\ At(r, "call") /\ admitted = Operations
             /\ Finish(r)
             /\ UNCHANGED <<pool, data, faults>>

Grant(r) == /\ At(r, "queued") /\ workers > 0
            /\ workers' = workers - 1
            /\ Goto(r, "granted")
            /\ UNCHANGED <<admitted, idle, total, data, faults>>

\* The permit is polled before the timer: it only runs out while none is free.
TimeOut(r) == /\ At(r, "queued") /\ workers = 0
              /\ admitted' = admitted - 1
              /\ Finish(r)
              /\ UNCHANGED <<workers, idle, total, data, faults>>

-----------------------------------------------------------------------------
(* The closure on its blocking thread.                                     *)

\* Pool.acquire: an idle connection, or the right to open one.  Otherwise
\* the thread sleeps on the condition variable.
Acquire(r) ==
    /\ At(r, "granted")
    /\ \/ /\ idle > 0
          /\ idle' = idle - 1 /\ total' = total
          /\ Goto(r, "running")
       \/ /\ idle = 0 /\ total < Size
          /\ total' = total + 1 /\ idle' = idle
          /\ Goto(r, "opening")
    /\ UNCHANGED <<admitted, workers, data, faults>>

Open(r) == /\ At(r, "opening") /\ Goto(r, "running")
           /\ UNCHANGED <<pool, data, faults>>

\* Mutant: a failed open keeps its place in the pool.
KeepsPlace(r) == /\ At(r, "opening") /\ Fault
                 /\ Goto(r, "returning")
                 /\ UNCHANGED <<pool, data>>

OpenFails(r) == /\ At(r, "opening") /\ Fault
                /\ total' = total - 1
                /\ Goto(r, "returning")
                /\ UNCHANGED <<admitted, workers, idle, data>>

Query(r) == /\ r \in Readers /\ At(r, "running")
            /\ req' = [req EXCEPT ![r].pc = "ran", ![r].value = content]
            /\ UNCHANGED <<pool, data, faults>>

Commit(w) == /\ w \in Writers /\ At(w, "running")
             /\ content' = content + 1
             /\ req' = [req EXCEPT ![w].pc = "ran", ![w].value = content + 1,
                                   ![w].changed = TRUE]
             /\ UNCHANGED <<pool, answered, revision, cache, faults>>

\* total_changes counts what was rolled back too.
RollBack(w) == /\ w \in Writers /\ At(w, "running") /\ Fault
               /\ req' = [req EXCEPT ![w].pc = "ran", ![w].changed = TRUE]
               /\ UNCHANGED <<pool, data>>

\* PooledConnection is dropped: the revision first ...
Publish(r) == /\ At(r, "ran")
              /\ revision' = IF req[r].changed THEN revision + 1 ELSE revision
              /\ Goto(r, "release")
              /\ UNCHANGED <<pool, content, answered, cache, faults>>

\* Mutant: the connection is closed, and its place not given up.
Closes(r) == /\ At(r, "release")
             /\ Goto(r, "returning")
             /\ UNCHANGED <<pool, data, faults>>

\* ... then the connection ...
Release(r) == /\ At(r, "release")
              /\ idle' = idle + 1
              /\ Goto(r, "returning")
              /\ UNCHANGED <<admitted, workers, total, data, faults>>

\* ... and the permits, which were bound before it, after it.
ReturnPermits(r) ==
    /\ At(r, "returning")
    /\ admitted' = admitted - 1 /\ workers' = workers + 1
    /\ IF req[r].gone THEN Finish(r) ELSE Goto(r, "returned")
    /\ UNCHANGED <<idle, total, data, faults>>

-----------------------------------------------------------------------------
(* Requests, back to the client.                                           *)

\* The handler has an error, an outdated page, or one that may be stored.
ReadDone(r) ==
    /\ r \in Readers /\ At(r, "returned")
    /\ \/ req[r].value = None /\ Finish(r)
       \/ req[r].value # None /\ revision # req[r].rev /\ Goto(r, "answered")
       \/ req[r].value # None /\ revision = req[r].rev /\ Goto(r, "storing")
    /\ UNCHANGED <<pool, data, faults>>

\* Mutant: the key is made when the page is stored.
StoreNow(r) ==
    /\ At(r, "storing")
    /\ cache' = (cache \ Hits(r)) \cup {[page |-> req[r].page, rev |-> revision,
                                         value |-> req[r].value]}
    /\ Goto(r, "answered")
    /\ UNCHANGED <<pool, content, answered, revision, faults>>

Store(r) ==
    /\ At(r, "storing")
    /\ cache' = (cache \ Hits(r)) \cup {[page |-> req[r].page, rev |-> req[r].rev,
                                         value |-> req[r].value]}
    /\ Goto(r, "answered")
    /\ UNCHANGED <<pool, content, answered, revision, faults>>

\* The page is on its way: the key's lock is free again.
Receive(r) == At(r, "answered") /\ Finish(r) /\ UNCHANGED <<pool, data, faults>>

WriteDone(w) ==
    /\ w \in Writers /\ At(w, "returned")
    /\ answered' = IF req[w].value # None /\ req[w].value > answered
                   THEN req[w].value ELSE answered
    /\ Finish(w)
    /\ UNCHANGED <<pool, content, revision, cache, faults>>

-----------------------------------------------------------------------------
(* Faults.                                                                 *)

\* Mutant: a client that hangs up in the queue leaves its admission behind.
LeaveAdmitted(r) ==
    /\ ~At(r, "rest") /\ ~req[r].gone /\ Fault
    /\ IF req[r].pc \in Closure THEN req' = [req EXCEPT ![r].gone = TRUE] ELSE Finish(r)
    /\ UNCHANGED <<pool, data>>

\* The client hangs up: its future is dropped where it waits.  A closure that
\* has its permits runs to its end, unheard.
Leave(r) ==
    /\ ~At(r, "rest") /\ ~req[r].gone /\ Fault
    /\ IF req[r].pc \in Closure THEN req' = [req EXCEPT ![r].gone = TRUE] ELSE Finish(r)
    /\ admitted' = IF At(r, "queued") THEN admitted - 1 ELSE admitted
    /\ UNCHANGED <<workers, idle, total, data>>

\* The cache drops an entry: its time is up, or the memory is needed.
Evict == \E e \in cache : /\ cache' = cache \ {e}
                          /\ UNCHANGED <<pool, content, answered, revision, req, faults>>

\* Mutant: the cached pages survive the process.
CacheSurvives == /\ Fault
                 /\ revision' = 0
                 /\ admitted' = 0 /\ workers' = Size /\ idle' = 0 /\ total' = 0
                 /\ req' = [r \in Requests |-> Rest]
                 /\ UNCHANGED <<content, answered, cache>>

\* The process dies.  What was committed stays; the revision starts again.
Crash == /\ Fault
         /\ revision' = 0 /\ cache' = {}
         /\ admitted' = 0 /\ workers' = Size /\ idle' = 0 /\ total' = 0
         /\ req' = [r \in Requests |-> Rest]
         /\ UNCHANGED <<content, answered>>

-----------------------------------------------------------------------------
RequestStep(r) == \/ Look(r) \/ Lock(r)
                  \/ ReadDone(r) \/ Store(r) \/ Receive(r) \/ WriteDone(r)
AdmissionStep(r) == Admit(r) \/ Refuse(r) \/ Grant(r) \/ TimeOut(r)
ClosureStep(r) == \/ Acquire(r) \/ Open(r) \/ Query(r) \/ Commit(r)
                  \/ Publish(r) \/ Release(r) \/ ReturnPermits(r)
FaultStep(r) == OpenFails(r) \/ RollBack(r) \/ Leave(r)

Next == \/ \E r \in Readers : \E p \in Pages : BeginRead(r, p)
        \/ \E w \in Writers : BeginWrite(w)
        \/ \E r \in Requests : RequestStep(r) \/ AdmissionStep(r)
                                 \/ ClosureStep(r) \/ FaultStep(r)
        \/ Evict \/ Crash

\* Threads and tasks run; the lock of a key is a tokio Mutex, first come
\* first served.  Nothing is asked of clients, of evictions or of faults.
Fairness ==
    \A r \in Requests : /\ WF_vars(RequestStep(r) \/ AdmissionStep(r) \/ ClosureStep(r))
                        /\ SF_vars(Lock(r))

Spec == Init /\ [][Next]_vars /\ Fairness

-----------------------------------------------------------------------------
(* Who holds a permit of each kind, and who a place in the pool.           *)
Admitted == {r \in Requests : req[r].pc \in Closure \cup {"queued"}}
Working == {r \in Requests : req[r].pc \in Closure}
Connected == {r \in Requests : req[r].pc \in Connection}

(* The type invariant.                                                     *)
TypeOK == /\ content \in Nat /\ answered \in 0..content /\ revision \in Nat
          /\ cache \subseteq Entries
          /\ \A e \in cache : e.rev <= revision
          /\ admitted \in 0..Operations /\ workers \in 0..Size
          /\ total \in 0..Size /\ idle \in 0..total
          /\ req \in [Requests -> Records]
          /\ \A r \in Requests : req[r].rev <= revision
          /\ faults \in 0..MaxFaults

\* A read that begins after a write was answered shows that write, whether the
\* page comes from the cache, from another reader's query or from its own:
\* "Writes publish a new revision before returning" (query_cache.rs 3), "can
\* never retain stale responses" (db.rs 411-413).
Fresh == \A r \in Readers : At(r, "answered") => req[r].value >= req[r].since

\* Every permit and every connection is held by exactly one closure, whoever
\* hung up and whatever failed: admission, workers and pool never leak and
\* never count one twice (db.rs 289-301, 518-522).
Accounted ==
    /\ admitted = Cardinality(Admitted)
    /\ workers + Cardinality(Working) = Size
    /\ total = idle + Cardinality(Connected)

\* A closure that has its worker permit never sleeps on the pool's condition
\* variable: a connection is idle or there is room for one more, because the
\* connection goes back before the permit does (db.rs 269-311, 518-522).
ConnectionReady ==
    \A r \in Requests : At(r, "granted") => idle > 0 \/ total < Size

\* Every request is answered, refused or timed out: no one waits for ever for
\* a key's lock, a permit or a connection (query_cache.rs 47-67, db.rs 504-525).
Answered == \A r \in Requests : ~At(r, "rest") ~> At(r, "rest")
=============================================================================

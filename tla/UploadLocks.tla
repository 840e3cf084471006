----------------------------- MODULE UploadLocks -----------------------------
(***************************************************************************)
(* The locks of one upload session (UploadRuntime in state.rs) and the     *)
(* order in which its requests take them.  The session's RwLock, the part  *)
(* mutexes and the I/O slots are all tokio semaphores: permits, and a      *)
(* first-come-first-served queue that a request joins even when permits    *)
(* are free but somebody already waits.  The named locks live in maps that *)
(* forget an entry once nobody holds or waits for it.                      *)
(*                                                                         *)
(* UploadSession takes the guards as they are; this module is about how    *)
(* they are obtained, and about requests that wait for each other.         *)
(***************************************************************************)
EXTENDS Naturals, Sequences, FiniteSets

CONSTANTS
  Requests,    \* slots for concurrent requests on the session
  Parts,       \* numbered parts; the first one is the only one of a one-block file
  First,
  Slots,       \* upload_io concurrency
  Kinds,       \* the requests to consider
  Versions,    \* the lock objects a map entry may point to
  MaxCancels,  \* bound: requests whose client leaves
  None

AllKinds == {"data", "part", "one_block", "finish", "abort"}

\* The mutex of part 0, which PUT /data takes, is named "data".
Names == {"session", "data", "slots"} \cup Parts
Locks == Names \X Versions

ASSUME LocksAssumption ==
  /\ First \in Parts /\ Parts \cap {"session", "data", "slots"} = {}
  /\ Slots \in Nat \ {0} /\ MaxCancels \in Nat
  /\ Kinds \subseteq AllKinds /\ None \notin AllKinds \cup Locks
  /\ IsFiniteSet(Requests) /\ Versions # {}

VARIABLES
  kind,      \* what each slot is doing, None when it is free
  part,      \* the part it is about
  granted,   \* the locks it has been granted, in order
  waits,     \* the lock it is queued for, or None
  free,      \* permits left in each semaphore
  queue,     \* its waiters
  entry,     \* the lock object each map entry points to
  cancels

vars == <<kind, part, granted, waits, free, queue, entry, cancels>>

-----------------------------------------------------------------------------
(* What each request takes, in order; everything is released when its      *)
(* handler returns or is dropped.                                          *)

LockPart(name) == << "session", name >>

\* Mutant: completion takes its I/O slot before it locks the session.
SlotFirst(i) ==
  CASE kind[i] = "data"      -> LockPart("data") \o << "slots" >>
    [] kind[i] = "part"      -> LockPart(part[i]) \o << "slots" >>
    [] kind[i] = "one_block" -> LockPart("data") \o LockPart(First) \o << "slots" >>
    [] kind[i] = "finish"    -> << "slots", "session" >>
    [] kind[i] = "abort"     -> << "session" >>

Plan(i) ==
  CASE kind[i] = "data"      -> LockPart("data") \o << "slots" >>
    [] kind[i] = "part"      -> LockPart(part[i]) \o << "slots" >>
    [] kind[i] = "one_block" -> LockPart("data") \o LockPart(First) \o << "slots" >>
    [] kind[i] = "finish"    -> << "session", "slots" >>
    [] kind[i] = "abort"     -> << "session" >>

Lifecycle == {"finish", "abort"}

\* A writer takes every permit of the RwLock; readers cannot use them up.
MaxReads      == 2 * Cardinality(Requests)
Permits(name) == CASE name = "session" -> MaxReads
                   [] name = "slots"   -> Slots
                   [] OTHER            -> 1

\* Mutant: completion shares the session like a part writer.
SharedAsked(i, name) == 1

Asked(i, name) == IF name = "session" /\ kind[i] \in Lifecycle THEN MaxReads ELSE 1

\* Mutant: a request dropped in a queue gives back what it waited for.
ReturnsWaited(i, lock) ==
  Asked(i, lock[1]) * (Cardinality({k \in DOMAIN granted[i] : granted[i][k] = lock})
                       + IF waits[i] = lock THEN 1 ELSE 0)

Granted(i, lock) ==
  Asked(i, lock[1]) * Cardinality({k \in DOMAIN granted[i] : granted[i][k] = lock})

Running(i)  == kind[i] # None /\ waits[i] = None
Step(i)     == Plan(i)[Len(granted[i]) + 1]
Uses(i, lock) == waits[i] = lock \/ \E k \in DOMAIN granted[i] : granted[i][k] = lock
InUse(lock) == \E i \in Requests : Uses(i, lock)

\* A new lock object: one that nobody refers to (these are alike).
NewLock(name) == CHOOSE v \in Versions : ~InUse(<<name, v>>)

\* The lock a lookup in the map returns; `retain` keeps what somebody refers to.
LookUp(name) == IF InUse(<<name, entry[name]>>) THEN entry[name] ELSE NewLock(name)

Init ==
  /\ kind = [i \in Requests |-> None] /\ part = [i \in Requests |-> First]
  /\ granted = [i \in Requests |-> <<>>] /\ waits = [i \in Requests |-> None]
  /\ free = [lock \in Locks |-> Permits(lock[1])]
  /\ queue = [lock \in Locks |-> <<>>]
  /\ entry = [name \in Names |-> CHOOSE v \in Versions : TRUE]
  /\ cancels = 0

Begin(i, k, p) ==
  /\ kind[i] = None
  /\ kind' = [kind EXCEPT ![i] = k] /\ part' = [part EXCEPT ![i] = p]
  /\ UNCHANGED <<granted, waits, free, queue, entry, cancels>>

\* The handler looks the lock up and joins its queue.  The slots are in no map.
Ask(i) ==
  /\ Running(i) /\ Len(granted[i]) < Len(Plan(i))
  /\ LET name    == Step(i)
         version == IF name = "slots" THEN entry[name] ELSE LookUp(name)
     IN /\ entry' = [entry EXCEPT ![name] = version]
        /\ waits' = [waits EXCEPT ![i] = <<name, version>>]
        /\ queue' = [queue EXCEPT ![<<name, version>>] = Append(@, i)]
  /\ UNCHANGED <<kind, part, granted, free, cancels>>

\* The first in the queue gets its permits as soon as there are enough.
Grant(i) ==
  /\ waits[i] # None
  /\ LET lock == waits[i] IN
     /\ Head(queue[lock]) = i /\ free[lock] >= Asked(i, lock[1])
     /\ free' = [free EXCEPT ![lock] = @ - Asked(i, lock[1])]
     /\ queue' = [queue EXCEPT ![lock] = Tail(@)]
     /\ granted' = [granted EXCEPT ![i] = Append(@, lock)]
  /\ waits' = [waits EXCEPT ![i] = None]
  /\ UNCHANGED <<kind, part, entry, cancels>>

\* A queue that i leaves, wherever it stands in it.
Without(q, i) ==
  IF \E k \in DOMAIN q : q[k] = i
    THEN LET k == CHOOSE k \in DOMAIN q : q[k] = i
         IN  SubSeq(q, 1, k - 1) \o SubSeq(q, k + 1, Len(q))
    ELSE q

Release(i) ==
  /\ kind' = [kind EXCEPT ![i] = None] /\ part' = [part EXCEPT ![i] = First]
  /\ granted' = [granted EXCEPT ![i] = <<>>] /\ waits' = [waits EXCEPT ![i] = None]
  /\ free' = [lock \in Locks |-> free[lock] + Granted(i, lock)]
  /\ queue' = [lock \in Locks |-> Without(queue[lock], i)]

\* The handler answers: its work is done, or a check after a lock failed.
Return(i) ==
  /\ Running(i) /\ granted[i] # <<>>
  /\ Release(i)
  /\ UNCHANGED <<entry, cancels>>

\* The client is gone: the handler is dropped wherever it is.
Cancel(i) ==
  /\ kind[i] # None /\ cancels < MaxCancels
  /\ cancels' = cancels + 1
  /\ Release(i)
  /\ UNCHANGED entry

Next ==
  \E i \in Requests :
    \/ \E k \in Kinds, p \in Parts : (k # "part" => p = First) /\ Begin(i, k, p)
    \/ Ask(i) \/ Grant(i) \/ Return(i) \/ Cancel(i)

Spec == Init /\ [][Next]_vars

\* Handlers run: the executor polls what can go on, bodies have timeouts, and
\* the semaphores serve their queues.
Fairness == \A i \in Requests : WF_vars(Ask(i) \/ Return(i)) /\ WF_vars(Grant(i))
LiveSpec == Spec /\ Fairness

-----------------------------------------------------------------------------
(* Properties.                                                             *)

\* Every variable has its shape, and no semaphore is overdrawn.
TypeOK ==
  /\ kind \in [Requests -> Kinds \cup {None}] /\ part \in [Requests -> Parts]
  /\ \A i \in Requests : granted[i] \in Seq(Locks) /\ waits[i] \in Locks \cup {None}
  /\ \A lock \in Locks : /\ free[lock] \in 0..Permits(lock[1])
                         /\ queue[lock] \in Seq(Requests)
  /\ entry \in [Names -> Versions] /\ cancels \in 0..MaxCancels

Has(i, name) == \E k \in DOMAIN granted[i] : granted[i][k][1] = name

\* state.rs:31 -- completion and abort exclude all part writers and each other,
\* and each part has one writer: also while map entries come and go.
Exclusive ==
  \A i, j \in Requests : i # j /\ Has(i, "session") /\ Has(j, "session") =>
    /\ {kind[i], kind[j]} \cap Lifecycle = {}
    /\ \A name \in Names \ {"session", "slots"} : ~(Has(i, name) /\ Has(j, name))

\* A one-block PUT that waits to lock the session again, behind a request that
\* waits for the lock it holds.
Entangled ==
  \E i, j \in Requests :
    /\ kind[i] = "one_block" /\ Len(granted[i]) = 2 /\ waits[i] # None
    /\ kind[j] \in Lifecycle /\ waits[j] = waits[i]
    /\ Head(queue[waits[i]]) = j

\* A request that holds what it asked for goes on, and so does the first in a
\* queue when there are permits enough.
CanMove(i) ==
  \/ Running(i)
  \/ /\ waits[i] # None /\ Head(queue[waits[i]]) = i
     /\ free[waits[i]] >= Asked(i, waits[i][1])

\* The order in which the handlers take their locks lets no circle of requests
\* arise: of those under way one can always go on, unless they are entangled.
NoStandstill ==
  (\E i \in Requests : kind[i] # None) => Entangled \/ \E i \in Requests : CanMove(i)

\* Requests do not wait for each other for ever: each is answered, except
\* when a one-block PUT to /data is entangled with a completion or an abort.
Served == \A i \in Requests : kind[i] # None ~> kind[i] = None \/ Entangled

\* docs/file-transport.md -- a one-block multipart file may still be PUT to the
\* session's /data: such a request is answered.
OneBlockAnswered ==
  \A i \in Requests : kind[i] = "one_block" ~> kind[i] = None
=============================================================================

---------------------------- MODULE UploadCreation ----------------------------
(***************************************************************************)
(* POST /api/uploads (create_upload in upload_routes.rs): concurrent and   *)
(* repeated requests for one name in one directory, with and without an    *)
(* idempotency key, the sessions they create, find again or reclaim, and   *)
(* the staging directories they make before they know whether they will    *)
(* get the name.  What happens inside a session is UploadSession; here it  *)
(* only moves on, ends, or expires.                                        *)
(***************************************************************************)
EXTENDS Naturals, FiniteSets

CONSTANTS
  Requests,   \* slots for concurrent requests
  Sessions,   \* bound: the session ids that may be generated, never twice
  IdemKeys,   \* idempotency keys
  Prints,     \* request fingerprints (name, directory, size and type)
  None,       \* no key, no session
  MaxFaults,  \* bound: interrupted requests and crashes
  MaxMoves    \* bound: how often the directory is trashed or restored

ASSUME CreationAssumption ==
  /\ None \notin IdemKeys \cup Sessions
  /\ IsFiniteSet(Sessions) /\ Prints # {}
  /\ MaxFaults \in Nat /\ MaxMoves \in Nat

VARIABLES
  row,      \* the uploads row of each session, with its files row
  parent,   \* the directory is not in the trash
  used,     \* session ids generated
  dirs,     \* staging directories in the object store
  left,     \* those whose request was cut short, or whose rows were deleted
  pc, loc,  \* where each request is, and its local variables
  late,     \* statements whose request is gone
  overrun,  \* history: an insert landed after its request was gone
  faults, moves

vars == <<row, parent, used, dirs, left, pc, loc, late, overrun, faults, moves>>

disk    == <<dirs, left>>
control == <<pc, loc>>
counts  == <<overrun, faults, moves>>

-----------------------------------------------------------------------------
(* Rows.                                                                   *)

NoRow == [state |-> "absent", key |-> None, print |-> CHOOSE p \in Prints : TRUE,
          expired |-> FALSE, named |-> FALSE, trashed |-> FALSE]
NoLoc == [key |-> None, print |-> CHOOSE p \in Prints : TRUE,
          by_key |-> FALSE, target |-> None]

Exists(s)   == row[s].state # "absent"
Unfinished(s) == row[s].state \in {"receiving", "committing"}
Stale(s)    == row[s].state = "receiving" /\ row[s].expired
WithKey(k)  == {s \in Sessions : Exists(s) /\ row[s].key = k}
InPlace(s)  == Exists(s) /\ row[s].named /\ ~row[s].trashed

\* Mutant: the directory was looked at before, and is not looked at again.
InsertUnchecked(k) ==
  /\ \A s \in Sessions : ~InPlace(s)
  /\ k # None => WithKey(k) = {}

\* The insert is guarded by the directory, by the unique index on names in a
\* directory (rows in the trash do not count) and by the one on keys.
CanInsert(k) ==
  /\ parent
  /\ \A s \in Sessions : ~InPlace(s)
  /\ k # None => WithKey(k) = {}

Inserted(l) ==
  IF CanInsert(l.key)
  THEN [row EXCEPT ![l.target] =
          [NoRow EXCEPT !.state = "receiving", !.key = l.key, !.print = l.print,
                        !.named = TRUE]]
  ELSE row

Removed(s) == [row EXCEPT ![s] = NoRow]

\* Mutant: the session is only marked.
MarkedAborted(l) ==
  IF Unfinished(l.target) THEN [row EXCEPT ![l.target].state = "aborted"] ELSE row

Aborted(l) == IF Unfinished(l.target) THEN Removed(l.target) ELSE row

RowAfter(op, l) == IF op = "insert" THEN Inserted(l) ELSE Aborted(l)

Statements == {"insert", "abort_tx"}

-----------------------------------------------------------------------------
(* Locks: "create:" and the key for a request that has one, and the        *)
(* session's own for whoever ends it.                                      *)

\* Mutant: requests with the same key are not kept apart.
KeyIgnored(k) == TRUE

KeyFree(k) == k # None => \A j \in Requests : pc[j] # "idle" => loc[j].key # k

SessionFree(s) ==
  \A j \in Requests : pc[j] \in {"abort_tx", "abort_files"} => loc[j].target # s

Goto(i, label, l) == /\ pc' = [pc EXCEPT ![i] = label]
                     /\ loc' = [loc EXCEPT ![i] = l]

\* The answer, whatever it is: the guards are released.
Answer(i) == Goto(i, "idle", NoLoc)

Init ==
  /\ row = [s \in Sessions |-> NoRow] /\ parent = TRUE
  /\ used = {} /\ dirs = {} /\ left = {}
  /\ pc = [i \in Requests |-> "idle"] /\ loc = [i \in Requests |-> NoLoc]
  /\ late = {} /\ overrun = FALSE /\ faults = 0 /\ moves = 0

-----------------------------------------------------------------------------
(* The request.                                                            *)

Active == {j \in Requests : pc[j] # "idle"}

Begin(i, k, p) ==
  /\ pc[i] = "idle" /\ KeyFree(k)
  /\ Cardinality(Sessions \ used) > Cardinality(Active)
  /\ Goto(i, IF k = None THEN "find" ELSE "lookup",
          [NoLoc EXCEPT !.key = k, !.print = p])
  /\ UNCHANGED <<row, parent, used, disk, late, counts>>

\* A key that has a session is answered with it, unless it may be reclaimed.
LookUp(i) ==
  /\ pc[i] = "lookup"
  /\ \/ WithKey(loc[i].key) = {} /\ Goto(i, "find", loc[i])
     \/ \E s \in WithKey(loc[i].key) :
          IF row[s].print = loc[i].print /\ Stale(s)
          THEN Goto(i, "abort", [loc[i] EXCEPT !.target = s, !.by_key = TRUE])
          ELSE Answer(i)
  /\ UNCHANGED <<row, parent, used, disk, late, counts>>

\* An expired placeholder of the same name.
Find(i) ==
  /\ pc[i] = "find"
  /\ \/ /\ ~\E s \in Sessions : Stale(s) /\ InPlace(s)
        /\ Goto(i, "check", loc[i])
     \/ \E s \in Sessions :
          /\ Stale(s) /\ InPlace(s)
          /\ Goto(i, "abort", [loc[i] EXCEPT !.target = s, !.by_key = FALSE])
  /\ UNCHANGED <<row, parent, used, disk, late, counts>>

\* Mutant: the reclaim is repeated until it succeeds.
TryAgain(i) == Goto(i, "abort", loc[i])

\* The session to reclaim is not there any more, or has moved on.
NotFound(i) == Goto(i, IF loc[i].by_key THEN "reload" ELSE "check", loc[i])

AbortLoad(i) ==
  /\ pc[i] = "abort" /\ SessionFree(loc[i].target)
  /\ IF Stale(loc[i].target) THEN Goto(i, "abort_tx", loc[i]) ELSE NotFound(i)
  /\ UNCHANGED <<row, parent, used, disk, late, counts>>

AbortTx(i) ==
  /\ pc[i] = "abort_tx"
  /\ row' = RowAfter("abort_tx", loc[i])
  /\ IF Unfinished(loc[i].target) THEN Goto(i, "abort_files", loc[i]) ELSE NotFound(i)
  /\ UNCHANGED <<parent, used, disk, late, counts>>

AbortFiles(i) ==
  /\ pc[i] = "abort_files"
  /\ dirs' = dirs \ {loc[i].target}
  /\ Goto(i, IF loc[i].by_key THEN "find" ELSE "check", loc[i])
  /\ UNCHANGED <<row, parent, used, left, late, counts>>

\* Who won instead: a session that lives on is the answer.
Reload(i) ==
  /\ pc[i] = "reload"
  /\ IF Exists(loc[i].target) THEN Answer(i) ELSE Goto(i, "find", loc[i])
  /\ UNCHANGED <<row, parent, used, disk, late, counts>>

CheckParent(i) ==
  /\ pc[i] = "check"
  /\ IF parent THEN Goto(i, "make", loc[i]) ELSE Answer(i)
  /\ UNCHANGED <<row, parent, used, disk, late, counts>>

\* A new id (which one makes no difference), and the staging directory for it.
Make(i) ==
  /\ pc[i] = "make" /\ used # Sessions
  /\ LET s == CHOOSE s \in Sessions : s \notin used IN
       /\ used' = used \cup {s} /\ dirs' = dirs \cup {s}
       /\ Goto(i, "insert", [loc[i] EXCEPT !.target = s])
  /\ UNCHANGED <<row, parent, left, late, counts>>

Insert(i) ==
  /\ pc[i] = "insert"
  /\ row' = RowAfter("insert", loc[i])
  /\ IF CanInsert(loc[i].key) THEN Answer(i) ELSE Goto(i, "undo", loc[i])
  /\ UNCHANGED <<parent, used, disk, late, counts>>

\* Mutant: the directory of a refused upload stays.
UndoNothing(i) ==
  /\ pc[i] = "undo"
  /\ Answer(i)
  /\ UNCHANGED <<row, parent, used, disk, late, counts>>

Undo(i) ==
  /\ pc[i] = "undo"
  /\ dirs' = dirs \ {loc[i].target}
  /\ Answer(i)
  /\ UNCHANGED <<row, parent, used, left, late, counts>>

RequestStep(i) ==
  \/ LookUp(i) \/ Find(i) \/ AbortLoad(i) \/ AbortTx(i) \/ AbortFiles(i)
  \/ Reload(i) \/ CheckParent(i) \/ Make(i) \/ Insert(i) \/ Undo(i)

-----------------------------------------------------------------------------
(* Clients that leave, and the process that dies.                          *)

\* The directory a request answers for while it is at `label`.
Owned(i) == IF pc[i] \in {"insert", "undo", "abort_files"} THEN {loc[i].target} ELSE {}

Interrupt(i) ==
  /\ pc[i] # "idle" /\ faults < MaxFaults /\ faults' = faults + 1
  /\ \/ late' = late
     \/ /\ pc[i] \in Statements
        /\ late' = late \cup {[op |-> pc[i], loc |-> loc[i]]}
  /\ left' = left \cup Owned(i)
  /\ Answer(i)
  /\ UNCHANGED <<row, parent, used, dirs, overrun, moves>>

\* An abort that lands late leaves the files to the periodic sweep.
Land(call) ==
  /\ call \in late /\ late' = late \ {call}
  /\ row' = RowAfter(call.op, call.loc)
  /\ overrun' = (overrun \/ call.op = "insert")
  /\ left' = IF call.op = "abort_tx" THEN left \cup {call.loc.target} ELSE left
  /\ UNCHANGED <<parent, used, dirs, control, faults, moves>>

Crash ==
  /\ faults < MaxFaults /\ faults' = faults + 1
  /\ pc' = [i \in Requests |-> "idle"] /\ loc' = [i \in Requests |-> NoLoc]
  /\ late' = {}
  /\ left' = left \cup UNION {Owned(i) : i \in Requests}
  /\ UNCHANGED <<row, parent, used, dirs, overrun, moves>>

-----------------------------------------------------------------------------
(* What becomes of a session.                                              *)

Change(s, r) == /\ row' = [row EXCEPT ![s] = r]
                /\ UNCHANGED <<parent, used, control, late, counts>>

\* Only a session that is receiving is asked for its age.
Expire(s) == /\ row[s].state = "receiving" /\ ~row[s].expired
             /\ Change(s, [row[s] EXCEPT !.expired = TRUE]) /\ UNCHANGED disk

Commit(s) == /\ row[s].state = "receiving" /\ ~row[s].expired /\ SessionFree(s)
             /\ Change(s, [row[s] EXCEPT !.state = "committing"]) /\ UNCHANGED disk

\* Publication; the staging directory goes with it.
Complete(s) == /\ row[s].state = "committing" /\ ~row[s].trashed /\ SessionFree(s)
               /\ Change(s, [row[s] EXCEPT !.state = "completed"])
               /\ dirs' = dirs \ {s} /\ UNCHANGED left

\* DELETE /uploads/{id}, or the expiry job.
End(s) == /\ Unfinished(s) /\ SessionFree(s)
          /\ Change(s, NoRow)
          /\ dirs' = dirs \ {s} /\ UNCHANGED left

\* The file row is deleted: at once while it is pending, else out of the trash.
DeleteFile(s) == /\ Exists(s)
                 /\ Change(s, NoRow) /\ left' = left \cup {s} /\ UNCHANGED dirs

\* A published file is renamed, moved or trashed: its name is free again.
MoveAway(s) == /\ row[s].state = "completed" /\ InPlace(s)
               /\ Change(s, [row[s] EXCEPT !.named = FALSE]) /\ UNCHANGED disk

\* The directory goes to the trash with what is in it, or comes back.
TrashParent ==
  /\ moves < MaxMoves /\ moves' = moves + 1
  /\ parent' = ~parent
  /\ row' = [s \in Sessions |-> IF Exists(s) /\ row[s].named
                                THEN [row[s] EXCEPT !.trashed = parent] ELSE row[s]]
  /\ UNCHANGED <<used, disk, control, late, overrun, faults>>

SessionStep(s) == \/ Expire(s) \/ Commit(s) \/ Complete(s) \/ End(s)
                  \/ DeleteFile(s) \/ MoveAway(s)

Next ==
  \/ \E i \in Requests :
       \/ \E k \in IdemKeys \cup {None}, p \in Prints : Begin(i, k, p)
       \/ RequestStep(i) \/ Interrupt(i)
  \/ \E call \in late : Land(call)
  \/ \E s \in Sessions : SessionStep(s)
  \/ Crash \/ TrashParent

Spec == Init /\ [][Next]_vars

\* A handler that can go on does, and the session's lock is a queue.
Fairness == \A i \in Requests : WF_vars(RequestStep(i)) /\ SF_vars(AbortLoad(i))
LiveSpec == Spec /\ Fairness

-----------------------------------------------------------------------------
(* Properties.                                                             *)

Row    == [state : {"absent", "receiving", "committing", "completed"},
           key : IdemKeys \cup {None}, print : Prints,
           expired : BOOLEAN, named : BOOLEAN, trashed : BOOLEAN]
Locals == [key : IdemKeys \cup {None}, print : Prints,
           by_key : BOOLEAN, target : Sessions \cup {None}]
Labels == {"idle", "lookup", "find", "abort", "abort_tx", "abort_files", "reload",
           "check", "make", "insert", "undo"}
Targeted == {"abort", "abort_tx", "abort_files", "reload", "insert", "undo"}

\* Every variable has its shape; a request at a step about a session has one.
TypeOK ==
  /\ row \in [Sessions -> Row] /\ parent \in BOOLEAN
  /\ used \subseteq Sessions /\ dirs \subseteq Sessions /\ left \subseteq Sessions
  /\ pc \in [Requests -> Labels] /\ loc \in [Requests -> Locals]
  /\ \A i \in Requests : pc[i] \in Targeted => loc[i].target \in Sessions
  /\ late \subseteq [op : Statements, loc : Locals]
  /\ \A call \in late : call.loc.target \in Sessions
  /\ overrun \in BOOLEAN /\ faults \in Nat /\ moves \in Nat

\* upload_routes.rs:480 -- no upload slips into a directory that is in the
\* trash, however late its insert runs, nor stays in place when it goes there.
ParentLive == \A s \in Sessions : InPlace(s) => parent

\* A request is not refused because of its own session: with concurrent and
\* repeated requests for one key, the key is only ever taken by the answer --
\* unless an insert ran after its request had given the key's lock back.
OwnSessionKept ==
  [][\A i \in Requests :
       pc[i] = "insert" /\ pc'[i] = "undo" /\ loc[i].key # None /\ ~overrun
       => WithKey(loc[i].key) = {}]_vars

\* upload_routes.rs:434 -- a refused upload leaves no directory behind: each is
\* that of a session or of a request at work, or was left by an interrupted
\* request or a deleted file; and no session that still takes parts loses its own.
StagingMatches ==
  /\ \A s \in dirs \ left : Exists(s) \/ \E i \in Requests : s \in Owned(i)
  /\ \A s \in Sessions : Unfinished(s) => s \in dirs

\* Every request is answered: the key's lock and the sessions' locks are not
\* waited for in a circle, and a lost reclaim is not tried for ever.
Answered == \A i \in Requests : pc[i] # "idle" ~> pc[i] = "idle"
=============================================================================

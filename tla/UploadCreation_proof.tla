------------------------- MODULE UploadCreation_proof -------------------------
(***************************************************************************)
(* Proofs about UploadCreation, for any number of requests, sessions and   *)
(* keys: its type invariant, that no upload is in place in a directory     *)
(* that is in the trash, that a refused upload leaves no staging directory *)
(* behind, and that no request is refused because of its own session.      *)
(***************************************************************************)
EXTENDS UploadCreation, TLAPS

\* The initial values of a row and of a request's variables have their shape.
LEMMA Defaults == NoRow \in Row /\ NoLoc \in Locals
  BY CreationAssumption DEF NoRow, NoLoc, Row, Locals, CreationAssumption

\* A statement leaves rows that are rows.
LEMMA RowAfterTypeOK ==
  ASSUME row \in [Sessions -> Row], NEW op \in Statements,
         NEW l \in Locals, l.target \in Sessions
  PROVE  RowAfter(op, l) \in [Sessions -> Row]
  <1>1. Inserted(l) \in [Sessions -> Row]
    BY Defaults DEF Inserted, NoRow, Row, Locals
  <1>2. Aborted(l) \in [Sessions -> Row]
    BY Defaults DEF Aborted, Removed
  <1> QED  BY <1>1, <1>2 DEF RowAfter

\* A statement puts no upload in place but while the directory is.
LEMMA RowAfterParentLive ==
  ASSUME row \in [Sessions -> Row], ParentLive, NEW op \in Statements,
         NEW l \in Locals, l.target \in Sessions,
         row' = RowAfter(op, l), parent' = parent
  PROVE  ParentLive'
  <1>1. CASE op = "insert" /\ CanInsert(l.key)
    BY <1>1 DEF CanInsert, ParentLive
  <1>2. CASE op = "insert" /\ ~CanInsert(l.key)
    BY <1>2 DEF RowAfter, Inserted, ParentLive, InPlace, Exists
  <1>3. CASE op # "insert"
    BY <1>3, Defaults DEF RowAfter, Aborted, Removed, NoRow, ParentLive, InPlace, Exists
  <1> QED  BY <1>1, <1>2, <1>3

-----------------------------------------------------------------------------
(* Where a request goes next.                                              *)

ControlTyped ==
  /\ pc \in [Requests -> Labels] /\ loc \in [Requests -> Locals]
  /\ \A i \in Requests : pc[i] \in Targeted => loc[i].target \in Sessions

LEMMA GotoTypeOK ==
  ASSUME ControlTyped, NEW i \in Requests, NEW label \in Labels, NEW l \in Locals,
         label \in Targeted => l.target \in Sessions,
         Goto(i, label, l)
  PROVE  ControlTyped'
  BY DEF Goto, ControlTyped

LEMMA AnswerTypeOK ==
  ASSUME ControlTyped, NEW i \in Requests, Answer(i)
  PROVE  ControlTyped'
  <1>1. "idle" \in Labels /\ "idle" \notin Targeted
    BY DEF Labels, Targeted
  <1> QED  BY <1>1, Defaults, GotoTypeOK DEF Answer

\* The steps of a request that only move it on.
LEMMA MoveTypeOK ==
  ASSUME TypeOK, NEW i \in Requests,
         \/ \E k \in IdemKeys \cup {None}, p \in Prints : Begin(i, k, p)
         \/ LookUp(i) \/ Find(i) \/ AbortLoad(i) \/ Reload(i) \/ CheckParent(i)
  PROVE  TypeOK'
  <1> USE DEF TypeOK
  <1>0. ControlTyped
    BY DEF ControlTyped
  <1> SUFFICES ControlTyped'
    BY DEF ControlTyped, Begin, LookUp, Find, AbortLoad, Reload, CheckParent, disk, counts
  <1>1. ASSUME NEW k \in IdemKeys \cup {None}, NEW p \in Prints, Begin(i, k, p)
        PROVE  ControlTyped'
    <2>1. [NoLoc EXCEPT !.key = k, !.print = p] \in Locals
      BY Defaults DEF Locals
    <2> QED  BY <1>0, <1>1, <2>1, GotoTypeOK DEF Begin, Labels, Targeted
  <1>2. ASSUME NEW s \in Sessions, NEW b \in BOOLEAN
        PROVE  [loc[i] EXCEPT !.target = s, !.by_key = b] \in Locals
    BY DEF Locals
  <1>3. CASE LookUp(i)
    <2>1. CASE Goto(i, "find", loc[i])
      BY <1>0, <2>1, GotoTypeOK DEF Labels, Targeted
    <2>2. ASSUME NEW s \in Sessions,
                 Goto(i, "abort", [loc[i] EXCEPT !.target = s, !.by_key = TRUE])
          PROVE  ControlTyped'
      <3>1. [loc[i] EXCEPT !.target = s, !.by_key = TRUE].target \in Sessions
        BY DEF Locals
      <3> QED  BY <1>0, <1>2, <2>2, <3>1, GotoTypeOK DEF Labels
    <2>3. CASE Answer(i)
      BY <1>0, <2>3, AnswerTypeOK
    <2> QED  BY <1>3, <2>1, <2>2, <2>3 DEF LookUp, WithKey
  <1>4. CASE Find(i)
    <2>1. CASE Goto(i, "check", loc[i])
      BY <1>0, <2>1, GotoTypeOK DEF Labels, Targeted
    <2>2. ASSUME NEW s \in Sessions,
                 Goto(i, "abort", [loc[i] EXCEPT !.target = s, !.by_key = FALSE])
          PROVE  ControlTyped'
      <3>1. [loc[i] EXCEPT !.target = s, !.by_key = FALSE].target \in Sessions
        BY DEF Locals
      <3> QED  BY <1>0, <1>2, <2>2, <3>1, GotoTypeOK DEF Labels
    <2> QED  BY <1>4, <2>1, <2>2 DEF Find
  <1>5. CASE AbortLoad(i)
    BY <1>0, <1>5, GotoTypeOK DEF AbortLoad, NotFound, Labels, Targeted
  <1>6. CASE Reload(i)
    BY <1>0, <1>6, GotoTypeOK, AnswerTypeOK DEF Reload, Labels, Targeted
  <1>7. CASE CheckParent(i)
    BY <1>0, <1>7, GotoTypeOK, AnswerTypeOK DEF CheckParent, Labels, Targeted
  <1> QED  BY <1>1, <1>3, <1>4, <1>5, <1>6, <1>7

\* Those that run a statement or touch the staging directory.
LEMMA WorkTypeOK ==
  ASSUME TypeOK, NEW i \in Requests,
         AbortTx(i) \/ AbortFiles(i) \/ Make(i) \/ Insert(i) \/ Undo(i)
  PROVE  TypeOK'
  <1> USE DEF TypeOK
  <1>0. ControlTyped
    BY DEF ControlTyped
  <1>1. CASE AbortTx(i)
    <2>1. row' \in [Sessions -> Row]
      BY <1>1, RowAfterTypeOK DEF AbortTx, Statements, Targeted
    <2>2. ControlTyped'
      BY <1>0, <1>1, GotoTypeOK DEF AbortTx, NotFound, Labels, Targeted
    <2> QED  BY <1>1, <2>1, <2>2 DEF AbortTx, ControlTyped, disk, counts
  <1>2. CASE AbortFiles(i)
    <2>1. ControlTyped'
      BY <1>0, <1>2, GotoTypeOK DEF AbortFiles, Labels, Targeted
    <2> QED  BY <1>2, <2>1 DEF AbortFiles, ControlTyped, counts
  <1>3. CASE Make(i)
    <2> DEFINE s == CHOOSE t \in Sessions : t \notin used
               l == [loc[i] EXCEPT !.target = s]
    <2>1. s \in Sessions
      BY <1>3 DEF Make
    <2> HIDE DEF s
    <2>2. l \in Locals /\ l.target \in Sessions
      BY <2>1 DEF Locals
    <2>3. /\ Goto(i, "insert", l) /\ used' = used \cup {s} /\ dirs' = dirs \cup {s}
          /\ UNCHANGED <<row, parent, left, late, counts>>
      BY <1>3 DEF Make, s
    <2> HIDE DEF l
    <2>4. ControlTyped'
      BY <1>0, <2>2, <2>3, GotoTypeOK DEF Labels
    <2> QED  BY <2>1, <2>3, <2>4 DEF ControlTyped, counts
  <1>4. CASE Insert(i)
    <2>1. row' \in [Sessions -> Row]
      BY <1>4, RowAfterTypeOK DEF Insert, Statements, Targeted
    <2>2. ControlTyped'
      BY <1>0, <1>4, GotoTypeOK, AnswerTypeOK DEF Insert, Labels, Targeted
    <2> QED  BY <1>4, <2>1, <2>2 DEF Insert, ControlTyped, disk, counts
  <1>5. CASE Undo(i)
    <2>1. ControlTyped'
      BY <1>0, <1>5, AnswerTypeOK DEF Undo
    <2> QED  BY <1>5, <2>1 DEF Undo, ControlTyped, counts
  <1> QED  BY <1>1, <1>2, <1>3, <1>4, <1>5

\* What happens around the requests.
LEMMA AroundTypeOK ==
  ASSUME TypeOK,
         \/ \E i \in Requests : Interrupt(i)
         \/ \E call \in late : Land(call)
         \/ \E s \in Sessions : SessionStep(s)
         \/ Crash \/ TrashParent
  PROVE  TypeOK'
  <1> USE DEF TypeOK
  <1>0. ControlTyped
    BY DEF ControlTyped
  <1>1. ASSUME NEW i \in Requests PROVE Owned(i) \subseteq Sessions
    BY DEF Owned, Targeted
  <1>2. ASSUME NEW i \in Requests, Interrupt(i) PROVE TypeOK'
    <2>1. ControlTyped'
      BY <1>0, <1>2, AnswerTypeOK DEF Interrupt
    <2>2. /\ late' \subseteq [op : Statements, loc : Locals]
          /\ \A call \in late' : call.loc.target \in Sessions
      <3>1. CASE late' = late
        BY <3>1
      <3>2. CASE /\ pc[i] \in Statements
                 /\ late' = late \cup {[op |-> pc[i], loc |-> loc[i]]}
        BY <3>2 DEF Statements, Targeted
      <3> QED  BY <1>2, <3>1, <3>2 DEF Interrupt
    <2> QED  BY <1>1, <1>2, <2>1, <2>2 DEF Interrupt, ControlTyped
  <1>3. ASSUME NEW call \in late, Land(call) PROVE TypeOK'
    <2>1. call.op \in Statements /\ call.loc \in Locals /\ call.loc.target \in Sessions
      OBVIOUS
    <2>2. row' \in [Sessions -> Row]
      BY <1>3, <2>1, RowAfterTypeOK DEF Land
    <2> QED  BY <1>3, <2>1, <2>2 DEF Land, control
  <1>4. ASSUME NEW s \in Sessions, SessionStep(s) PROVE TypeOK'
    <2>1. /\ row' \in [Sessions -> Row] /\ dirs' \subseteq Sessions
          /\ left' \subseteq Sessions
      <3> USE Defaults DEF Change
      <3>1. CASE Expire(s)
        BY <3>1 DEF Expire, disk, Row
      <3>2. CASE Commit(s)
        BY <3>2 DEF Commit, disk, Row
      <3>3. CASE Complete(s)
        BY <3>3 DEF Complete, Row
      <3>4. CASE End(s)
        BY <3>4 DEF End
      <3>5. CASE DeleteFile(s)
        BY <3>5 DEF DeleteFile
      <3>6. CASE MoveAway(s)
        BY <3>6 DEF MoveAway, disk, Row
      <3> QED  BY <1>4, <3>1, <3>2, <3>3, <3>4, <3>5, <3>6 DEF SessionStep
    <2>2. UNCHANGED <<parent, used, control, late, counts>>
      BY <1>4 DEF SessionStep, Expire, Commit, Complete, End, DeleteFile, MoveAway, Change
    <2> QED  BY <2>1, <2>2 DEF control, counts
  <1>5. CASE Crash
    <2>1. ControlTyped'
      BY <1>5, Defaults DEF Crash, ControlTyped, Labels, Targeted
    <2> QED  BY <1>1, <1>5, <2>1 DEF Crash, ControlTyped
  <1>6. CASE TrashParent
    <2>1. row' \in [Sessions -> Row]
      BY <1>6 DEF TrashParent, Row
    <2> QED  BY <1>6, <2>1 DEF TrashParent, disk, control
  <1> QED  BY <1>2, <1>3, <1>4, <1>5, <1>6

\* Every variable keeps its shape: a request never runs a statement, nor
\* touches the directory, of a session it has not chosen.
THEOREM TypeCorrect == Spec => []TypeOK
  <1>1. ASSUME Init PROVE TypeOK
    <2>1. row \in [Sessions -> Row] /\ loc \in [Requests -> Locals]
      BY <1>1, Defaults DEF Init
    <2>2. /\ pc \in [Requests -> Labels]
          /\ \A i \in Requests : pc[i] \notin Targeted
      BY <1>1 DEF Init, Labels, Targeted
    <2> QED  BY <1>1, <2>1, <2>2 DEF Init, TypeOK
  <1>2. ASSUME TypeOK, [Next]_vars PROVE TypeOK'
    <2>1. CASE Next
      BY <1>2, <2>1, MoveTypeOK, WorkTypeOK, AroundTypeOK DEF Next, RequestStep
    <2>2. CASE UNCHANGED vars
      BY <1>2, <2>2 DEF TypeOK, vars
    <2> QED  BY <1>2, <2>1, <2>2
  <1> QED  BY <1>1, <1>2, PTL DEF Spec

-----------------------------------------------------------------------------
(* The directory.                                                          *)

\* No step puts an upload in place while its directory is in the trash, nor
\* sends the directory there and leaves an upload behind.
LEMMA ParentLiveStep ==
  ASSUME TypeOK, ParentLive, [Next]_vars
  PROVE  ParentLive'
  <1> USE DEF TypeOK
  <1>1. ASSUME NEW i \in Requests, Insert(i) \/ AbortTx(i) PROVE ParentLive'
    BY <1>1, RowAfterParentLive DEF Insert, AbortTx, Statements, Targeted
  <1>2. ASSUME NEW call \in late, Land(call) PROVE ParentLive'
    <2>1. call.op \in Statements /\ call.loc \in Locals /\ call.loc.target \in Sessions
      OBVIOUS
    <2> QED  BY <1>2, <2>1, RowAfterParentLive DEF Land
  <1>3. ASSUME NEW s \in Sessions, SessionStep(s) PROVE ParentLive'
    <2>1. \A t \in Sessions : InPlace(t)' => InPlace(t)
      <3> USE DEF Change, InPlace, Exists, NoRow, Row
      <3>1. CASE Expire(s)
        BY <3>1 DEF Expire
      <3>2. CASE Commit(s)
        BY <3>2 DEF Commit
      <3>3. CASE Complete(s)
        BY <3>3 DEF Complete
      <3>4. CASE End(s)
        BY <3>4 DEF End
      <3>5. CASE DeleteFile(s)
        BY <3>5 DEF DeleteFile
      <3>6. CASE MoveAway(s)
        BY <3>6 DEF MoveAway
      <3> QED  BY <1>3, <3>1, <3>2, <3>3, <3>4, <3>5, <3>6 DEF SessionStep
    <2>2. parent' = parent
      BY <1>3 DEF SessionStep, Expire, Commit, Complete, End, DeleteFile, MoveAway, Change
    <2> QED  BY <2>1, <2>2 DEF ParentLive
  <1>4. CASE TrashParent
    BY <1>4 DEF TrashParent, ParentLive, InPlace, Exists, Row
  <1>5. CASE UNCHANGED <<row, parent>>
    BY <1>5 DEF ParentLive, InPlace, Exists
  <1> QED
    BY <1>1, <1>2, <1>3, <1>4, <1>5
    DEF Next, RequestStep, vars, Begin, LookUp, Find, AbortLoad, AbortFiles, Reload,
        CheckParent, Make, Undo, Interrupt, Crash

\* upload_routes.rs:480 -- an upload and its directory go to the trash together,
\* and no insert, however late, puts one into a directory that is there.
THEOREM ParentKept == Spec => []ParentLive
  <1>1. Init => ParentLive
    BY DEF Init, ParentLive, InPlace, Exists, NoRow
  <1> QED  BY <1>1, TypeCorrect, ParentLiveStep, PTL DEF Spec

-----------------------------------------------------------------------------
(* Staging directories.  A directory is only removed by whoever knows that *)
(* no session needs it: because ids are never used twice, a session that   *)
(* is being refused or was aborted has no row and never gets one.          *)

Inserting(i) == pc[i] = "insert"

Known == /\ \A s \in Sessions : Exists(s) => s \in used
         /\ \A i \in Requests : pc[i] \in Targeted => loc[i].target \in used
         /\ \A call \in late : call.loc.target \in used
Apart == /\ \A i, j \in Requests :
              Inserting(i) /\ pc[j] \in Targeted /\ i # j => loc[i].target # loc[j].target
         /\ \A i \in Requests, call \in late :
              (Inserting(i) \/ (call.op = "insert" /\ pc[i] \in Targeted))
              => loc[i].target # call.loc.target
         /\ \A c, d \in late :
              c.op = "insert" /\ d.op = "insert" /\ c # d => c.loc.target # d.loc.target
NoRowYet == /\ \A i \in Requests :
                 pc[i] \in {"insert", "undo", "abort_files"} => ~Exists(loc[i].target)
            /\ \A call \in late : call.op = "insert" => ~Exists(call.loc.target)
Staged == /\ \A i \in Requests : Inserting(i) => loc[i].target \in dirs
          /\ \A call \in late : call.op = "insert" => call.loc.target \in dirs
          /\ \A s \in Sessions : Unfinished(s) => s \in dirs
Claimed == \A s \in dirs \ left : Exists(s) \/ \E i \in Requests : s \in Owned(i)

StagingInv == Known /\ Apart /\ NoRowYet /\ Staged /\ Claimed

\* A request at a step about a session does not turn into one that inserts it.
LEMMA MoveStaging ==
  ASSUME TypeOK, StagingInv, NEW i \in Requests, NEW label \in Labels, NEW l \in Locals,
         Goto(i, label, l), UNCHANGED <<row, used, disk, late>>,
         pc[i] \notin {"insert", "undo", "abort_files"},
         label \notin {"insert", "undo", "abort_files"},
         label \in Targeted => \/ l.target \in Sessions /\ Exists(l.target)
                               \/ pc[i] \in Targeted /\ l.target = loc[i].target
  PROVE  StagingInv'
  <1> USE DEF TypeOK, StagingInv, disk
  <1>1. /\ pc'[i] = label /\ loc'[i] = l
        /\ \A j \in Requests : j # i => pc'[j] = pc[j] /\ loc'[j] = loc[j]
    BY DEF Goto
  <1>2. \A s \in Sessions : /\ Exists(s)' = Exists(s) /\ Unfinished(s)' = Unfinished(s)
    BY DEF Exists, Unfinished
  <1>3. \A j \in Requests : /\ Inserting(j)' = Inserting(j)
                             /\ Inserting(j) => j # i
    BY <1>1 DEF Inserting
  <1>4. Known'
    BY <1>1, <1>2 DEF Known
  <1>5. label \in Targeted =>
          /\ \A j \in Requests : Inserting(j) => l.target # loc[j].target
          /\ \A call \in late : call.op = "insert" => l.target # call.loc.target
    BY <1>3 DEF Apart, NoRowYet, Inserting
  <1>6. Apart'
    BY <1>1, <1>3, <1>5 DEF Apart, Inserting
  <1>7. NoRowYet'
    BY <1>1, <1>2 DEF NoRowYet, Targeted
  <1>8. Staged'
    <2>1. \A j \in Requests : Inserting(j)' => loc'[j].target \in dirs
      BY <1>1 DEF Staged, Inserting
    <2> QED  BY <1>2, <2>1 DEF Staged
  <1>9. \A j \in Requests : Owned(j)' = Owned(j)
    BY <1>1 DEF Owned
  <1> QED  BY <1>2, <1>4, <1>6, <1>7, <1>8, <1>9 DEF Claimed

\* The answer ends what a request had to do with a session, unless that was to
\* insert it: then the session exists, or the directory is left.
LEMMA AnswerStaging ==
  ASSUME TypeOK, StagingInv, NEW i \in Requests, Answer(i),
         UNCHANGED <<row, used, dirs, late>>, left' = left \cup Owned(i)
  PROVE  StagingInv'
  <1> USE DEF TypeOK, StagingInv, disk
  <1>1. /\ pc'[i] = "idle"
        /\ \A j \in Requests : j # i => pc'[j] = pc[j] /\ loc'[j] = loc[j]
    BY DEF Answer, Goto
  <1>2. \A s \in Sessions : /\ Exists(s)' = Exists(s) /\ Unfinished(s)' = Unfinished(s)
    BY DEF Exists, Unfinished
  <1>3. Known'
    BY <1>1, <1>2 DEF Known, Targeted
  <1>4. Apart'
    BY <1>1 DEF Apart, Inserting, Targeted
  <1>5. NoRowYet'
    BY <1>1, <1>2 DEF NoRowYet, Targeted
  <1>6. Staged'
    BY <1>1, <1>2 DEF Staged, Inserting
  <1>7. \A j \in Requests : j # i => Owned(j)' = Owned(j)
    BY <1>1 DEF Owned
  <1>8. Claimed'
    BY <1>2, <1>7 DEF Claimed
  <1> QED  BY <1>3, <1>4, <1>5, <1>6, <1>8

LEMMA RequestStaging ==
  ASSUME TypeOK, StagingInv, NEW i \in Requests,
         \/ \E k \in IdemKeys \cup {None}, p \in Prints : Begin(i, k, p)
         \/ LookUp(i) \/ Find(i) \/ AbortLoad(i) \/ Reload(i) \/ CheckParent(i)
  PROVE  StagingInv'
  <1> USE DEF TypeOK
  <1>1. CASE Answer(i) /\ pc[i] \notin {"insert", "undo", "abort_files"}
    BY <1>1, AnswerStaging
    DEF Owned, Begin, LookUp, Find, AbortLoad, Reload, CheckParent, disk
  <1>2. ASSUME NEW k \in IdemKeys \cup {None}, NEW p \in Prints, Begin(i, k, p)
        PROVE  StagingInv'
    <2>1. [NoLoc EXCEPT !.key = k, !.print = p] \in Locals
      BY Defaults DEF Locals
    <2> QED  BY <1>2, <2>1, MoveStaging DEF Begin, Labels, Targeted
  <1>3. ASSUME NEW s \in Sessions, NEW b \in BOOLEAN, Exists(s),
               pc[i] \in {"lookup", "find"},
               Goto(i, "abort", [loc[i] EXCEPT !.target = s, !.by_key = b]),
               UNCHANGED <<row, used, disk, late>>
        PROVE  StagingInv'
    <2>1. PICK l \in Locals : l = [loc[i] EXCEPT !.target = s, !.by_key = b]
      BY DEF Locals
    <2>2. Goto(i, "abort", l) /\ l.target = s
      BY <1>3, <2>1 DEF Locals
    <2> QED  BY <1>3, <2>2, MoveStaging DEF Exists, Labels
  <1>4. CASE LookUp(i)
    <2>1. CASE Goto(i, "find", loc[i])
      BY <1>4, <2>1, MoveStaging DEF LookUp, Labels, Targeted
    <2>2. CASE Answer(i)
      BY <1>1, <1>4, <2>2 DEF LookUp
    <2> QED  BY <1>3, <1>4, <2>1, <2>2 DEF LookUp, WithKey
  <1>5. CASE Find(i)
    <2>1. CASE Goto(i, "check", loc[i])
      BY <1>5, <2>1, MoveStaging DEF Find, Labels, Targeted
    <2> QED  BY <1>3, <1>5, <2>1 DEF Find, InPlace
  <1>6. CASE AbortLoad(i)
    BY <1>6, MoveStaging DEF AbortLoad, NotFound, Labels, Targeted
  <1>7. CASE Reload(i)
    BY <1>1, <1>7, MoveStaging DEF Reload, Labels, Targeted
  <1>8. CASE CheckParent(i)
    BY <1>1, <1>8, MoveStaging DEF CheckParent, Labels, Targeted
  <1> QED  BY <1>2, <1>4, <1>5, <1>6, <1>7, <1>8

\* Sessions end, with or without their directories; no request moves.
LEMMA EndStaging ==
  ASSUME TypeOK, StagingInv, UNCHANGED <<used, control>>, late' \subseteq late,
         dirs' \subseteq dirs, left \subseteq left',
         \A s \in dirs : Exists(s) \/ s \in dirs',
         \A s \in Sessions : /\ Exists(s)' => Exists(s)
                             /\ Unfinished(s)' => Unfinished(s) /\ (s \in dirs => s \in dirs')
                             /\ Exists(s) /\ s \in dirs' => Exists(s)' \/ s \in left'
  PROVE  StagingInv'
  <1> USE DEF TypeOK, StagingInv, control
  <1>1. Known' /\ Apart'
    BY DEF Known, Apart, Inserting
  <1>2. NoRowYet'
    BY DEF NoRowYet, Targeted
  <1>3. Staged'
    BY DEF Staged, Inserting, NoRowYet, Targeted
  <1>4. \A i \in Requests : Owned(i)' = Owned(i)
    BY DEF Owned
  <1>5. Claimed'
    BY <1>4 DEF Claimed
  <1> QED  BY <1>1, <1>2, <1>3, <1>5

LEMMA AbortedRows ==
  ASSUME row \in [Sessions -> Row], NEW l \in Locals, l.target \in Sessions,
         row' = Aborted(l)
  PROVE  /\ \A s \in Sessions : /\ s # l.target => Exists(s)' = Exists(s)
                                /\ Exists(s)' => Exists(s)
                                /\ Unfinished(s)' => Unfinished(s)
         /\ Unfinished(l.target) => ~Exists(l.target)'
         /\ ~Unfinished(l.target) => row' = row
  BY Defaults DEF Aborted, Removed, NoRow, Exists, Unfinished, Row

LEMMA InsertedRows ==
  ASSUME row \in [Sessions -> Row], NEW l \in Locals, l.target \in Sessions,
         row' = Inserted(l)
  PROVE  /\ \A s \in Sessions \ {l.target} :
              Exists(s)' = Exists(s) /\ Unfinished(s)' = Unfinished(s)
         /\ CanInsert(l.key) => Exists(l.target)'
         /\ ~CanInsert(l.key) => row' = row
  <1>1. CASE CanInsert(l.key)
    BY <1>1 DEF Inserted, NoRow, Exists, Unfinished
  <1>2. CASE ~CanInsert(l.key)
    BY <1>2 DEF Inserted, Exists, Unfinished
  <1> QED  BY <1>1, <1>2

LEMMA SessionStaging ==
  ASSUME TypeOK, StagingInv,
         \/ \E s \in Sessions : SessionStep(s)
         \/ TrashParent
         \/ \E call \in late : call.op = "abort_tx" /\ Land(call)
  PROVE  StagingInv'
  <1> USE DEF TypeOK
  <1>1. ASSUME NEW s \in Sessions, SessionStep(s) PROVE StagingInv'
    <2> USE DEF Change, Exists, Unfinished, Row, NoRow, disk
    <2>1. CASE Expire(s)
      BY <2>1, EndStaging DEF Expire
    <2>2. CASE Commit(s)
      BY <2>2, EndStaging DEF Commit
    <2>3. CASE Complete(s)
      BY <2>3, EndStaging DEF Complete
    <2>4. CASE End(s)
      BY <2>4, EndStaging DEF End
    <2>5. CASE DeleteFile(s)
      BY <2>5, EndStaging DEF DeleteFile
    <2>6. CASE MoveAway(s)
      BY <2>6, EndStaging DEF MoveAway
    <2> QED  BY <1>1, <2>1, <2>2, <2>3, <2>4, <2>5, <2>6 DEF SessionStep
  <1>2. CASE TrashParent
    <2>1. \A s \in Sessions : Exists(s)' = Exists(s) /\ Unfinished(s)' = Unfinished(s)
      BY <1>2 DEF TrashParent, Exists, Unfinished, Row
    <2> QED  BY <1>2, <2>1, EndStaging DEF TrashParent, disk
  <1>3. ASSUME NEW call \in late, call.op = "abort_tx", Land(call) PROVE StagingInv'
    <2>1. call.loc \in Locals /\ call.loc.target \in Sessions /\ row' = Aborted(call.loc)
      BY <1>3 DEF Land, RowAfter
    <2> QED  BY <1>3, <2>1, AbortedRows, EndStaging DEF Land
  <1> QED  BY <1>1, <1>2, <1>3

\* The requests other than one that moves.
LEMMA Others ==
  ASSUME pc \in [Requests -> Labels], loc \in [Requests -> Locals],
         NEW i \in Requests, NEW label, NEW l, Goto(i, label, l)
  PROVE  /\ pc'[i] = label /\ loc'[i] = l
         /\ \A j \in Requests \ {i} : pc'[j] = pc[j] /\ loc'[j] = loc[j]
  BY DEF Goto

LEMMA AbortTxStaging ==
  ASSUME TypeOK, StagingInv, NEW i \in Requests, AbortTx(i)
  PROVE  StagingInv'
  <1> USE DEF TypeOK, StagingInv
  <1> PICK l \in Locals : l = loc[i]
    OBVIOUS
  <1>1. /\ l.target \in Sessions /\ loc[i] = l
        /\ pc[i] = "abort_tx" /\ row' = Aborted(l)
        /\ UNCHANGED <<used, dirs, left, late>>
    BY DEF AbortTx, RowAfter, Targeted, disk
  <1>2. CASE ~Unfinished(l.target)
    BY <1>1, <1>2, AbortedRows, MoveStaging DEF AbortTx, NotFound, Labels, Targeted, disk
  <1>3. CASE Unfinished(l.target)
    <2>1. Goto(i, "abort_files", l)
      BY <1>1, <1>3 DEF AbortTx
    <2>2. /\ pc'[i] = "abort_files" /\ loc'[i] = l
          /\ \A j \in Requests \ {i} : pc'[j] = pc[j] /\ loc'[j] = loc[j]
      BY <2>1, Others
    <2>3. /\ \A s \in Sessions \ {l.target} : Exists(s)' = Exists(s)
          /\ \A s \in Sessions : /\ Exists(s)' => Exists(s)
                                 /\ Unfinished(s)' => Unfinished(s)
          /\ ~Exists(l.target)'
      BY <1>1, <1>3, AbortedRows
    <2>4. Known' /\ Apart'
      BY <1>1, <2>2, <2>3 DEF Known, Apart, Inserting, Targeted
    <2>5. NoRowYet'
      BY <1>1, <2>2, <2>3 DEF NoRowYet, Targeted, Exists
    <2>6. Staged'
      BY <1>1, <2>2, <2>3 DEF Staged, Inserting
    <2>7. /\ l.target \in Owned(i)'
          /\ \A j \in Requests : Owned(j) \subseteq Owned(j)'
      BY <1>1, <2>2 DEF Owned
    <2>8. Claimed'
      BY <1>1, <2>3, <2>7 DEF Claimed
    <2> QED  BY <2>4, <2>5, <2>6, <2>8
  <1> QED  BY <1>2, <1>3

\* The directory of a session that has no row, and will not get one.
LEMMA RemoveStaging ==
  ASSUME TypeOK, StagingInv, NEW i \in Requests, AbortFiles(i) \/ Undo(i)
  PROVE  StagingInv'
  <1> USE DEF TypeOK, StagingInv
  <1>1. /\ loc[i].target \in Sessions /\ pc[i] \in {"undo", "abort_files"}
        /\ dirs' = dirs \ {loc[i].target} /\ UNCHANGED <<row, used, left, late>>
    BY DEF AbortFiles, Undo, Targeted
  <1>2. /\ pc'[i] \notin Targeted
        /\ \A j \in Requests \ {i} : pc'[j] = pc[j] /\ loc'[j] = loc[j]
    BY Others DEF AbortFiles, Undo, Answer, Targeted
  <1>3. \A s \in Sessions : Exists(s)' = Exists(s) /\ Unfinished(s)' = Unfinished(s)
    BY <1>1 DEF Exists, Unfinished
  <1>4. Known' /\ Apart'
    BY <1>1, <1>2, <1>3 DEF Known, Apart, Inserting, Targeted
  <1>5. NoRowYet'
    BY <1>1, <1>2, <1>3 DEF NoRowYet, Targeted
  <1>6. ~Unfinished(loc[i].target)
    BY <1>1 DEF NoRowYet, Unfinished, Exists
  <1>7. Staged'
    BY <1>1, <1>2, <1>3, <1>6 DEF Staged, Apart, Inserting, Targeted
  <1>8. \A j \in Requests \ {i} : Owned(j)' = Owned(j)
    BY <1>2 DEF Owned
  <1>9. Owned(i) = {loc[i].target}
    BY <1>1 DEF Owned
  <1>10. Claimed'
    BY <1>1, <1>3, <1>8, <1>9 DEF Claimed
  <1> QED  BY <1>4, <1>5, <1>7, <1>10

\* A new id is in nobody's hands.
LEMMA MakeStaging ==
  ASSUME TypeOK, StagingInv, NEW i \in Requests, Make(i)
  PROVE  StagingInv'
  <1> USE DEF TypeOK, StagingInv
  <1>1. PICK s \in Sessions :
          /\ s \notin used /\ used' = used \cup {s} /\ dirs' = dirs \cup {s}
          /\ Goto(i, "insert", [loc[i] EXCEPT !.target = s])
    BY DEF Make
  <1>2. PICK l \in Locals : l = [loc[i] EXCEPT !.target = s]
    BY DEF Locals
  <1>3. l.target = s
    BY <1>2 DEF Locals
  <1>4. /\ pc[i] = "make" /\ pc'[i] = "insert" /\ loc'[i].target = s
        /\ \A j \in Requests \ {i} : pc'[j] = pc[j] /\ loc'[j] = loc[j]
        /\ UNCHANGED <<row, left, late>>
    BY <1>1, <1>2, <1>3, Others DEF Make
  <1>5. \A t \in Sessions : Exists(t)' = Exists(t) /\ Unfinished(t)' = Unfinished(t)
    BY <1>4 DEF Exists, Unfinished
  <1>6. Known'
    BY <1>1, <1>4, <1>5 DEF Known, Targeted
  <1>7. Apart'
    BY <1>1, <1>4 DEF Apart, Known, Inserting, Targeted
  <1>8. NoRowYet'
    BY <1>1, <1>4, <1>5 DEF NoRowYet, Known, Targeted
  <1>9. Staged'
    BY <1>1, <1>4, <1>5 DEF Staged, Inserting
  <1>10. /\ s \in Owned(i)' /\ Owned(i) = {}
         /\ \A j \in Requests \ {i} : Owned(j)' = Owned(j)
    BY <1>4 DEF Owned
  <1>11. Claimed'
    BY <1>1, <1>4, <1>5, <1>10 DEF Claimed
  <1> QED  BY <1>6, <1>7, <1>8, <1>9, <1>11

\* A refused insert leaves its request with the directory to remove.
LEMMA InsertStaging ==
  ASSUME TypeOK, StagingInv, NEW i \in Requests, Insert(i)
  PROVE  StagingInv'
  <1> USE DEF TypeOK, StagingInv
  <1> PICK l \in Locals : l = loc[i]
    OBVIOUS
  <1>1. /\ l.target \in Sessions /\ loc[i] = l
        /\ pc[i] = "insert" /\ row' = Inserted(l)
        /\ UNCHANGED <<used, dirs, left, late>>
    BY DEF Insert, RowAfter, Targeted, disk
  <1>2. /\ \A s \in Sessions \ {l.target} :
             Exists(s)' = Exists(s) /\ Unfinished(s)' = Unfinished(s)
        /\ CanInsert(l.key) => Exists(l.target)'
        /\ ~CanInsert(l.key) => row' = row
    BY <1>1, InsertedRows
  <1>3. /\ pc'[i] = IF CanInsert(l.key) THEN "idle" ELSE "undo"
        /\ ~CanInsert(l.key) => loc'[i] = l
        /\ \A j \in Requests \ {i} : pc'[j] = pc[j] /\ loc'[j] = loc[j]
    BY <1>1, Others DEF Insert, Answer
  <1>4. Known'
    <2>1. l.target \in used
      BY <1>1 DEF Known, Targeted
    <2> QED  BY <1>1, <1>2, <1>3, <2>1 DEF Known, Targeted, Exists
  <1>5. Apart'
    BY <1>1, <1>3 DEF Apart, Inserting, Targeted
  <1>6. NoRowYet'
    <2>1. /\ \A j \in Requests \ {i} : pc[j] \in Targeted => loc[j].target # l.target
          /\ \A call \in late : call.loc.target # l.target
      BY <1>1 DEF Apart, Inserting
    <2>2. CASE CanInsert(l.key)
      BY <1>1, <1>2, <1>3, <2>1, <2>2 DEF NoRowYet, Targeted
    <2>3. CASE ~CanInsert(l.key)
      BY <1>1, <1>2, <1>3, <2>3 DEF NoRowYet, Exists
    <2> QED  BY <2>2, <2>3
  <1>7. Staged'
    BY <1>1, <1>2, <1>3 DEF Staged, Inserting
  <1>8. /\ Owned(i) = {l.target}
        /\ ~CanInsert(l.key) => l.target \in Owned(i)'
        /\ \A j \in Requests \ {i} : Owned(j)' = Owned(j)
    BY <1>1, <1>3 DEF Owned
  <1>9. Claimed'
    BY <1>1, <1>2, <1>8 DEF Claimed
  <1> QED  BY <1>4, <1>5, <1>6, <1>7, <1>9

\* An insert that lands late finds its directory.
LEMMA LandStaging ==
  ASSUME TypeOK, StagingInv, NEW call \in late, call.op = "insert", Land(call)
  PROVE  StagingInv'
  <1> USE DEF TypeOK, StagingInv
  <1> PICK l \in Locals : l = call.loc
    OBVIOUS
  <1>1. /\ l.target \in Sessions /\ row' = Inserted(l) /\ late' = late \ {call}
        /\ UNCHANGED <<used, dirs, left, pc, loc>>
    BY DEF Land, RowAfter, control
  <1>2. \A s \in Sessions \ {l.target} :
          Exists(s)' = Exists(s) /\ Unfinished(s)' = Unfinished(s)
    BY <1>1, InsertedRows
  <1>3. \/ Exists(l.target)'
        \/ row' = row
    BY <1>1, InsertedRows
  <1>4. Known'
    <2>1. l.target \in used
      BY DEF Known
    <2> QED  BY <1>1, <1>2, <2>1 DEF Known
  <1>5. Apart'
    BY <1>1 DEF Apart, Inserting
  <1>6. NoRowYet'
    <2>1. /\ \A j \in Requests : pc[j] \in Targeted => loc[j].target # l.target
          /\ \A c \in late' : c.op = "insert" => c.loc.target # l.target
      BY <1>1 DEF Apart
    <2> QED  BY <1>1, <1>2, <2>1 DEF NoRowYet, Targeted
  <1>7. Staged'
    BY <1>1, <1>2 DEF Staged, Inserting
  <1>8. \A i \in Requests : Owned(i)' = Owned(i)
    BY <1>1 DEF Owned
  <1>9. \A s \in Sessions : Exists(s) => Exists(s)'
    BY <1>2, <1>3 DEF Exists
  <1>10. Claimed'
    BY <1>1, <1>8, <1>9 DEF Claimed
  <1> QED  BY <1>4, <1>5, <1>6, <1>7, <1>10

\* A request that is cut short leaves its directory, and perhaps a statement.
LEMMA InterruptStaging ==
  ASSUME TypeOK, StagingInv, NEW i \in Requests, Interrupt(i)
  PROVE  StagingInv'
  <1> USE DEF TypeOK, StagingInv
  <1>1. /\ Answer(i) /\ left' = left \cup Owned(i)
        /\ UNCHANGED <<row, used, dirs>>
    BY DEF Interrupt
  <1>2. CASE late' = late
    BY <1>1, <1>2, AnswerStaging
  <1>3. CASE pc[i] \in Statements /\ late' = late \cup {[op |-> pc[i], loc |-> loc[i]]}
    <2>1. /\ pc'[i] = "idle"
          /\ \A j \in Requests \ {i} : pc'[j] = pc[j] /\ loc'[j] = loc[j]
      BY <1>1, Others DEF Answer
    <2>2. PICK c : /\ c = [op |-> pc[i], loc |-> loc[i]] /\ late' = late \cup {c}
                   /\ c.op = pc[i] /\ c.loc = loc[i] /\ pc[i] \in Targeted
      BY <1>3 DEF Statements, Targeted
    <2>3. \A s \in Sessions : Exists(s)' = Exists(s) /\ Unfinished(s)' = Unfinished(s)
      BY <1>1 DEF Exists, Unfinished
    <2>4. Known'
      BY <1>1, <2>1, <2>2, <2>3 DEF Known, Targeted
    <2>5. Apart'
      BY <2>1, <2>2 DEF Apart, Inserting, Targeted
    <2>6. NoRowYet'
      BY <1>1, <2>1, <2>2, <2>3 DEF NoRowYet, Targeted
    <2>7. Staged'
      BY <1>1, <2>1, <2>2, <2>3 DEF Staged, Inserting
    <2>8. \A j \in Requests \ {i} : Owned(j)' = Owned(j)
      BY <2>1 DEF Owned
    <2>9. Claimed'
      BY <1>1, <2>3, <2>8 DEF Claimed
    <2> QED  BY <2>4, <2>5, <2>6, <2>7, <2>9
  <1> QED  BY <1>2, <1>3 DEF Interrupt

LEMMA CrashStaging == ASSUME TypeOK, StagingInv, Crash PROVE StagingInv'
  <1> USE DEF TypeOK, StagingInv
  <1>1. /\ \A i \in Requests : pc'[i] = "idle"
        /\ late' = {} /\ UNCHANGED <<row, used, dirs>>
        /\ left' = left \cup UNION {Owned(i) : i \in Requests}
    BY DEF Crash
  <1>2. \A s \in Sessions : Exists(s)' = Exists(s) /\ Unfinished(s)' = Unfinished(s)
    BY <1>1 DEF Exists, Unfinished
  <1>3. Known' /\ Apart' /\ NoRowYet' /\ Staged'
    BY <1>1, <1>2 DEF Known, Apart, NoRowYet, Staged, Inserting, Targeted
  <1>4. Claimed'
    BY <1>1, <1>2 DEF Claimed
  <1> QED  BY <1>3, <1>4

\* upload_routes.rs:434 -- whatever is cut short and whatever lands late, a
\* staging directory has a session, a request at work or a known reason to be
\* left, and no session that takes parts has lost its own.
THEOREM StagingKept == Spec => []StagingMatches
  <1>1. Init => StagingInv
    BY DEF Init, StagingInv, Known, Apart, NoRowYet, Staged, Claimed, Inserting,
           Targeted, Exists, Unfinished, NoRow
  <1>2. ASSUME TypeOK, StagingInv, [Next]_vars PROVE StagingInv'
    <2>1. CASE UNCHANGED vars
      BY <1>2, <2>1, EndStaging DEF vars, control, Exists, Unfinished
    <2>2. CASE \E call \in late : Land(call)
      BY <1>2, <2>2, LandStaging, SessionStaging DEF TypeOK, Statements
    <2> QED
      BY <1>2, <2>1, <2>2, RequestStaging, AbortTxStaging, RemoveStaging, MakeStaging,
         InsertStaging, InterruptStaging, CrashStaging, SessionStaging
      DEF Next, RequestStep
  <1>3. TypeOK /\ StagingInv => StagingMatches
    BY DEF StagingInv, Claimed, Staged, StagingMatches
  <1> QED  BY <1>1, <1>2, <1>3, TypeCorrect, PTL DEF Spec

-----------------------------------------------------------------------------
(* Idempotency keys.  As long as no insert outlives its request, a key that *)
(* a request holds the lock of is taken by nobody but that request; so what *)
(* it has found out about its sessions stays true.                          *)

KeysApart ==
  \A i, j \in Requests :
    pc[i] # "idle" /\ pc[j] # "idle" /\ loc[i].key # None /\ loc[i].key = loc[j].key => i = j

KeysUnique ==
  \A s, t \in Sessions :
    Exists(s) /\ Exists(t) /\ row[s].key # None /\ row[s].key = row[t].key => s = t

\* The session that a request for the key has found and may reclaim.
Reclaimed(label, l) ==
  IF l.by_key /\ label \in {"abort", "abort_tx", "reload"} THEN {l.target} ELSE {}

KeysKnown ==
  \A i \in Requests :
    pc[i] \notin {"idle", "lookup", "undo"} /\ loc[i].key # None
      => WithKey(loc[i].key) \subseteq Reclaimed(pc[i], loc[i])

KeyInv == KeysApart /\ KeysUnique /\ (overrun \/ KeysKnown)

\* No session appears, and none changes its key.
Fewer == \A s \in Sessions : Exists(s)' => Exists(s) /\ row'[s].key = row[s].key

LEMMA FewerKeys ==
  ASSUME KeysUnique, Fewer
  PROVE  KeysUnique' /\ \A k : WithKey(k)' \subseteq WithKey(k)
  BY DEF KeysUnique, Fewer, WithKey, Exists

LEMMA SameRowsFewer ==
  ASSUME row' = row
  PROVE  Fewer
  BY DEF Fewer, Exists

\* KeysKnown, with names for what it is about.
KnownToAll ==
  \A i \in Requests : \A lab, m :
    pc[i] = lab /\ loc[i] = m
      => \/ lab \in {"idle", "lookup", "undo"} \/ m.key = None
         \/ WithKey(m.key) \subseteq Reclaimed(lab, m)

LEMMA KnownNow == KnownToAll => KeysKnown
  BY DEF KnownToAll, KeysKnown

LEMMA KnownLater == KnownToAll' => KeysKnown'
  BY KnownNow, PTL

LEMMA TypedFlag == TypeOK => overrun \in BOOLEAN
  BY DEF TypeOK

\* Rows go, and no request moves.
LEMMA StillKeys ==
  ASSUME KeyInv, Fewer, pc' = pc, loc' = loc, overrun' = overrun
  PROVE  KeyInv'
  <1>1. KeysUnique' /\ \A k : WithKey(k)' \subseteq WithKey(k)
    BY FewerKeys DEF KeyInv
  <1>2. KeysApart'
    BY DEF KeyInv, KeysApart
  <1>3. overrun \/ KnownToAll'
    <2>1. ASSUME ~overrun, NEW i \in Requests, NEW lab, NEW m, pc'[i] = lab, loc'[i] = m,
                 lab \notin {"idle", "lookup", "undo"}, m.key # None
          PROVE  WithKey(m.key)' \subseteq Reclaimed(lab, m)
      BY <1>1, <2>1 DEF KeyInv, KeysKnown
    <2> QED  BY <2>1 DEF KnownToAll
  <1> QED  BY <1>1, <1>2, <1>3, KnownLater DEF KeyInv

\* An insert that goes through changes one key's sessions, which had none.
LEMMA InsertedKeys ==
  ASSUME row \in [Sessions -> Row], NEW l \in Locals, l.target \in Sessions,
         KeysUnique, CanInsert(l.key), row' = Inserted(l)
  PROVE  KeysUnique' /\ \A k : k # l.key => WithKey(k)' \subseteq WithKey(k)
  <1>1. PICK r : /\ r = [NoRow EXCEPT !.state = "receiving", !.key = l.key,
                                      !.print = l.print, !.named = TRUE]
                 /\ row' = [row EXCEPT ![l.target] = r]
    BY DEF Inserted
  <1>2. r.state = "receiving" /\ r.key = l.key
    BY <1>1 DEF NoRow
  <1>3. /\ row'[l.target] = r
        /\ \A s \in Sessions : s # l.target => row'[s] = row[s]
    BY <1>1
  <1>4. l.key # None => \A s \in Sessions : Exists(s) => row[s].key # l.key
    BY DEF CanInsert, WithKey
  <1>5. KeysUnique'
    BY <1>2, <1>3, <1>4 DEF KeysUnique, Exists
  <1>6. \A k : k # l.key => WithKey(k)' \subseteq WithKey(k)
    BY <1>2, <1>3 DEF WithKey, Exists
  <1> QED  BY <1>5, <1>6

\* A request goes on.
LEMMA MoveKeys ==
  ASSUME TypeOK, KeyInv, NEW i \in Requests, NEW label, NEW l, Goto(i, label, l), Fewer,
         overrun' = overrun,
         \/ label = "idle"
         \/ pc[i] # "idle" /\ l.key = loc[i].key
         \/ KeyFree(l.key),
         \/ overrun \/ label \in {"idle", "lookup", "undo"} \/ l.key = None
         \/ WithKey(l.key)' \subseteq Reclaimed(label, l)
  PROVE  KeyInv'
  <1>1. /\ pc'[i] = label /\ loc'[i] = l
        /\ \A j \in Requests : j # i => pc'[j] = pc[j] /\ loc'[j] = loc[j]
    BY DEF Goto, TypeOK
  <1>2. KeysUnique' /\ \A k : WithKey(k)' \subseteq WithKey(k)
    BY FewerKeys DEF KeyInv
  <1>3. KeysApart'
    <2>1. label # "idle" /\ l.key # None =>
            \A j \in Requests : j # i /\ pc[j] # "idle" => loc[j].key # l.key
      BY DEF KeyInv, KeysApart, KeyFree
    <2> QED  BY <1>1, <2>1 DEF KeyInv, KeysApart
  <1>4. overrun' \/ KeysKnown'
    <2>1. overrun \/ (pc'[i] \notin {"idle", "lookup", "undo"} /\ (loc'[i]).key # None
                        => WithKey(l.key)' \subseteq Reclaimed(label, l))
      BY <1>1
    <2>2. ASSUME NEW j \in Requests, NEW lab, NEW m, j # i, lab = pc[j], m = loc[j]
          PROVE  \/ overrun \/ lab \in {"idle", "lookup", "undo"} \/ m.key = None
                 \/ WithKey(m.key)' \subseteq Reclaimed(lab, m)
      BY <1>2, <2>2 DEF KeyInv, KeysKnown
    <2>3. overrun \/ KnownToAll'
      <3> SUFFICES ASSUME ~overrun, NEW j \in Requests, NEW lab, NEW m,
                          pc'[j] = lab, loc'[j] = m
                   PROVE  \/ lab \in {"idle", "lookup", "undo"} \/ m.key = None
                          \/ WithKey(m.key)' \subseteq Reclaimed(lab, m)
        BY DEF KnownToAll
      <3>1. CASE j = i
        BY <1>1, <2>1, <3>1
      <3>2. CASE j # i
        BY <1>1, <2>2, <3>2
      <3> QED  BY <3>1, <3>2
    <2> QED  BY <2>3, KnownLater
  <1> QED  BY <1>2, <1>3, <1>4 DEF KeyInv

\* The steps that only move a request on.
LEMMA RequestKeys ==
  ASSUME TypeOK, KeyInv, NEW i \in Requests,
         \/ \E k \in IdemKeys \cup {None}, p \in Prints : Begin(i, k, p)
         \/ LookUp(i) \/ Find(i) \/ AbortLoad(i) \/ Reload(i) \/ CheckParent(i)
  PROVE  KeyInv'
  <1>1. row' = row /\ overrun' = overrun
    BY DEF Begin, LookUp, Find, AbortLoad, Reload, CheckParent, counts
  <1>2. Fewer /\ \A k : WithKey(k)' = WithKey(k)
    BY <1>1, SameRowsFewer DEF WithKey, Exists
  <1>3. CASE Answer(i)
    BY <1>1, <1>2, <1>3, MoveKeys DEF Answer
  <1>4. overrun \/ (pc[i] \notin {"idle", "lookup", "undo"} /\ loc[i].key # None
                      => WithKey(loc[i].key) \subseteq Reclaimed(pc[i], loc[i]))
    BY DEF KeyInv, KeysKnown
  \* What a request knows stays true where it goes.
  <1>5. ASSUME NEW label, Goto(i, label, loc[i]), pc[i] # "idle",
               Reclaimed(pc[i], loc[i]) \subseteq Reclaimed(label, loc[i]),
               pc[i] \notin {"lookup", "undo"}
        PROVE  KeyInv'
    BY <1>1, <1>2, <1>4, <1>5, MoveKeys
  <1>6. ASSUME NEW k \in IdemKeys \cup {None}, NEW p \in Prints, Begin(i, k, p)
        PROVE  KeyInv'
    <2>1. PICK l, label : /\ l = [NoLoc EXCEPT !.key = k, !.print = p]
                          /\ label = IF k = None THEN "find" ELSE "lookup"
      OBVIOUS
    <2>2. l.key = k
      BY <2>1 DEF NoLoc
    <2>3. Goto(i, label, l) /\ KeyFree(k)
      BY <1>6, <2>1 DEF Begin
    <2> QED  BY <1>1, <1>2, <2>1, <2>2, <2>3, MoveKeys
  <1>7. CASE LookUp(i)
    <2>1. CASE WithKey(loc[i].key) = {} /\ Goto(i, "find", loc[i])
      BY <1>1, <1>2, <1>7, <2>1, MoveKeys DEF LookUp
    <2>2. ASSUME NEW s \in WithKey(loc[i].key),
                 Goto(i, "abort", [loc[i] EXCEPT !.target = s, !.by_key = TRUE])
          PROVE  KeyInv'
      <3>1. PICK l : l = [loc[i] EXCEPT !.target = s, !.by_key = TRUE]
        OBVIOUS
      <3>2. l.key = loc[i].key /\ l.target = s /\ l.by_key = TRUE
        BY <3>1 DEF TypeOK, Locals
      <3>3. l.key # None => WithKey(l.key) \subseteq {s}
        BY <2>2, <3>2 DEF KeyInv, KeysUnique, WithKey
      <3>4. Reclaimed("abort", l) = {s}
        BY <3>2 DEF Reclaimed
      <3>5. Goto(i, "abort", l) /\ pc[i] # "idle"
        BY <1>7, <2>2, <3>1 DEF LookUp
      <3> QED  BY <1>1, <1>2, <3>2, <3>3, <3>4, <3>5, MoveKeys
    <2> QED  BY <1>3, <1>7, <2>1, <2>2 DEF LookUp
  <1>8. CASE Find(i)
    <2>1. pc[i] = "find"
      BY <1>8 DEF Find
    <2>2. Reclaimed(pc[i], loc[i]) = {}
      BY <2>1 DEF Reclaimed
    <2>3. CASE Goto(i, "check", loc[i])
      BY <1>5, <2>1, <2>2, <2>3
    <2>4. ASSUME NEW s \in Sessions,
                 Goto(i, "abort", [loc[i] EXCEPT !.target = s, !.by_key = FALSE])
          PROVE  KeyInv'
      <3>1. PICK l : l = [loc[i] EXCEPT !.target = s, !.by_key = FALSE]
        OBVIOUS
      <3>2. l.key = loc[i].key /\ l.by_key = FALSE
        BY <3>1 DEF TypeOK, Locals
      <3>3. Goto(i, "abort", l) /\ pc[i] # "idle"
        BY <2>1, <2>4, <3>1
      <3>4. overrun \/ l.key = None \/ WithKey(l.key) = {}
        BY <1>4, <2>1, <2>2, <3>2
      <3> QED  BY <1>1, <1>2, <3>2, <3>3, <3>4, MoveKeys
    <2> QED  BY <1>8, <2>3, <2>4 DEF Find
  <1>9. CASE AbortLoad(i)
    <2>1. pc[i] = "abort"
      BY <1>9 DEF AbortLoad
    <2> QED  BY <1>5, <1>9, <2>1 DEF AbortLoad, NotFound, Reclaimed
  <1>10. CASE Reload(i)
    <2>1. pc[i] = "reload"
      BY <1>10 DEF Reload
    <2>2. ASSUME ~Exists(loc[i].target), Goto(i, "find", loc[i])
          PROVE  KeyInv'
      <3>1. loc[i].target \notin WithKey(loc[i].key)
        BY <2>2 DEF WithKey
      <3>2. overrun \/ loc[i].key = None \/ WithKey(loc[i].key) = {}
        BY <1>4, <2>1, <3>1 DEF Reclaimed
      <3> QED  BY <1>1, <1>2, <2>1, <2>2, <3>2, MoveKeys
    <2> QED  BY <1>3, <1>10, <2>2 DEF Reload
  <1>11. CASE CheckParent(i)
    <2>1. pc[i] = "check"
      BY <1>11 DEF CheckParent
    <2> QED  BY <1>3, <1>5, <1>11, <2>1 DEF CheckParent, Reclaimed
  <1> QED  BY <1>6, <1>7, <1>8, <1>9, <1>10, <1>11

\* Those that work on a session.
LEMMA WorkKeys ==
  ASSUME TypeOK, KeyInv, NEW i \in Requests,
         AbortTx(i) \/ AbortFiles(i) \/ Make(i) \/ Undo(i)
  PROVE  KeyInv'
  <1>1. overrun' = overrun
    BY DEF AbortTx, AbortFiles, Make, Undo, counts
  <1>2. overrun \/ (pc[i] \notin {"idle", "lookup", "undo"} /\ loc[i].key # None
                      => WithKey(loc[i].key) \subseteq Reclaimed(pc[i], loc[i]))
    BY DEF KeyInv, KeysKnown
  <1>3. CASE AbortTx(i)
    <2>1. /\ pc[i] = "abort_tx" /\ row' = Aborted(loc[i])
          /\ loc[i] \in Locals /\ loc[i].target \in Sessions /\ row \in [Sessions -> Row]
      BY <1>3 DEF AbortTx, RowAfter, TypeOK, Targeted
    <2>2. Fewer
      BY <2>1, Defaults DEF Aborted, Removed, NoRow, Fewer, Exists, Row
    <2>3. \A k : WithKey(k)' \subseteq WithKey(k)
      BY <2>2, FewerKeys DEF KeyInv
    <2>4. CASE Unfinished(loc[i].target)
      <3>1. PICK l : l = loc[i]
        OBVIOUS
      <3>2. l.target \notin WithKey(l.key)'
        BY <2>1, <2>4, <3>1, AbortedRows DEF WithKey
      <3>3. Goto(i, "abort_files", l)
        BY <1>3, <2>4, <3>1 DEF AbortTx
      <3>4. overrun \/ l.key = None \/ WithKey(l.key)' = {}
        BY <1>2, <2>1, <2>3, <3>1, <3>2 DEF Reclaimed
      <3> QED  BY <1>1, <2>1, <2>2, <3>1, <3>3, <3>4, MoveKeys
    <2>5. CASE ~Unfinished(loc[i].target)
      <3>1. PICK label, l : /\ label = IF loc[i].by_key THEN "reload" ELSE "check"
                            /\ l = loc[i] /\ Goto(i, label, l)
        BY <1>3, <2>5 DEF AbortTx, NotFound
      <3>2. Reclaimed(pc[i], loc[i]) = Reclaimed(label, l)
        BY <2>1, <3>1 DEF Reclaimed
      <3>3. overrun \/ l.key = None \/ WithKey(l.key)' \subseteq Reclaimed(label, l)
        BY <1>2, <2>1, <2>3, <3>1, <3>2
      <3> QED  BY <1>1, <2>1, <2>2, <3>1, <3>3, MoveKeys
    <2> QED  BY <2>4, <2>5
  <1>4. ASSUME row' = row, NEW label, NEW l, Goto(i, label, l), l.key = loc[i].key,
               pc[i] \in {"abort_files", "make"}
        PROVE  KeyInv'
    <2>1. Fewer /\ \A k : WithKey(k)' = WithKey(k)
      BY <1>4, SameRowsFewer DEF WithKey, Exists
    <2>2. overrun \/ l.key = None \/ WithKey(l.key)' = {}
      BY <1>2, <1>4, <2>1 DEF Reclaimed
    <2> QED  BY <1>1, <1>4, <2>1, <2>2, MoveKeys
  <1>5. CASE AbortFiles(i)
    BY <1>4, <1>5 DEF AbortFiles
  <1>6. CASE Make(i)
    <2>1. PICK l : /\ l = [loc[i] EXCEPT !.target = CHOOSE s \in Sessions : s \notin used]
                   /\ Goto(i, "insert", l)
      BY <1>6 DEF Make
    <2>2. l.key = loc[i].key
      BY <2>1 DEF TypeOK, Locals
    <2> QED  BY <1>4, <1>6, <2>1, <2>2 DEF Make
  <1>7. CASE Undo(i)
    BY <1>1, <1>7, SameRowsFewer, MoveKeys DEF Undo, Answer
  <1> QED  BY <1>3, <1>5, <1>6, <1>7

\* The insert: a key is given away only while nobody has it.
LEMMA InsertKeys ==
  ASSUME TypeOK, KeyInv, NEW i \in Requests, Insert(i)
  PROVE  KeyInv'
  <1>1. /\ pc[i] = "insert" /\ overrun' = overrun /\ row' = Inserted(loc[i])
        /\ loc[i] \in Locals /\ loc[i].target \in Sessions /\ row \in [Sessions -> Row]
    BY DEF Insert, counts, RowAfter, TypeOK, Targeted
  <1>2. CASE ~CanInsert(loc[i].key)
    <2>1. Fewer
      BY <1>1, <1>2, SameRowsFewer DEF Inserted
    <2>2. Goto(i, "undo", loc[i])
      BY <1>2 DEF Insert
    <2> QED  BY <1>1, <2>1, <2>2, MoveKeys
  <1>3. CASE CanInsert(loc[i].key)
    <2>1. /\ pc' = [pc EXCEPT ![i] = "idle"] /\ loc' = [loc EXCEPT ![i] = NoLoc]
      BY <1>3 DEF Insert, Answer, Goto
    <2>2. pc'[i] = "idle"
          /\ \A j \in Requests : j # i => pc'[j] = pc[j] /\ loc'[j] = loc[j]
      BY <2>1 DEF TypeOK
    <2>3. KeysUnique'
      BY <1>1, <1>3, InsertedKeys DEF KeyInv
    <2>4. KeysApart'
      BY <2>2 DEF KeyInv, KeysApart
    <2>5. ASSUME ~overrun, NEW j \in Requests, NEW lab, NEW m,
                 pc'[j] = lab, loc'[j] = m, lab \notin {"idle", "lookup", "undo"}, m.key # None
          PROVE  WithKey(m.key)' \subseteq Reclaimed(lab, m)
      <3>1. j # i /\ lab = pc[j] /\ m = loc[j]
        BY <2>2, <2>5
      <3>2. m.key # loc[i].key
        BY <1>1, <2>5, <3>1 DEF KeyInv, KeysApart
      <3>3. WithKey(m.key) \subseteq Reclaimed(lab, m)
        BY <2>5, <3>1 DEF KeyInv, KeysKnown
      <3>4. PICK l : l = loc[i]
        OBVIOUS
      <3>5. /\ l \in Locals /\ l.target \in Sessions /\ row \in [Sessions -> Row]
            /\ KeysUnique /\ CanInsert(l.key) /\ row' = Inserted(l)
        BY <1>1, <1>3, <3>4 DEF KeyInv
      <3> QED  BY <3>2, <3>3, <3>4, <3>5, InsertedKeys
    <2>6. overrun \/ KnownToAll'
      BY <2>5 DEF KnownToAll
    <2> QED  BY <1>1, <2>3, <2>4, <2>6, KnownLater DEF KeyInv
  <1> QED  BY <1>2, <1>3

\* A call that lands late gives up the knowledge, or takes rows away.
LEMMA LandKeys ==
  ASSUME TypeOK, KeyInv, NEW call \in late, Land(call)
  PROVE  KeyInv'
  <1>1. /\ pc' = pc /\ loc' = loc /\ row \in [Sessions -> Row]
        /\ call.op \in Statements /\ call.loc \in Locals /\ call.loc.target \in Sessions
        /\ row' = RowAfter(call.op, call.loc)
        /\ overrun' = (overrun \/ call.op = "insert")
    BY DEF Land, control, TypeOK
  <1>2. KeysApart'
    BY <1>1 DEF KeyInv, KeysApart
  <1>3. CASE call.op = "insert"
    <2>1. row' = Inserted(call.loc) /\ overrun'
      BY <1>1, <1>3 DEF RowAfter
    <2>2. KeysUnique'
      <3>1. CASE CanInsert(call.loc.key)
        BY <1>1, <2>1, <3>1, InsertedKeys DEF KeyInv
      <3>2. CASE ~CanInsert(call.loc.key)
        BY <2>1, <3>2, SameRowsFewer, FewerKeys DEF KeyInv, Inserted
      <3> QED  BY <3>1, <3>2
    <2> QED  BY <1>2, <2>1, <2>2 DEF KeyInv
  <1>4. CASE call.op # "insert"
    <2>1. row' = Aborted(call.loc) /\ overrun' = overrun
      BY <1>1, <1>4, TypedFlag DEF RowAfter
    <2>2. Fewer
      BY <1>1, <2>1, Defaults DEF Aborted, Removed, NoRow, Fewer, Exists, Row
    <2> QED  BY <1>1, <2>1, <2>2, StillKeys
  <1> QED  BY <1>3, <1>4

\* Requests that are cut short, and what becomes of a session.
LEMMA OtherKeys ==
  ASSUME TypeOK, KeyInv,
         \/ \E i \in Requests : Interrupt(i)
         \/ Crash \/ TrashParent
         \/ \E s \in Sessions : SessionStep(s)
  PROVE  KeyInv'
  <1>1. CASE \E i \in Requests : Interrupt(i)
    <2>1. PICK i \in Requests : Answer(i) /\ row' = row /\ overrun' = overrun
      BY <1>1 DEF Interrupt
    <2> QED  BY <2>1, SameRowsFewer, MoveKeys DEF Answer
  <1>2. CASE Crash
    <2>1. /\ \A i \in Requests : pc'[i] = "idle"
          /\ row' = row /\ overrun' = overrun
      BY <1>2 DEF Crash
    <2>2. KeysUnique'
      BY <2>1, SameRowsFewer, FewerKeys DEF KeyInv
    <2>3. KeysApart' /\ KeysKnown'
      BY <2>1 DEF KeysApart, KeysKnown
    <2> QED  BY <2>2, <2>3 DEF KeyInv
  <1>3. CASE TrashParent
    <2>1. Fewer
      BY <1>3 DEF TrashParent, Fewer, Exists, TypeOK, Row
    <2> QED  BY <1>3, <2>1, StillKeys DEF TrashParent, control
  <1>4. ASSUME NEW s \in Sessions, SessionStep(s)
        PROVE  KeyInv'
    <2>1. pc' = pc /\ loc' = loc /\ overrun' = overrun
      BY <1>4 DEF SessionStep, Expire, Commit, Complete, End, DeleteFile, MoveAway,
                  Change, control, counts
    <2>2. PICK r : /\ row' = [row EXCEPT ![s] = r]
                   /\ r.state # "absent" => Exists(s) /\ r.key = row[s].key
      <3>1. NoRow.state = "absent"
        BY DEF NoRow
      <3> QED
        BY <1>4, <3>1 DEF SessionStep, Expire, Commit, Complete, End, DeleteFile, MoveAway,
                  Change, Exists, InPlace, TypeOK, Row
    <2>3. Fewer
      BY <2>2 DEF Fewer, Exists, TypeOK
    <2> QED  BY <2>1, <2>3, StillKeys
  <1> QED  BY <1>1, <1>2, <1>3, <1>4

LEMMA NextKeys == ASSUME TypeOK, KeyInv, [Next]_vars PROVE KeyInv'
  <1>1. CASE UNCHANGED vars
    BY <1>1, SameRowsFewer, StillKeys DEF vars
  <1>2. ASSUME NEW i \in Requests, RequestStep(i)
        PROVE  KeyInv'
    BY <1>2, RequestKeys, WorkKeys, InsertKeys DEF RequestStep
  <1> QED  BY <1>1, <1>2, RequestKeys, LandKeys, OtherKeys DEF Next

LEMMA KeysKept == Spec => []KeyInv
  <1>1. Init => KeyInv
    BY DEF Init, KeyInv, KeysApart, KeysUnique, KeysKnown, Exists, NoRow
  <1>2. TypeOK /\ KeyInv /\ [Next]_vars => KeyInv'
    BY NextKeys
  <1> QED  BY <1>1, <1>2, TypeCorrect, PTL DEF Spec

\* OwnSessionKept (create_upload, the key's lock and the insert): of concurrent
\* and repeated requests for one key, none is refused because of a session that
\* its own key made, unless an insert ran after its request had given the
\* key's lock back.  The request that reaches the insert holds the key's lock,
\* and no session with the key is left (KeysKnown); the insert keeps that.
THEOREM OwnKept == Spec => OwnSessionKept
  <1>1. TypeOK /\ KeyInv /\ [Next]_vars
          => [\A i \in Requests :
                pc[i] = "insert" /\ pc'[i] = "undo" /\ loc[i].key # None /\ ~overrun
                  => WithKey(loc[i].key) = {}]_vars
    BY DEF KeyInv, KeysKnown, Reclaimed
  <1> QED  BY <1>1, TypeCorrect, KeysKept, PTL DEF Spec, OwnSessionKept
===============================================================================

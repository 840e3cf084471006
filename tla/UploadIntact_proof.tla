-------------------------- MODULE UploadIntact_proof --------------------------
(***************************************************************************)
(* What a session stores and publishes, for any number of clients, parts,  *)
(* payloads and faults, with calls that outlive their requests and power   *)
(* losses: what is published is one intact, durable object, made of the    *)
(* bytes that were accepted, and the session implements UploadPublication. *)
(*                                                                         *)
(* Locks alone do not give this, because a statement whose request is gone *)
(* runs without them.  It rests on what every process, and every such      *)
(* statement, knows of the object: from the moment that an object is in    *)
(* place and its name is on disk, nothing replaces it, so a tag and a hash *)
(* that were once its own are its own whenever they are written down.  The *)
(* parts of a multipart session are treated the same way, part by part.    *)
(***************************************************************************)
EXTENDS UploadSession_proof

\* a describes the object o, whose name has reached the disk.
Sound(a, o, d) == o # Absent /\ d = o /\ a = AckOf(o)

\* What a process at a label, or a statement that was submitted there, knows of
\* the session r and of the object o.
Knows(label, l, m, r, o, d) ==
  /\ label = "put_accept" /\ l.key = Blob =>
       Sound([etag |-> o.stamp, hash |-> l.version.content], o, d)
  /\ label = "put_rename" /\ l.key = Blob =>
       /\ m = "single" /\ o = Absent
       /\ l.version # Absent /\ l.version.content \in Contents
  /\ label = "put_sync" /\ l.key = Blob => o # Absent /\ l.version = o
  /\ label = "put_ack" /\ l.key = Blob => Sound(l.ack, o, d)
  /\ label = "rec_ack" => l.key \in Parts
  /\ label \in {"fin_freeze", "fin_head"} => l.ack = NoAck \/ Sound(l.ack, o, d)
  /\ label = "fin_sync" => o # Absent /\ l.ack = AckOf(o)
  /\ label \in {"fin_read", "fin_rename"} => m = "multipart" /\ o = Absent
  /\ label = "fin_rename" => l.version # Absent
  /\ label = "fin_settle" => o # Absent /\ l.version = o
  /\ label = "fin_stage" => Sound(l.ack, o, d)
  /\ label \in {"fin_verify", "fin_commit"} =>
       r.commit_state = "staged" /\ l.ack = r.ack[Blob]
  /\ label \notin {"abort_parts", "abort_blob"}

\* What the rows say of the object.
RowSound(r, o, d) ==
  /\ r.ack[Blob] = NoAck \/ Sound(r.ack[Blob], o, d)
  /\ r.commit_state = "staged" => Sound(r.ack[Blob], o, d)
  /\ r.status = "completed" => r.commit_state = "staged" /\ r.published = r.ack[Blob]

\* What is in place of a single upload is a body, and it is on disk, or its PUT
\* sees to that.
Body(v) == v = Absent \/ v.content \in Contents
BodySettled(m, o, d, c, v) ==
  m = "single" =>
    /\ Body(o) /\ Body(d)
    /\ \/ o = Absent \/ d = o
       \/ \E j \in Procs : c[j] = "put_sync" /\ v[j].key = Blob

\* Where the object is for good: without power failures, a name that only the
\* kernel has is as good as one on disk.
Disk == IF mode = "single" /\ "torn" \in upset THEN obj[Blob] ELSE durable[Blob]

\* No rename landed after its request had lost its guards, and no body of a
\* single upload is at the mercy of a power loss.
Calm == "overrun" \notin upset /\ (mode = "single" /\ PowerFails => "torn" \notin upset)

Knowing ==
  /\ RowSound(row, obj[Blob], Disk)
  /\ \A j \in Procs : Knows(pc[j], loc[j], mode, row, obj[Blob], Disk)
  /\ \A call \in late : call.op \in Statements =>
       Knows(call.op, call.loc, mode, row, obj[Blob], Disk)
  /\ BodySettled(mode, obj[Blob], Disk, pc, loc)

\* Lifecycle requests exclude everybody, and each key has one writer.
Guarded ==
  \A i, j \in Procs : i # j =>
    /\ pc[i] \in WriteGuard => pc[j] \notin WriteGuard \cup PartGuard
    /\ pc[i] \in PartGuard /\ pc[j] \in PartGuard => loc[i].key # loc[j].key

IntactInv == Guarded /\ (Calm /\ row.status # "gone" => Knowing)

-----------------------------------------------------------------------------
(* Locks.                                                                  *)

\* Where a process that changes its label may go, as far as locks matter.
Entry(i, label, l) ==
  \/ label \notin WriteGuard \cup PartGuard
  \/ label \in WriteGuard /\ (pc[i] \in WriteGuard \/ WriteFree)
  \/ /\ label \in PartGuard
     /\ (pc[i] \in PartGuard /\ l.key = loc[i].key) \/ ReadFree(l.key)

LEMMA EntryGuarded ==
  ASSUME TypeInv, Guarded, NEW i \in Procs, NEW label, NEW l, Goto(i, label, l),
         Entry(i, label, l)
  PROVE  Guarded'
<1>1. \A j \in Procs : /\ pc'[j] = IF j = i THEN label ELSE pc[j]
                       /\ loc'[j] = IF j = i THEN l ELSE loc[j]
  BY DEF Goto, TypeInv, ControlTyped
<1>2. WriteGuard \cap PartGuard = {}
  BY DEF WriteGuard, PartGuard
<1>3. ASSUME NEW j \in Procs, j # i
      PROVE  /\ label \in WriteGuard => pc[j] \notin WriteGuard \cup PartGuard
             /\ pc[j] \in WriteGuard => label \notin WriteGuard \cup PartGuard
             /\ label \in PartGuard /\ pc[j] \in PartGuard => l.key # loc[j].key
  BY <1>2, <1>3 DEF Entry, Guarded, ReadFree, WriteFree
<1> QED
  BY <1>1, <1>3 DEF Guarded

LEMMA StopGuarded ==
  ASSUME TypeInv, Guarded, NEW i \in Procs, Stop(i)
  PROVE  Guarded'
  BY EntryGuarded DEF Stop, Entry, WriteGuard, PartGuard

LEMMA GuardedStep ==
  ASSUME TypeInv, Guarded, [Next]_vars
  PROVE  Guarded'
<1>1. ASSUME UNCHANGED <<pc, loc>>  PROVE Guarded'
  BY <1>1 DEF Guarded
<1>2. ASSUME NEW i \in Clients, PutStep(i)  PROVE Guarded'
  <2>1. i \in Procs
    BY DEF Procs
  <2>2. CASE PutReply(i) \/ Stop(i)
    BY <2>1, <2>2, StopGuarded DEF PutReply
  <2>3. ASSUME NEW k \in Keys,
               RecordBegin(i, k) \/ \E c \in Contents : PutBegin(i, k, c)
        PROVE  Guarded'
    <3>1. ReadFree(k)
      BY <2>3 DEF RecordBegin, PutBegin
    <3>2. ASSUME NEW label, label \in PartGuard, NEW l, l.key = k, Goto(i, label, l)
          PROVE  Guarded'
      BY <2>1, <3>1, <3>2, EntryGuarded DEF Entry
    <3>3. CASE RecordBegin(i, k)
      <4> DEFINE l == [NoLoc EXCEPT !.key = k, !.version = obj[k], !.ack = AckOf(obj[k])]
      <4>1. l.key = k
        BY DEF NoLoc
      <4>2. Goto(i, "rec_ack", l)
        BY <3>3 DEF RecordBegin
      <4> HIDE DEF l
      <4> QED  BY <3>2, <4>1, <4>2 DEF PartGuard
    <3>4. ASSUME NEW c \in Contents, PutBegin(i, k, c)  PROVE Guarded'
      <4> DEFINE accept == [NoLoc EXCEPT !.key = k, !.version = [content |-> c, stamp |-> 0]]
                 write  == [NoLoc EXCEPT !.key = k,
                                         !.version = [content |-> c, stamp |-> clock + 1]]
      <4>1. accept.key = k /\ write.key = k
        BY DEF NoLoc
      <4>2. Goto(i, "put_accept", accept) \/ Goto(i, "put_rename", write)
        BY <3>4 DEF PutBegin
      <4> HIDE DEF accept, write
      <4> QED  BY <3>2, <4>1, <4>2 DEF PartGuard
    <3> QED  BY <2>3, <3>3, <3>4
  <2>4. CASE PutAccept(i) \/ PutRename(i) \/ PutSync(i)
    <3>1. \E label, l : /\ Goto(i, label, l) /\ label \in PartGuard
                       /\ pc[i] \in PartGuard /\ l.key = loc[i].key
      <4>1. loc[i] \in Locals
        BY <2>1 DEF TypeInv, ControlTyped
      <4> QED  BY <2>4, <4>1 DEF PutAccept, PutRename, PutSync, PartGuard, Locals
    <3> QED  BY <2>1, <3>1, EntryGuarded DEF Entry
  <2>5. CASE (PutAck(i) \/ RecordAck(i)) /\ ~Stop(i)
    <3>1. \E l : Goto(i, "put_reply", l)
      BY <2>5 DEF PutAck, RecordAck
    <3> QED  BY <2>1, <3>1, EntryGuarded DEF Entry, WriteGuard, PartGuard
  <2> QED  BY <1>2, <2>2, <2>3, <2>4, <2>5 DEF PutStep
<1>3. ASSUME NEW i \in Procs, FinishStep(i)  PROVE Guarded'
  <2>1. CASE FinishReply(i) \/ Stop(i)
    BY <2>1, StopGuarded DEF FinishReply
  <2>2. CASE ~(FinishReply(i) \/ Stop(i))
    <3>1. \E label, l : /\ Goto(i, label, l) /\ pc[i] \in WriteGuard
                       /\ label \in WriteGuard \cup {"fin_reply"}
      BY <1>3, <2>2
      DEF FinishStep, FinishFreeze, FinishReuse, FinishSync, FinishCheckParts, FinishRead,
          FinishRename, FinishSettle, FinishStage, FinishVerify, FinishCommit, FinishClean,
          FinishMark, WriteGuard
    <3> QED  BY <3>1, EntryGuarded DEF Entry, WriteGuard, PartGuard
  <2> QED  BY <2>1, <2>2
<1>4. ASSUME NEW i \in Procs,
             \/ \E explicit : FinishBegin(i, explicit)
             \/ \E expired_only : AbortBegin(i, expired_only)
             \/ i = Maintenance /\ SweepBegin
      PROVE  Guarded'
  <2>1. \E label, l : Goto(i, label, l) /\ label \in WriteGuard /\ WriteFree
    BY <1>4 DEF FinishBegin, AbortBegin, SweepBegin, WriteGuard
  <2> QED  BY <2>1, EntryGuarded DEF Entry
<1>5. ASSUME NEW i \in Procs,
             \/ AbortStep(i) \/ CleanupFails(i)
             \/ i = Maintenance /\ SweepTx
      PROVE  Guarded'
  <2>1. CASE Stop(i)
    BY <2>1, StopGuarded
  <2>2. CASE ~Stop(i)
    <3>1. \E label, l : /\ Goto(i, label, l) /\ pc[i] \in WriteGuard
                       /\ label \in WriteGuard \cup {"fin_reply", "abort_reply"}
      BY <1>5, <2>2
      DEF AbortStep, AbortTx, AbortParts, AbortBlob, AbortReply, CleanupFails, SweepTx,
          WriteGuard
    <3> QED  BY <3>1, EntryGuarded DEF Entry, WriteGuard, PartGuard
  <2> QED  BY <2>1, <2>2
<1>6. ASSUME NEW i \in Procs, AbortCompleted(i) \/ (i = Maintenance /\ SweepLoad)
      PROVE  Guarded'
  <2>1. \E label, l : Goto(i, label, l) /\ label \in {"abort_reply", "sweep_wait"}
    BY <1>6 DEF AbortCompleted, SweepLoad
  <2> QED  BY <2>1, EntryGuarded DEF Entry, WriteGuard, PartGuard
<1>7. ASSUME NEW i \in Procs, Interrupt(i) \/ Refuse(i)  PROVE Guarded'
  BY <1>7, StopGuarded DEF Interrupt, Refuse
<1>8. ASSUME NEW i \in Clients, ClientStep(i)  PROVE Guarded'
  BY <1>2, <1>4, <1>6, <1>8 DEF ClientStep, CompleteUpload, Procs
<1>9. ASSUME JobStep  PROVE Guarded'
  BY <1>4, <1>5, <1>6, <1>9 DEF JobStep, RecoverCommits, Procs
<1>10. CASE Crash \/ PowerLoss
  BY <1>10 DEF Crash, PowerLoss, Restart, Guarded, WriteGuard, PartGuard
<1>11. CASE \/ \E call \in late : Land(call)
            \/ DeletePending \/ ToggleTrash \/ Expire \/ UNCHANGED vars
  BY <1>1, <1>11 DEF Land, DeletePending, ToggleTrash, Expire, control, vars
<1> QED
  BY <1>3, <1>5, <1>7, <1>8, <1>9, <1>10, <1>11 DEF Next

-----------------------------------------------------------------------------
(* What is known stays true while the object stays in place.               *)

\* Once the object is staged, its tag and hash are not written again.
RowKept(r, s) ==
  r.commit_state = "staged" => s.commit_state = "staged" /\ s.ack[Blob] = r.ack[Blob]

\* The object stays, and its name may reach the disk.
BlobKept ==
  /\ mode' = mode /\ obj'[Blob] = obj[Blob] /\ upset \subseteq upset'
  /\ durable'[Blob] = durable[Blob] \/ durable'[Blob] = obj[Blob]

LEMMA DiskKept ==
  ASSUME BlobKept
  PROVE  /\ Disk' = Disk \/ Disk' = obj[Blob]
         /\ durable'[Blob] = obj[Blob] => Disk' = obj[Blob]
  BY DEF BlobKept, Disk

LEMMA KnowsKept ==
  ASSUME NEW label, NEW l, NEW m, NEW r, NEW s, NEW o, NEW d, NEW e,
         Knows(label, l, m, r, o, d), RowKept(r, s), e = d \/ e = o
  PROVE  Knows(label, l, m, s, o, e)
  BY DEF Knows, Sound, RowKept

\* An object appears where none was: whoever speaks of one was not there.
LEMMA KnowsMade ==
  ASSUME NEW label, NEW l, NEW m, NEW r, NEW o, NEW d, NEW e,
         Knows(label, l, m, r, Absent, d), label \notin {"fin_read", "fin_rename"},
         label # "put_rename" \/ l.key # Blob
  PROVE  Knows(label, l, m, r, o, e)
  BY DEF Knows, Sound

LEMMA RowSoundKept ==
  ASSUME NEW r, NEW o, NEW d, NEW e, RowSound(r, o, d), e = d \/ e = o
  PROVE  RowSound(r, o, e)
  BY DEF RowSound, Sound

LEMMA RowSoundMade ==
  ASSUME NEW r, NEW o, NEW d, NEW e, RowSound(r, Absent, d)
  PROVE  RowSound(r, o, e)
  BY DEF RowSound, Sound

\* A statement writes down what its request knew, also when it runs late.
LEMMA StatementKnown ==
  ASSUME row \in RowType, NEW op, NEW l \in Locals, NEW m, NEW o, NEW d,
         RowSound(row, o, d), Knows(op, l, m, row, o, d), row.status # "gone",
         RowAfter(op, l).status # "gone"
  PROVE  RowSound(RowAfter(op, l), o, d) /\ RowKept(row, RowAfter(op, l))
<1> DEFINE Fine(r) == RowSound(r, o, d) /\ RowKept(row, r)
<1>1. /\ l.key \in Keys /\ Blob \in Keys /\ Blob \notin Parts
      /\ DOMAIN row.ack = Keys /\ row.ack \in [Keys -> Ack]
  BY SessionAssumption DEF Locals, Keys, RowType
<1>2. CASE op = "put_ack"
  <2>1. CASE CanAck(row, l) /\ l.key = Blob
    <3>1. row.commit_state = "receiving" /\ row.status = "pending"
      BY <2>1 DEF CanAck, Receiving, Pending
    <3>2. /\ Acked(row, l).ack[Blob] = l.ack
          /\ Acked(row, l).commit_state = row.commit_state
          /\ Acked(row, l).status = row.status
      BY <1>1, <2>1 DEF Acked, RowType
    <3>3. Sound(l.ack, o, d)
      BY <1>2, <2>1 DEF Knows
    <3> QED  BY <1>2, <3>1, <3>2, <3>3 DEF RowSound, RowKept, RowAfter
  <2>2. CASE CanAck(row, l) /\ l.key # Blob
    <3>1. /\ Acked(row, l).ack[Blob] = row.ack[Blob]
          /\ Acked(row, l).commit_state = row.commit_state
          /\ Acked(row, l).status = row.status
          /\ Acked(row, l).published = row.published
      BY <1>1, <2>2 DEF Acked, RowType
    <3> QED  BY <1>2, <3>1 DEF RowSound, RowKept, RowAfter
  <2>3. CASE ~CanAck(row, l)
    BY <1>2, <2>3 DEF Acked, RowKept, RowAfter
  <2> QED  BY <2>1, <2>2, <2>3
<1>3. CASE op = "rec_ack"
  <2>1. l.key # Blob
    BY <1>1, <1>3 DEF Knows
  <2>2. /\ Recorded(row, l).ack[Blob] = row.ack[Blob]
        /\ Recorded(row, l).commit_state = row.commit_state
        /\ Recorded(row, l).status = row.status
        /\ Recorded(row, l).published = row.published
    BY <1>1, <2>1 DEF Recorded, RowType
  <2> QED  BY <1>3, <2>2 DEF RowSound, RowKept, RowAfter
<1>4. CASE op = "fin_freeze"
  <2>1. CASE Receiving(row)
    <3>1. /\ Frozen(row, l).ack[Blob] = row.ack[Blob]
          /\ Frozen(row, l).commit_state = "assembling"
          /\ Frozen(row, l).status = "pending"
      BY <1>1, <2>1 DEF Frozen, RowType, Receiving, Pending
    <3>2. row.commit_state = "receiving"
      BY <2>1 DEF Receiving
    <3> QED  BY <1>4, <3>1, <3>2 DEF RowSound, RowKept, RowAfter
  <2>2. CASE ~Receiving(row)
    BY <1>4, <2>2 DEF Frozen, RowKept, RowAfter
  <2> QED  BY <2>1, <2>2
<1>5. CASE op = "fin_stage"
  <2>1. CASE CanStage(row)
    <3>1. /\ Staged(row, l).ack[Blob] = l.ack
          /\ Staged(row, l).commit_state = "staged"
          /\ Staged(row, l).status = "pending"
      BY <1>1, <2>1 DEF Staged, RowType, CanStage, Pending
    <3>2. row.commit_state = "assembling" /\ Sound(l.ack, o, d)
      BY <1>5, <2>1 DEF CanStage, Knows
    <3> QED  BY <1>5, <3>1, <3>2 DEF RowSound, RowKept, RowAfter
  <2>2. CASE ~CanStage(row)
    BY <1>5, <2>2 DEF Staged, RowKept, RowAfter
  <2> QED  BY <2>1, <2>2
<1>6. CASE op = "fin_commit"
  <2>1. CASE CanCommit(row)
    <3>1. /\ Committed(row, l).ack = row.ack
          /\ Committed(row, l).commit_state = row.commit_state
          /\ Committed(row, l).published = l.ack
      BY <2>1 DEF Committed, RowType
    <3>2. row.commit_state = "staged" /\ l.ack = row.ack[Blob]
      BY <1>6 DEF Knows
    <3> QED  BY <1>6, <3>1, <3>2 DEF RowSound, RowKept, RowAfter
  <2>2. CASE ~CanCommit(row)
    BY <1>6, <2>2 DEF Committed, RowKept, RowAfter
  <2> QED  BY <2>1, <2>2
<1>7. CASE op = "fin_mark"
  <2>1. /\ Cleaned(row).ack = row.ack /\ Cleaned(row).commit_state = row.commit_state
        /\ Cleaned(row).status = row.status /\ Cleaned(row).published = row.published
    BY DEF Cleaned, RowType
  <2> QED  BY <1>7, <2>1 DEF RowSound, RowKept, RowAfter
<1>8. CASE op \in {"abort_tx", "reclaim_tx", "sweep_tx"}
  <2>1. Dropped(row).status = "gone"
    BY DEF Dropped, RowType
  <2>2. RowAfter(op, l) = row
    BY <1>8, <2>1 DEF RowAfter, Aborted, Swept
  <2> QED  BY <2>2 DEF RowKept
<1>9. CASE op \notin Statements
  BY <1>9 DEF RowAfter, Statements, RowKept
<1> QED
  BY <1>2, <1>3, <1>4, <1>5, <1>6, <1>7, <1>8, <1>9 DEF Statements

-----------------------------------------------------------------------------
(* Steps of a process.                                                     *)

KnowsNow(label, l) == Knows(label, l, mode, row, obj[Blob], Disk)
KnowsThen(label, l) == Knows(label, l, mode', row', obj'[Blob], Disk')

\* A PUT that leaves its directory alone has no need of it.
Released(i) ==
  pc[i] = "put_sync" /\ loc[i].key = Blob =>
    durable'[Blob] = obj[Blob] \/ obj[Blob] = Absent

LEMMA KeepKnowing ==
  ASSUME Knowing, BlobKept, RowKept(row, row'), RowSound(row', obj[Blob], Disk),
         \A j \in Procs : (pc'[j] = pc[j] /\ loc'[j] = loc[j]) \/ KnowsThen(pc'[j], loc'[j]),
         \A call \in late' : call \in late \/ \E j \in Procs : call = [op |-> pc[j], loc |-> loc[j]],
         BodySettled(mode', obj'[Blob], Disk', pc', loc')
  PROVE  Knowing'
<1>1. RowSound(row', obj'[Blob], Disk')
  BY RowSoundKept, DiskKept DEF BlobKept
<1>2. ASSUME NEW label, NEW l, KnowsNow(label, l)  PROVE KnowsThen(label, l)
  BY <1>2, KnowsKept, DiskKept DEF BlobKept, KnowsNow, KnowsThen
<1>3. ASSUME NEW j \in Procs  PROVE KnowsThen(pc'[j], loc'[j])
  <2>1. KnowsNow(pc[j], loc[j])
    BY DEF Knowing, KnowsNow
  <2>2. KnowsThen(pc[j], loc[j])
    BY <1>2, <2>1
  <2> QED  BY <2>2
<1>4. ASSUME NEW call \in late', call.op \in Statements
      PROVE  KnowsThen(call.op, call.loc)
  <2>1. CASE call \in late
    BY <1>2, <1>4, <2>1 DEF Knowing, KnowsNow
  <2>2. ASSUME NEW j \in Procs, call = [op |-> pc[j], loc |-> loc[j]]
        PROVE  KnowsThen(call.op, call.loc)
    BY <1>2, <2>2 DEF Knowing, KnowsNow
  <2> QED  BY <2>1, <2>2
<1> QED
  BY <1>1, <1>3, <1>4 DEF Knowing, KnowsThen

LEMMA GotoKnows ==
  ASSUME TypeInv, Knowing, NEW i \in Procs, NEW label, NEW l, Goto(i, label, l),
         late' = late, BlobKept, RowKept(row, row'),
         RowSound(row', obj[Blob], Disk), KnowsThen(label, l), Released(i)
  PROVE  Knowing'
<1>1. \A j \in Procs : /\ pc'[j] = IF j = i THEN label ELSE pc[j]
                       /\ loc'[j] = IF j = i THEN l ELSE loc[j]
  BY DEF Goto, TypeInv, ControlTyped
<1>2. \A j \in Procs : (pc'[j] = pc[j] /\ loc'[j] = loc[j]) \/ KnowsThen(pc'[j], loc'[j])
  BY <1>1
<1>3. BodySettled(mode', obj'[Blob], Disk', pc', loc')
  BY <1>1, DiskKept DEF Knowing, BodySettled, BlobKept, Released
<1> QED
  BY <1>2, <1>3, KeepKnowing

\* ... and the session stays as it is.
LEMMA GotoStill ==
  ASSUME TypeInv, Knowing, NEW i \in Procs, NEW label, NEW l, Goto(i, label, l),
         late' = late, BlobKept, row' = row, KnowsThen(label, l), Released(i)
  PROVE  Knowing'
<1>1. RowKept(row, row') /\ RowSound(row', obj[Blob], Disk)
  BY DEF RowKept, Knowing
<1> QED
  BY <1>1, GotoKnows

LEMMA StopStill ==
  ASSUME TypeInv, Knowing, NEW i \in Procs, Stop(i), late' = late, BlobKept, row' = row,
         Released(i)
  PROVE  Knowing'
<1>1. KnowsThen("idle", NoLoc)
  BY DEF KnowsThen, Knows
<1> QED
  BY <1>1, GotoStill DEF Stop

\* A process runs its statement and goes on, or finds that it came too late.
LEMMA StatementStep ==
  ASSUME TypeInv, Knowing, NEW i \in Procs, NEW op, op = pc[i], op # "put_sync",
         row' = RowAfter(op, loc[i]), row.status # "gone", row'.status # "gone",
         UNCHANGED <<mode, obj, durable, late, upset>>,
         NEW label, Goto(i, label, loc[i]) \/ Stop(i),
         Goto(i, label, loc[i]) => KnowsThen(label, loc[i])
  PROVE  Knowing'
<1>1. loc[i] \in Locals /\ row \in RowType
  BY DEF TypeInv, ControlTyped
<1>2. Knows(op, loc[i], mode, row, obj[Blob], Disk)
  BY DEF Knowing
<1>3. RowSound(row, obj[Blob], Disk)
  BY DEF Knowing
<1>4. RowSound(row', obj[Blob], Disk) /\ RowKept(row, row')
  BY <1>1, <1>2, <1>3, StatementKnown
<1>5. BlobKept /\ Released(i)
  BY DEF BlobKept, Released
<1>6. KnowsThen("idle", NoLoc)
  BY DEF KnowsThen, Knows
<1> QED
  BY <1>4, <1>5, <1>6, GotoKnows DEF Stop

\* The one process that may puts an object where none was.
LEMMA MadeKnows ==
  ASSUME TypeInv, Guarded, Knowing, NEW i \in Procs, NEW label, Goto(i, label, loc[i]),
         obj[Blob] = Absent, obj'[Blob] = loc[i].version,
         UNCHANGED <<mode, row, durable, late, upset>>, KnowsThen(label, loc[i]),
         \/ /\ pc[i] = "put_rename" /\ loc[i].key = Blob /\ label = "put_sync"
            /\ loc[i].version.content \in Contents
         \/ pc[i] = "fin_rename"
  PROVE  Knowing'
<1>1. \A j \in Procs : /\ pc'[j] = IF j = i THEN label ELSE pc[j]
                       /\ loc'[j] = IF j = i THEN loc[i] ELSE loc[j]
  BY DEF Goto, TypeInv, ControlTyped
<1>2. RowSound(row', obj'[Blob], Disk')
  BY RowSoundMade DEF Knowing
<1>3. ASSUME NEW lab, NEW l, KnowsNow(lab, l), lab \notin {"fin_read", "fin_rename"},
             lab # "put_rename" \/ l.key # Blob
      PROVE  KnowsThen(lab, l)
  BY <1>3, KnowsMade DEF KnowsNow, KnowsThen
<1>4. KnowsNow(pc[i], loc[i])
  BY DEF Knowing, KnowsNow
<1>5. ASSUME NEW j \in Procs, j # i
      PROVE  pc[j] \notin {"fin_read", "fin_rename"} /\ (pc[j] # "put_rename" \/ loc[j].key # Blob)
  <2>1. KnowsNow(pc[j], loc[j])
    BY DEF Knowing, KnowsNow
  <2> QED  BY <1>4, <1>5, <2>1 DEF KnowsNow, Knows, Guarded, WriteGuard, PartGuard
<1>6. ASSUME NEW j \in Procs  PROVE KnowsThen(pc'[j], loc'[j])
  <2>1. CASE j = i
    BY <1>1, <2>1
  <2>2. CASE j # i
    <3>1. KnowsNow(pc[j], loc[j])
      BY DEF Knowing, KnowsNow
    <3>2. KnowsThen(pc[j], loc[j])
      BY <1>3, <1>5, <2>2, <3>1
    <3> QED  BY <1>1, <2>2, <3>2
  <2> QED  BY <2>1, <2>2
<1>7. ASSUME NEW call \in late, call.op \in Statements
      PROVE  KnowsThen(call.op, call.loc)
  BY <1>3, <1>7 DEF Knowing, KnowsNow, Statements
<1>8. BodySettled(mode', obj'[Blob], Disk', pc', loc')
  <2>1. Disk' \in {Disk, obj'[Blob]}
    BY DEF Disk
  <2>2. mode = "single" => Body(obj'[Blob])
    BY <1>4 DEF Body, KnowsNow, Knows
  <2>3. mode = "single" => \E j \in Procs : pc'[j] = "put_sync" /\ loc'[j].key = Blob
    BY <1>1, <1>4 DEF KnowsNow, Knows
  <2> QED  BY <2>1, <2>2, <2>3 DEF Knowing, BodySettled
<1> QED
  BY <1>2, <1>6, <1>7, <1>8 DEF Knowing, KnowsThen

LEMMA BlobApart == Blob \in Keys /\ Blob \notin Parts
  BY SessionAssumption DEF Keys

LEMMA PutBeginKnows ==
  ASSUME TypeInv, Knowing, NEW i \in Clients, NEW k \in Keys, NEW c \in Contents,
         PutBegin(i, k, c)
  PROVE  Knowing'
<1> DEFINE accept == [NoLoc EXCEPT !.key = k, !.version = [content |-> c, stamp |-> 0]]
           write  == [NoLoc EXCEPT !.key = k, !.version = [content |-> c, stamp |-> clock + 1]]
<1>1. i \in Procs /\ pc[i] = "idle" /\ ReadFree(k) /\ KnownHash(k) \in {None, c}
  BY DEF PutBegin, Procs
<1>2. /\ accept.key = k /\ accept.version.content = c
      /\ write.key = k /\ write.version = [content |-> c, stamp |-> clock + 1]
  BY DEF NoLoc
<1>3. \/ KnownHash(k) = c /\ Goto(i, "put_accept", accept)
      \/ KnownHash(k) # c /\ Goto(i, "put_rename", write)
  BY DEF PutBegin
<1>4. BlobKept /\ late' = late /\ row' = row /\ Released(i)
  BY <1>1 DEF PutBegin, BlobKept, Released, session, store, history
<1>5. k = Blob => mode = "single"
  BY BlobApart DEF PutBegin, WriteKeys
<1>6. obj[Blob] \in Version /\ None \notin Contents
  BY BlobApart, SessionAssumption DEF TypeInv, StoreTyped
<1>7. k = Blob => obj[Blob] = Absent \/ (obj[Blob].content \in Contents /\ Disk = obj[Blob])
  <2>1. k = Blob => ~\E j \in Procs : pc[j] = "put_sync" /\ loc[j].key = Blob
    BY <1>1 DEF ReadFree, PartGuard
  <2> QED  BY <1>5, <2>1 DEF Knowing, BodySettled, Body
<1>8. Absent.content = None /\ NoAck.hash = None
  BY DEF Absent, NoAck
<1> HIDE DEF accept, write
<1>9. CASE KnownHash(k) = c
  <2>1. CASE k = Blob
    <3>1. obj[Blob] # Absent /\ obj[Blob].content = c
      <4>1. CASE row.ack[Blob].hash = None
        BY <1>6, <1>8, <1>9, <2>1, <4>1 DEF KnownHash
      <4>2. CASE row.ack[Blob].hash # None
        <5>1. Sound(row.ack[Blob], obj[Blob], Disk) /\ row.ack[Blob].hash = c
          BY <1>8, <1>9, <2>1, <4>2 DEF KnownHash, Knowing, RowSound
        <5>2. AckOf(obj[Blob]).hash = obj[Blob].content
          BY DEF AckOf
        <5> QED  BY <5>1, <5>2 DEF Sound
      <4> QED  BY <4>1, <4>2
    <3>2. Sound([etag |-> obj[Blob].stamp, hash |-> c], obj[Blob], Disk)
      BY <1>7, <2>1, <3>1 DEF Sound, AckOf
    <3>3. KnowsThen("put_accept", accept)
      BY <1>2, <1>4, <3>2, DiskKept DEF KnowsThen, Knows, BlobKept, Sound
    <3> QED  BY <1>1, <1>3, <1>4, <1>9, <3>3, GotoStill
  <2>2. CASE k # Blob
    <3>1. KnowsThen("put_accept", accept)
      BY <1>2, <2>2 DEF KnowsThen, Knows
    <3> QED  BY <1>1, <1>3, <1>4, <1>9, <3>1, GotoStill
  <2> QED  BY <2>1, <2>2
<1>10. CASE KnownHash(k) # c
  <2>1. write.version # Absent /\ write.version.content \in Contents
    <3>1. [content |-> c, stamp |-> clock + 1].stamp = clock + 1 /\ Absent.stamp = 0
      BY DEF Absent
    <3>2. clock + 1 # 0
      BY DEF TypeInv, SmallTyped
    <3>3. [content |-> c, stamp |-> clock + 1].content = c
      OBVIOUS
    <3> QED  BY <1>2, <3>1, <3>2, <3>3
  <2>2. k = Blob => obj[Blob] = Absent
    BY <1>1, <1>6, <1>7, <1>10 DEF KnownHash, Knowing, RowSound, Sound, AckOf
  <2>3. KnowsThen("put_rename", write)
    BY <1>2, <1>4, <1>5, <2>1, <2>2 DEF KnowsThen, Knows, BlobKept
  <2> QED  BY <1>1, <1>3, <1>4, <1>10, <2>3, GotoStill
<1> QED
  BY <1>9, <1>10

LEMMA PutKnows ==
  ASSUME TypeInv, Guarded, Knowing, NEW i \in Clients, PutStep(i),
         row.status # "gone", row'.status # "gone"
  PROVE  Knowing'
<1>1. i \in Procs /\ loc[i] \in Locals /\ loc[i].key \in Keys
  BY DEF Procs, TypeInv, ControlTyped, Locals
<1>2. KnowsNow(pc[i], loc[i])
  BY <1>1 DEF Knowing, KnowsNow
<1>3. ASSUME NEW k \in Keys, RecordBegin(i, k)  PROVE Knowing'
  <2> DEFINE l == [NoLoc EXCEPT !.key = k, !.version = obj[k], !.ack = AckOf(obj[k])]
  <2>1. l.key = k
    BY DEF NoLoc
  <2>2. Goto(i, "rec_ack", l) /\ k \in Parts
    BY <1>3 DEF RecordBegin
  <2>3. BlobKept /\ late' = late /\ row' = row /\ Released(i)
    BY <1>3 DEF RecordBegin, BlobKept, Released, session, store, history
  <2> HIDE DEF l
  <2>4. KnowsThen("rec_ack", l)
    BY <2>1, <2>2 DEF KnowsThen, Knows
  <2> QED  BY <1>1, <2>2, <2>3, <2>4, GotoStill
<1>4. CASE PutAccept(i)
  <2> DEFINE l == [loc[i] EXCEPT !.ack = [etag |-> obj[loc[i].key].stamp,
                                          hash |-> loc[i].version.content]]
  <2>1. /\ l.key = loc[i].key
        /\ l.ack = [etag |-> obj[loc[i].key].stamp, hash |-> loc[i].version.content]
    BY <1>1 DEF Locals
  <2>2. Goto(i, "put_ack", l) /\ pc[i] = "put_accept"
    BY <1>4 DEF PutAccept
  <2>3. BlobKept /\ late' = late /\ row' = row /\ Released(i)
    BY <1>4 DEF PutAccept, BlobKept, Released, session, store, history
  <2>4. obj' = obj /\ Disk' = Disk
    BY <1>4 DEF PutAccept, Disk, session, store, history
  <2> HIDE DEF l
  <2>5. KnowsThen("put_ack", l)
    BY <1>2, <2>1, <2>2, <2>4 DEF KnowsThen, KnowsNow, Knows
  <2> QED  BY <1>1, <2>2, <2>3, <2>5, GotoStill
<1>5. CASE PutRename(i)
  <2>1. /\ pc[i] = "put_rename" /\ Goto(i, "put_sync", loc[i])
        /\ obj' = [obj EXCEPT ![loc[i].key] = loc[i].version]
        /\ UNCHANGED <<mode, row, durable, late, upset>>
    BY <1>5 DEF PutRename, session, history
  <2>2. obj \in [Keys -> Version]
    BY DEF TypeInv, StoreTyped
  <2>3. CASE loc[i].key = Blob
    <3>1. /\ obj[Blob] = Absent /\ obj'[Blob] = loc[i].version
          /\ loc[i].version # Absent /\ loc[i].version.content \in Contents
      BY <1>2, <2>1, <2>2, <2>3, BlobApart DEF KnowsNow, Knows
    <3>2. KnowsThen("put_sync", loc[i])
      BY <3>1 DEF KnowsThen, Knows
    <3> QED  BY <1>1, <2>1, <2>3, <3>1, <3>2, MadeKnows
  <2>4. CASE loc[i].key # Blob
    <3>1. BlobKept /\ Released(i)
      BY <2>1, <2>2, <2>4, BlobApart DEF BlobKept, Released
    <3>2. KnowsThen("put_sync", loc[i])
      BY <2>4 DEF KnowsThen, Knows
    <3> QED  BY <1>1, <2>1, <3>1, <3>2, GotoStill
  <2> QED  BY <2>3, <2>4
<1>6. CASE PutSync(i)
  <2> DEFINE l == [loc[i] EXCEPT !.ack = [etag |-> obj[loc[i].key].stamp,
                                          hash |-> loc[i].version.content]]
  <2>1. /\ l.key = loc[i].key
        /\ l.ack = [etag |-> obj[loc[i].key].stamp, hash |-> loc[i].version.content]
    BY <1>1 DEF Locals
  <2>2. Goto(i, "put_ack", l) /\ pc[i] = "put_sync" /\ SyncDirectory(loc[i].key)
    BY <1>6 DEF PutSync
  <2>3. UNCHANGED <<mode, row, obj, late, upset>>
    BY <1>6 DEF PutSync, session, history
  <2>4. durable'[Blob] = IF loc[i].key = Blob THEN obj[Blob] ELSE durable[Blob]
    BY <1>1, <2>2, BlobApart DEF SyncDirectory, Siblings
  <2>5. BlobKept /\ Released(i)
    BY <2>3, <2>4 DEF BlobKept, Released
  <2> HIDE DEF l
  <2>6. KnowsThen("put_ack", l)
    <3>1. loc[i].key = Blob => obj[Blob] # Absent /\ loc[i].version = obj[Blob]
      BY <1>2, <2>2 DEF KnowsNow, Knows
    <3>2. loc[i].key = Blob => Sound(l.ack, obj'[Blob], Disk')
      BY <2>1, <2>3, <2>4, <2>5, <3>1, DiskKept DEF Sound, AckOf
    <3> QED  BY <2>1, <3>2 DEF KnowsThen, Knows
  <2> QED  BY <1>1, <2>2, <2>3, <2>5, <2>6, GotoStill
<1>7. CASE PutAck(i) \/ RecordAck(i)
  <2>1. PICK op : op = pc[i]
    OBVIOUS
  <2>2. /\ op \in {"put_ack", "rec_ack"} /\ row' = RowAfter(op, loc[i])
        /\ UNCHANGED <<mode, obj, durable, late, upset>>
        /\ Goto(i, "put_reply", loc[i]) \/ Stop(i)
    BY <1>7, <2>1 DEF PutAck, RecordAck, store, history
  <2>3. KnowsThen("put_reply", loc[i])
    BY DEF KnowsThen, Knows
  <2> QED  BY <1>1, <2>1, <2>2, <2>3, StatementStep
<1>8. CASE PutReply(i)
  <2>1. Stop(i) /\ late' = late /\ row' = row /\ BlobKept /\ Released(i)
    BY <1>8 DEF PutReply, BlobKept, Released, session, store, history
  <2> QED  BY <1>1, <2>1, StopStill
<1> QED
  BY <1>3, <1>4, <1>5, <1>6, <1>7, <1>8, PutBeginKnows DEF PutStep

LEMMA FinishBeginKnows ==
  ASSUME TypeInv, Knowing, NEW i \in Procs, NEW explicit, FinishBegin(i, explicit)
  PROVE  Knowing'
<1> DEFINE record == [NoLoc EXCEPT !.ack = row.ack[Blob]]
           listed == [record EXCEPT !.list = [p \in Parts |-> obj[p].stamp]]
<1>1. record.ack = row.ack[Blob] /\ listed.ack = row.ack[Blob]
  BY DEF NoLoc
<1>2. \/ Goto(i, "fin_clean", record)
      \/ Goto(i, "fin_freeze", listed)
      \/ Goto(i, "fin_freeze", record)
      \/ Goto(i, "fin_head", record)
      \/ Goto(i, "fin_verify", record) /\ row.commit_state = "staged"
  BY DEF FinishBegin
<1>3. BlobKept /\ late' = late /\ row' = row /\ Released(i) /\ UNCHANGED <<obj, durable, upset>>
  BY DEF FinishBegin, BlobKept, Released, session, store, history
<1>0. Disk' = Disk
  BY <1>3 DEF BlobKept, Disk
<1>4. row.ack[Blob] = NoAck \/ Sound(row.ack[Blob], obj[Blob], Disk)
  BY DEF Knowing, RowSound
<1> HIDE DEF record, listed
<1>5. /\ KnowsThen("fin_clean", record)
      /\ KnowsThen("fin_freeze", listed) /\ KnowsThen("fin_freeze", record)
      /\ KnowsThen("fin_head", record)
      /\ row.commit_state = "staged" => KnowsThen("fin_verify", record)
  BY <1>0, <1>1, <1>3, <1>4 DEF KnowsThen, Knows
<1> QED
  BY <1>2, <1>3, <1>5, GotoStill

LEMMA FinishKnows ==
  ASSUME TypeInv, Guarded, Knowing, NEW i \in Procs, FinishStep(i),
         row.status # "gone", row'.status # "gone"
  PROVE  Knowing'
<1>1. loc[i] \in Locals /\ loc[i].key \in Keys /\ obj[Blob] \in Version
  BY BlobApart DEF TypeInv, ControlTyped, StoreTyped, Locals
<1>2. KnowsNow(pc[i], loc[i])
  BY DEF Knowing, KnowsNow
<1>3. CASE FinishFreeze(i) \/ FinishCommit(i) \/ FinishMark(i) \/ FinishStage(i)
  <2>1. PICK op : op = pc[i]
    OBVIOUS
  <2>2. /\ op \in {"fin_freeze", "fin_commit", "fin_mark", "fin_stage"}
        /\ row' = RowAfter(op, loc[i]) /\ UNCHANGED <<mode, obj, durable, late, upset>>
    BY <1>3, <2>1 DEF FinishFreeze, FinishCommit, FinishMark, FinishStage, store, history
  <2>3. ASSUME NEW label, Goto(i, label, loc[i]) \/ Stop(i),
               Goto(i, label, loc[i]) => KnowsThen(label, loc[i])
        PROVE  Knowing'
    BY <2>1, <2>2, <2>3, StatementStep
  <2>4. CASE FinishFreeze(i)
    <3>1. KnowsThen("fin_head", loc[i])
      BY <1>2, <2>2, <2>4 DEF FinishFreeze, KnowsNow, KnowsThen, Knows, Disk
    <3> QED  BY <2>3, <2>4, <3>1 DEF FinishFreeze
  <2>5. CASE FinishCommit(i) \/ FinishMark(i)
    <3>1. KnowsThen("fin_clean", loc[i]) /\ KnowsThen("fin_reply", loc[i])
      BY DEF KnowsThen, Knows
    <3> QED  BY <2>3, <2>5, <3>1 DEF FinishCommit, FinishMark
  <2>6. CASE FinishStage(i)
    <3>1. CASE CanStage(row)
      <4>1. row'.commit_state = "staged" /\ row'.ack[Blob] = loc[i].ack
        <5>1. row' = Staged(row, loc[i])
          BY <2>6 DEF FinishStage, RowAfter
        <5> QED  BY <3>1, <5>1, BlobApart DEF Staged, TypeInv, RowType
      <4>2. KnowsThen("fin_verify", loc[i])
        BY <4>1 DEF KnowsThen, Knows
      <4> QED  BY <2>3, <2>6, <3>1, <4>2 DEF FinishStage
    <3>2. CASE ~CanStage(row)
      <4>1. Stop(i)
        BY <2>6, <3>2 DEF FinishStage
      <4>2. KnowsThen("idle", loc[i])
        BY DEF KnowsThen, Knows
      <4> QED  BY <2>3, <4>1, <4>2
    <3> QED  BY <3>1, <3>2
  <2> QED  BY <1>3, <2>4, <2>5, <2>6
<1>4. CASE FinishReuse(i)
  <2> DEFINE l == [loc[i] EXCEPT !.ack = AckOf(obj[Blob])]
  <2>1. l.ack = AckOf(obj[Blob])
    BY <1>1 DEF Locals
  <2>2. /\ obj[Blob] # Absent
        /\ pc[i] = "fin_head" /\ UNCHANGED <<mode, row, obj, durable, late, upset>>
        /\ \/ Goto(i, "fin_stage", loc[i]) /\ loc[i].ack.hash # None
           \/ Goto(i, "fin_sync", l)
    BY <1>4 DEF FinishReuse, Stored, session, store, history
  <2>3. BlobKept /\ Released(i)
    BY <2>2 DEF BlobKept, Released
  <2> HIDE DEF l
  <2>4. KnowsThen("fin_sync", l)
    BY <2>1, <2>2 DEF KnowsThen, Knows
  <2>5. loc[i].ack.hash # None => KnowsThen("fin_stage", loc[i])
    <3>1. loc[i].ack = NoAck \/ Sound(loc[i].ack, obj[Blob], Disk)
      BY <1>2, <2>2 DEF KnowsNow, Knows
    <3>2. NoAck.hash = None
      BY DEF NoAck
    <3>3. Disk' = Disk
      BY <2>2 DEF Disk
    <3> QED  BY <2>2, <3>1, <3>2, <3>3 DEF KnowsThen, Knows
  <2> QED  BY <2>2, <2>3, <2>4, <2>5, GotoStill
<1>5. CASE FinishSync(i)
  <2>1. /\ pc[i] = "fin_sync" /\ SyncDirectory(Blob)
        /\ Goto(i, "fin_stage", loc[i]) /\ UNCHANGED <<mode, row, obj, late, upset>>
    BY <1>5 DEF FinishSync, session, history
  <2>2. durable'[Blob] = obj[Blob]
    BY <2>1, BlobApart DEF SyncDirectory, Siblings
  <2>3. BlobKept /\ Released(i)
    BY <2>1, <2>2 DEF BlobKept, Released
  <2>4. KnowsThen("fin_stage", loc[i])
    BY <1>2, <2>1, <2>2, <2>3, DiskKept DEF KnowsNow, KnowsThen, Knows, Sound
  <2> QED  BY <2>1, <2>3, <2>4, GotoStill
<1>6. CASE FinishCheckParts(i)
  <2>1. /\ pc[i] = "fin_head" /\ obj[Blob] = Absent /\ mode = "multipart"
        /\ Goto(i, "fin_read", loc[i]) /\ UNCHANGED <<mode, row, obj, durable, late, upset>>
    BY <1>6 DEF FinishCheckParts, Stored, session, store, history
  <2>2. BlobKept /\ Released(i) /\ KnowsThen("fin_read", loc[i])
    BY <2>1 DEF BlobKept, Released, KnowsThen, Knows
  <2> QED  BY <2>1, <2>2, GotoStill
<1>7. CASE FinishRead(i)
  <2> DEFINE v == [content |-> [p \in Parts |-> obj[p].content], stamp |-> clock + 1]
             l == [loc[i] EXCEPT !.key = Blob, !.version = v]
  <2>1. l.version = v
    BY <1>1 DEF Locals
  <2>2. v # Absent
    <3>1. v.stamp = clock + 1 /\ Absent.stamp = 0
      BY DEF Absent
    <3>2. clock + 1 # 0
      BY DEF TypeInv, SmallTyped
    <3> QED  BY <3>1, <3>2
  <2>3. /\ pc[i] = "fin_read" /\ Goto(i, "fin_rename", l)
        /\ UNCHANGED <<mode, row, obj, durable, late, upset>>
    BY <1>7 DEF FinishRead, session, store, history
  <2>4. BlobKept /\ Released(i)
    BY <2>3 DEF BlobKept, Released
  <2> HIDE DEF l, v
  <2>5. KnowsThen("fin_rename", l)
    BY <1>2, <2>1, <2>2, <2>3 DEF KnowsNow, KnowsThen, Knows
  <2> QED  BY <2>3, <2>4, <2>5, GotoStill
<1>8. CASE FinishRename(i)
  <2>1. /\ pc[i] = "fin_rename" /\ Goto(i, "fin_settle", loc[i])
        /\ obj' = [obj EXCEPT ![Blob] = loc[i].version]
        /\ UNCHANGED <<mode, row, durable, late, upset>>
    BY <1>8 DEF FinishRename, session, history
  <2>2. obj[Blob] = Absent /\ loc[i].version # Absent
    BY <1>2, <2>1 DEF KnowsNow, Knows
  <2>3. obj'[Blob] = loc[i].version
    BY <2>1, BlobApart DEF TypeInv, StoreTyped
  <2>4. KnowsThen("fin_settle", loc[i])
    BY <2>2, <2>3 DEF KnowsThen, Knows
  <2> QED  BY <2>1, <2>2, <2>3, <2>4, MadeKnows
<1>9. CASE FinishSettle(i)
  <2> DEFINE l == [loc[i] EXCEPT !.ack = [etag |-> obj[Blob].stamp,
                                          hash |-> loc[i].version.content]]
  <2>1. l.ack = [etag |-> obj[Blob].stamp, hash |-> loc[i].version.content]
    BY <1>1 DEF Locals
  <2>2. /\ pc[i] = "fin_settle" /\ SyncDirectory(Blob)
        /\ Goto(i, "fin_stage", l) /\ UNCHANGED <<mode, row, obj, late, upset>>
    BY <1>9 DEF FinishSettle, session, history
  <2>3. durable'[Blob] = obj[Blob]
    BY <2>2, BlobApart DEF SyncDirectory, Siblings
  <2>4. BlobKept /\ Released(i)
    BY <2>2, <2>3 DEF BlobKept, Released
  <2>5. obj[Blob] # Absent /\ loc[i].version = obj[Blob]
    BY <1>2, <2>2 DEF KnowsNow, Knows
  <2> HIDE DEF l
  <2>6. KnowsThen("fin_stage", l)
    BY <2>1, <2>2, <2>3, <2>4, <2>5, DiskKept DEF KnowsThen, Knows, Sound, AckOf
  <2> QED  BY <2>2, <2>4, <2>6, GotoStill
<1>10. CASE FinishVerify(i)
  <2>1. /\ pc[i] = "fin_verify" /\ Goto(i, "fin_commit", loc[i])
        /\ UNCHANGED <<mode, row, obj, durable, late, upset>>
    BY <1>10 DEF FinishVerify, session, store, history
  <2>2. BlobKept /\ Released(i) /\ KnowsThen("fin_commit", loc[i])
    BY <1>2, <2>1 DEF BlobKept, Released, KnowsNow, KnowsThen, Knows
  <2> QED  BY <2>1, <2>2, GotoStill
<1>11. CASE FinishClean(i)
  <2>1. /\ pc[i] = "fin_clean" /\ Goto(i, "fin_mark", loc[i]) /\ RemoveParts({})
        /\ UNCHANGED <<mode, row, durable, late, upset>>
    BY <1>11 DEF FinishClean, session, history
  <2>2. BlobKept /\ Released(i) /\ KnowsThen("fin_mark", loc[i])
    BY <2>1, BlobApart DEF BlobKept, Released, KnowsThen, Knows, RemoveParts
  <2> QED  BY <2>1, <2>2, GotoStill
<1>12. CASE FinishReply(i)
  <2>1. Stop(i) /\ late' = late /\ row' = row /\ BlobKept /\ Released(i)
    BY <1>12 DEF FinishReply, BlobKept, Released, session, store, history
  <2> QED  BY <2>1, StopStill
<1> QED
  BY <1>3, <1>4, <1>5, <1>6, <1>7, <1>8, <1>9, <1>10, <1>11, <1>12 DEF FinishStep

\* While the session is there nobody removes its files.
LEMMA AbortKnows ==
  ASSUME TypeInv, Knowing, NEW i \in Procs,
         \/ AbortStep(i) \/ AbortCompleted(i)
         \/ \E expired_only : AbortBegin(i, expired_only)
         \/ i = Maintenance /\ (SweepLoad \/ SweepBegin \/ SweepTx),
         row'.status # "gone"
  PROVE  Knowing'
<1>1. KnowsNow(pc[i], loc[i])
  BY DEF Knowing, KnowsNow
<1>2. Dropped(row).status = "gone"
  BY DEF Dropped, TypeInv, RowType
<1>3. CASE AbortTx(i) \/ (i = Maintenance /\ SweepTx)
  <2>1. PICK op : op = pc[i]
    OBVIOUS
  <2>2. /\ op \in {"abort_tx", "reclaim_tx", "sweep_tx"} /\ row' = RowAfter(op, loc[i])
        /\ UNCHANGED <<mode, obj, durable, late, upset>>
        /\ (IF op = "sweep_tx" THEN CanSweep(row) ELSE CanAbort(row)) \/ Stop(i)
    BY <1>3, <2>1 DEF AbortTx, SweepTx, store, history
  <2>3. row' = row
    BY <1>2, <2>2 DEF RowAfter, Aborted, Swept
  <2>4. Stop(i)
    BY <1>2, <2>2 DEF RowAfter, Aborted, Swept
  <2>5. BlobKept /\ Released(i)
    BY <2>1, <2>2 DEF BlobKept, Released
  <2> QED  BY <2>2, <2>3, <2>4, <2>5, StopStill
<1>4. CASE AbortParts(i) \/ AbortBlob(i)
  BY <1>1, <1>4 DEF AbortParts, AbortBlob, KnowsNow, Knows
<1>5. CASE AbortReply(i)
  <2>1. Stop(i) /\ late' = late /\ row' = row /\ BlobKept /\ Released(i)
    BY <1>5 DEF AbortReply, BlobKept, Released, session, store, history
  <2> QED  BY <2>1, StopStill
<1>6. CASE \/ AbortCompleted(i) \/ \E expired_only : AbortBegin(i, expired_only)
           \/ i = Maintenance /\ (SweepLoad \/ SweepBegin)
  <2>1. PICK label \in {"reclaim_tx", "abort_tx", "abort_reply", "sweep_wait", "sweep_tx"} :
          Goto(i, label, NoLoc)
    BY <1>6 DEF AbortCompleted, AbortBegin, SweepLoad, SweepBegin
  <2>2. BlobKept /\ late' = late /\ row' = row /\ Released(i)
    BY <1>6
    DEF AbortCompleted, AbortBegin, SweepLoad, SweepBegin, BlobKept, Released, session, store, history
  <2>3. KnowsThen(label, NoLoc)
    BY <2>1 DEF KnowsThen, Knows
  <2> QED  BY <2>1, <2>2, <2>3, GotoStill
<1> QED
  BY <1>3, <1>4, <1>5, <1>6 DEF AbortStep

-----------------------------------------------------------------------------
(* What happens around the session.                                        *)

LEMMA CleanupFailsKnows ==
  ASSUME TypeInv, Knowing, NEW i \in Procs, CleanupFails(i)
  PROVE  Knowing'
<1>1. KnowsNow(pc[i], loc[i])
  BY DEF Knowing, KnowsNow
<1>2. pc[i] = "fin_clean" /\ Goto(i, "fin_reply", loc[i])
  BY <1>1 DEF CleanupFails, KnowsNow, Knows
<1>3. UNCHANGED <<mode, row, durable, late, upset>> /\ \E kept : RemoveParts(kept)
  BY DEF CleanupFails, session, history
<1>4. BlobKept /\ Released(i) /\ KnowsThen("fin_reply", loc[i])
  BY <1>2, <1>3, BlobApart DEF BlobKept, Released, RemoveParts, KnowsThen, Knows
<1> QED
  BY <1>2, <1>3, <1>4, GotoStill

LEMMA InterruptKnows ==
  ASSUME TypeInv, Knowing, NEW i \in Procs, Interrupt(i), Calm'
  PROVE  Knowing'
<1>1. \A j \in Procs : /\ pc'[j] = IF j = i THEN "idle" ELSE pc[j]
                       /\ loc'[j] = IF j = i THEN NoLoc ELSE loc[j]
  BY DEF Interrupt, Stop, Goto, TypeInv, ControlTyped
<1>2. UNCHANGED <<mode, row, obj, durable>> /\ upset \subseteq upset'
  BY DEF Interrupt, session, store
<1>3. KnowsThen("idle", NoLoc)
  BY DEF KnowsThen, Knows
<1>4. \A j \in Procs : (pc'[j] = pc[j] /\ loc'[j] = loc[j]) \/ KnowsThen(pc'[j], loc'[j])
  BY <1>1, <1>3
<1>5. \A call \in late' : call \in late \/ \E j \in Procs : call = [op |-> pc[j], loc |-> loc[j]]
  BY DEF Interrupt
<1>6. mode = "single" => pc[i] # "put_sync" \/ Disk' = obj[Blob]
  BY <1>2 DEF Interrupt, Disk
<1>8. BlobKept /\ RowKept(row, row') /\ RowSound(row', obj[Blob], Disk)
  BY <1>2 DEF BlobKept, RowKept, Knowing
<1>7. BodySettled(mode', obj'[Blob], Disk', pc', loc')
  BY <1>1, <1>2, <1>6, <1>8, DiskKept DEF Knowing, BodySettled
<1> QED
  BY <1>4, <1>5, <1>7, <1>8, KeepKnowing

LEMMA RefuseKnows ==
  ASSUME TypeInv, Knowing, NEW i \in Procs, Refuse(i)
  PROVE  Knowing'
<1>1. Stop(i) /\ late' = late /\ row' = row /\ BlobKept
  BY DEF Refuse, BlobKept, session, store, history
<1>2. Released(i)
  BY DEF Refuse, Released, Stored
<1> QED
  BY <1>1, <1>2, StopStill

LEMMA LandKnows ==
  ASSUME TypeInv, Knowing, NEW call \in late, Land(call), Calm',
         row.status # "gone", row'.status # "gone"
  PROVE  Knowing'
<1>1. call.op \in Statements /\ call.loc \in Locals /\ row \in RowType
  BY DEF TypeInv, LateTyped, Land, Calm
<1>2. call.op \notin Renames
  BY DEF Land, Calm
<1>3. /\ UNCHANGED <<mode, obj, durable, pc, loc, upset>> /\ late' \subseteq late
      /\ row' = RowAfter(call.op, call.loc)
  BY <1>2 DEF Land, control
<1>4. PICK op, l : op = call.op /\ l = call.loc
  OBVIOUS
<1>5. /\ Knows(op, l, mode, row, obj[Blob], Disk)
      /\ RowSound(row, obj[Blob], Disk)
  BY <1>1, <1>4 DEF Knowing
<1>6. RowSound(row', obj[Blob], Disk) /\ RowKept(row, row')
  BY <1>1, <1>3, <1>4, <1>5, StatementKnown
<1>7. BlobKept /\ BodySettled(mode', obj'[Blob], Disk', pc', loc')
  BY <1>3 DEF BlobKept, Knowing, Disk
<1> QED
  BY <1>3, <1>6, <1>7, KeepKnowing

LEMMA AsideKnows ==
  ASSUME TypeInv, Knowing, ToggleTrash \/ Expire \/ UNCHANGED vars
  PROVE  Knowing'
<1>1. UNCHANGED <<mode, obj, durable, pc, loc, late, upset>>
  BY DEF ToggleTrash, Expire, vars, store, control, history
<1>2. /\ row'.ack = row.ack /\ row'.commit_state = row.commit_state
      /\ row'.status = row.status /\ row'.published = row.published
  BY DEF ToggleTrash, Expire, vars, TypeInv, RowType
<1>3. RowKept(row, row') /\ RowSound(row', obj[Blob], Disk)
  BY <1>2 DEF RowKept, RowSound, Knowing
<1>4. BlobKept /\ BodySettled(mode', obj'[Blob], Disk', pc', loc')
  BY <1>1 DEF BlobKept, Knowing, Disk
<1> QED
  BY <1>1, <1>3, <1>4, KeepKnowing

\* What was on disk is what processes saw: a crash or a power loss takes
\* nothing of it.
LEMMA RestartKnows ==
  ASSUME TypeInv, Knowing, Crash \/ PowerLoss, Calm'
  PROVE  Knowing'
<1>1. Restart /\ mode' = mode /\ row' = row
  BY DEF Crash, PowerLoss, session, history
<1>2. /\ late' = {} /\ \A j \in Procs : pc'[j] = "idle" /\ loc'[j] = NoLoc
  BY <1>1 DEF Restart
<1>3. mode = "single" => Disk' = obj'[Blob] \/ \A j \in Procs : pc[j] # "put_sync"
  BY <1>1 DEF Restart, Disk
<1>4. \/ obj'[Blob] = obj[Blob] /\ Disk' = Disk
      \/ Disk' = obj'[Blob] /\ obj'[Blob] \in {obj[Blob], Disk}
  <2>1. upset \subseteq upset'
    BY <1>1 DEF Restart
  <2>2. CASE Crash
    BY <1>1, <2>1, <2>2 DEF Crash, store, Disk
  <2>3. CASE PowerLoss
    <3>1. durable'[Blob] = obj'[Blob] /\ obj'[Blob] \in {obj[Blob], durable[Blob]} /\ PowerFails
      BY <2>3, BlobApart DEF PowerLoss
    <3>2. ~(mode = "single" /\ "torn" \in upset) /\ ~(mode' = "single" /\ "torn" \in upset')
      BY <1>1, <2>1, <3>1 DEF Calm
    <3> QED  BY <3>1, <3>2 DEF Disk
  <2> QED  BY <2>2, <2>3
<1>5. RowSound(row', obj'[Blob], Disk')
  BY <1>1, <1>4 DEF Knowing, RowSound, Sound
<1>6. BodySettled(mode', obj'[Blob], Disk', pc', loc')
  BY <1>1, <1>3, <1>4 DEF Knowing, BodySettled, Body
<1>7. \A j \in Procs : KnowsThen(pc'[j], loc'[j])
  BY <1>2 DEF KnowsThen, Knows
<1> QED
  BY <1>2, <1>5, <1>6, <1>7 DEF Knowing, KnowsThen

-----------------------------------------------------------------------------
(* The invariant.                                                          *)

\* Hazards are not forgotten, and the mode is fixed.
LEMMA UpsetGrows ==
  ASSUME [Next]_vars
  PROVE  mode' = mode /\ (Calm' => Calm)
<1>1. mode' = mode /\ upset \subseteq upset'
  <2>1. ASSUME NEW i \in Clients, ClientStep(i)
        PROVE  mode' = mode /\ upset' = upset
    <3>1. CASE PutStep(i)
      BY <3>1
      DEF PutStep, PutBegin, RecordBegin, PutAccept, PutRename, PutSync, PutAck, RecordAck,
          PutReply, session, history
    <3> QED
      BY <2>1, <3>1
      DEF ClientStep, CompleteUpload, FinishBegin, AbortBegin, AbortCompleted, session, history
  <2>2. ASSUME JobStep  PROVE mode' = mode /\ upset' = upset
    BY <2>2
    DEF JobStep, RecoverCommits, FinishBegin, SweepLoad, SweepBegin, SweepTx, session, history
  <2>3. ASSUME NEW i \in Procs, FinishStep(i) \/ AbortStep(i) \/ CleanupFails(i) \/ Refuse(i)
        PROVE  mode' = mode /\ upset' = upset
    BY <2>3
    DEF FinishStep, FinishFreeze, FinishReuse, FinishSync, FinishCheckParts, FinishRead,
        FinishRename, FinishSettle, FinishStage, FinishVerify, FinishCommit, FinishClean,
        FinishMark, FinishReply, AbortStep, AbortTx, AbortParts, AbortBlob, AbortReply,
        CleanupFails, Refuse, session, history
  <2>4. ASSUME NEW i \in Procs, Interrupt(i)  PROVE mode' = mode /\ upset \subseteq upset'
    BY <2>4 DEF Interrupt, session, history
  <2>5. CASE \/ \E call \in late : Land(call)
             \/ DeletePending \/ ToggleTrash \/ Expire \/ Crash \/ PowerLoss
             \/ UNCHANGED vars
    BY <2>5
    DEF Land, DeletePending, ToggleTrash, Expire, Crash, PowerLoss, Restart, session, history,
        vars
  <2> QED
    BY <2>1, <2>2, <2>3, <2>4, <2>5 DEF Next
<1> QED
  BY <1>1 DEF Calm

LEMMA KnowingStep ==
  ASSUME TypeInv, RowSettled(row), IntactInv, [Next]_vars, Calm', row'.status # "gone"
  PROVE  Knowing'
<1>1. Knowing /\ Guarded /\ row.status # "gone"
  BY UpsetGrows, StepOutcome DEF IntactInv, Outcome
<1>2. ASSUME NEW i \in Clients, ClientStep(i)  PROVE Knowing'
  BY <1>1, <1>2, PutKnows, FinishBeginKnows, AbortKnows DEF ClientStep, CompleteUpload, Procs
<1>3. ASSUME JobStep  PROVE Knowing'
  BY <1>1, <1>3, FinishBeginKnows, AbortKnows DEF JobStep, RecoverCommits, Procs
<1>4. ASSUME NEW i \in Procs,
             FinishStep(i) \/ AbortStep(i) \/ CleanupFails(i) \/ Interrupt(i) \/ Refuse(i)
      PROVE  Knowing'
  BY <1>1, <1>4, FinishKnows, AbortKnows, CleanupFailsKnows, InterruptKnows, RefuseKnows
<1>5. ASSUME NEW call \in late, Land(call)  PROVE Knowing'
  BY <1>1, <1>5, LandKnows
<1>6. CASE DeletePending
  BY <1>6 DEF DeletePending, Dropped, TypeInv, RowType
<1>7. CASE Crash \/ PowerLoss
  BY <1>1, <1>7, RestartKnows
<1>8. CASE ToggleTrash \/ Expire \/ UNCHANGED vars
  BY <1>1, <1>8, AsideKnows
<1> QED
  BY <1>2, <1>3, <1>4, <1>5, <1>6, <1>7, <1>8 DEF Next

LEMMA InitKnowing == Init => IntactInv
<1> SUFFICES ASSUME Init PROVE IntactInv
  OBVIOUS
<1>1. Guarded
  BY DEF Init, Guarded, WriteGuard, PartGuard
<1>2. obj[Blob] = Absent /\ Disk = Absent /\ row.ack[Blob] = NoAck /\ late = {}
  BY BlobApart DEF Init, Disk
<1>3. RowSound(row, obj[Blob], Disk)
  BY <1>2 DEF Init, RowSound
<1>4. \A j \in Procs : Knows(pc[j], loc[j], mode, row, obj[Blob], Disk)
  BY DEF Init, Knows
<1>5. BodySettled(mode, obj[Blob], Disk, pc, loc)
  BY <1>2 DEF BodySettled, Body
<1> QED
  BY <1>1, <1>2, <1>3, <1>4, <1>5 DEF IntactInv, Knowing

\* What every process, and every statement whose request is gone, knows of the
\* object stays true, and locks keep those who rename it apart.
THEOREM IntactInvariant == Spec => [](TypeInv /\ Settled /\ IntactInv)
<1>1. TypeInv /\ Settled /\ IntactInv /\ [Next]_vars => IntactInv'
  BY GuardedStep, KnowingStep DEF IntactInv, Settled
<1>2. TypeInv /\ Settled /\ [Next]_vars => Settled'
  BY SettledStep
<1> QED
  BY <1>1, <1>2, InitTyped, TypedStep, InitSettled, InitKnowing, PTL DEF Spec

\* A ready file has exactly the object its metadata describes, whatever requests,
\* late statements, crashes and power losses went before (finalize_upload), as
\* long as no rename outlived its guards and, in a single upload, no PUT's
\* directory fsync was lost (Undisturbed).
THEOREM PublishedObjectIntact == Spec => []PublishedIntact
<1>1. TypeInv /\ Settled /\ IntactInv => PublishedIntact
  <2> SUFFICES ASSUME TypeInv, Settled, IntactInv, row.file = "ready", Undisturbed
               PROVE  row.status = "completed" /\ AckOf(obj[Blob]) = row.published
    BY DEF PublishedIntact
  <2>1. row.status = "completed"
    BY DEF Settled, RowSettled
  <2>2. RowSound(row, obj[Blob], Disk)
    BY <2>1 DEF IntactInv, Knowing, Undisturbed, Calm
  <2> QED  BY <2>1, <2>2 DEF RowSound, Sound
<1> QED
  BY <1>1, IntactInvariant, PTL

\* ... and, on the same condition, its name is on disk: no power loss takes it.
THEOREM PublishedObjectDurable == Spec => []PublishedDurable
<1>1. TypeInv /\ Settled /\ IntactInv => PublishedDurable
  <2> SUFFICES ASSUME TypeInv, Settled, IntactInv, row.file = "ready", Undisturbed
               PROVE  durable[Blob] = obj[Blob]
    BY DEF PublishedDurable
  <2>1. row.status = "completed"
    BY DEF Settled, RowSettled
  <2>2. RowSound(row, obj[Blob], Disk)
    BY <2>1 DEF IntactInv, Knowing, Undisturbed, Calm
  <2> QED  BY <2>1, <2>2 DEF RowSound, Sound, Disk, Undisturbed
<1> QED
  BY <1>1, IntactInvariant, PTL
-----------------------------------------------------------------------------
(* Expiry.  Without statements that outlive their requests, the session a  *)
(* reclaiming request found open stays open while it holds the lock.       *)

ReclaimsOpen == /\ late = {}
                /\ \A i \in Procs : pc[i] = "reclaim_tx" => row.commit_state = "receiving"

\* Only a completion that holds the lock moves a commit on.
CommitStill == row'.commit_state = row.commit_state

\* A process comes to reclaim with the session open, or has come before.
ReclaimFrom == \A i \in Procs : pc'[i] = "reclaim_tx" =>
                 pc[i] = "reclaim_tx" \/ (row.commit_state = "receiving" /\ row' = row)

LEMMA RowAfterStill ==
  ASSUME row \in RowType, NEW op, NEW l, op \notin {"fin_freeze", "fin_stage"}
  PROVE  RowAfter(op, l).commit_state = row.commit_state
  BY DEF RowAfter, Acked, Recorded, Committed, Cleaned, Aborted, Swept, Dropped, RowType

LEMMA ReclaimGoto ==
  ASSUME TypeInv, NEW i \in Procs, NEW label, NEW l, Goto(i, label, l),
         label # "reclaim_tx"
  PROVE  ReclaimFrom
  BY DEF Goto, ReclaimFrom, TypeInv, ControlTyped

LEMMA CommitStep ==
  ASSUME TypeInv, late = {}, [Next]_vars
  PROVE  /\ ReclaimFrom
         /\ CommitStill \/ \E j \in Procs : pc[j] \in {"fin_freeze", "fin_stage"}
<1> DEFINE Fine == /\ ReclaimFrom
                   /\ CommitStill \/ \E j \in Procs : pc[j] \in {"fin_freeze", "fin_stage"}
<1>1. ASSUME NEW i \in Procs, NEW label, NEW l, Goto(i, label, l), label # "reclaim_tx",
             \/ row' = row
             \/ row' = RowAfter(pc[i], loc[i])
      PROVE  Fine
  <2>1. ReclaimFrom
    BY <1>1, ReclaimGoto
  <2>2. CASE row' = row
    BY <2>1, <2>2 DEF CommitStill
  <2>3. CASE row' = RowAfter(pc[i], loc[i])
    <3>1. PICK op, m : op = pc[i] /\ m = loc[i]
      OBVIOUS
    <3>2. op \notin {"fin_freeze", "fin_stage"} => RowAfter(op, m).commit_state = row.commit_state
      BY RowAfterStill DEF TypeInv
    <3> QED  BY <2>1, <2>3, <3>1, <3>2 DEF CommitStill
  <2> QED  BY <1>1, <2>2, <2>3
<1>2. ASSUME UNCHANGED <<row, pc>>  PROVE Fine
  BY <1>2 DEF ReclaimFrom, CommitStill
<1>3. ASSUME NEW i \in Clients, PutStep(i)  PROVE Fine
  <2>1. i \in Procs
    BY DEF Procs
  <2>2. row' = row \/ row' = RowAfter(pc[i], loc[i])
    BY <1>3
    DEF PutStep, PutBegin, RecordBegin, PutAccept, PutRename, PutSync, PutAck, RecordAck,
        PutReply, session
  <2>3. \E label \in {"put_accept", "put_rename", "put_sync", "put_ack", "rec_ack",
                      "put_reply", "idle"} : \E l : Goto(i, label, l)
    BY <1>3
    DEF PutStep, PutBegin, RecordBegin, PutAccept, PutRename, PutSync, PutAck, RecordAck,
        PutReply, Stop
  <2> QED  BY <1>1, <2>1, <2>2, <2>3
<1>4. ASSUME NEW i \in Procs, FinishStep(i)  PROVE Fine
  <2>1. /\ row' = row \/ row' = RowAfter(pc[i], loc[i])
        /\ \E label, l : Goto(i, label, l) /\ label # "reclaim_tx"
    BY <1>4
    DEF FinishStep, FinishFreeze, FinishReuse, FinishSync, FinishCheckParts, FinishRead,
        FinishRename, FinishSettle, FinishStage, FinishVerify, FinishCommit, FinishClean,
        FinishMark, FinishReply, session, Stop
  <2> QED  BY <1>1, <2>1
<1>5. ASSUME NEW i \in Procs,
             \/ \E explicit : FinishBegin(i, explicit)
             \/ AbortStep(i) \/ AbortCompleted(i) \/ CleanupFails(i) \/ Interrupt(i) \/ Refuse(i)
             \/ i = Maintenance /\ (SweepLoad \/ SweepBegin \/ SweepTx)
      PROVE  Fine
  <2>1. row' = row \/ row' = RowAfter(pc[i], loc[i])
    BY <1>5
    DEF FinishBegin, AbortStep, AbortTx, AbortParts, AbortBlob, AbortReply, AbortCompleted,
        CleanupFails, Interrupt, Refuse, SweepLoad, SweepBegin, SweepTx, session
  <2>2. CASE \E explicit : FinishBegin(i, explicit)
    <3>1. \E label \in {"fin_clean", "fin_freeze", "fin_head", "fin_verify"} : \E l :
             Goto(i, label, l)
      BY <2>2 DEF FinishBegin
    <3> QED  BY <1>1, <2>1, <3>1
  <2>3. CASE ~\E explicit : FinishBegin(i, explicit)
    <3>1. \E label \in {"abort_parts", "abort_blob", "abort_reply", "fin_reply", "sweep_wait",
                        "sweep_tx", "idle"} : \E l : Goto(i, label, l)
      BY <1>5, <2>3
      DEF AbortStep, AbortTx, AbortParts, AbortBlob, AbortReply, AbortCompleted, CleanupFails,
          Interrupt, Refuse, SweepLoad, SweepBegin, SweepTx, Stop
    <3> QED  BY <1>1, <2>1, <3>1
  <2> QED  BY <2>2, <2>3
<1>6. ASSUME NEW i \in Procs, NEW expired_only, AbortBegin(i, expired_only)  PROVE Fine
  BY <1>6
  DEF AbortBegin, Receiving, ReclaimFrom, CommitStill, Goto, session, TypeInv, ControlTyped
<1>7. ASSUME NEW i \in Clients, ClientStep(i)  PROVE Fine
  BY <1>3, <1>5, <1>6, <1>7 DEF ClientStep, CompleteUpload, Procs
<1>8. ASSUME JobStep  PROVE Fine
  BY <1>5, <1>8 DEF JobStep, RecoverCommits, Procs
<1>9. CASE DeletePending \/ ToggleTrash
  BY <1>9
  DEF DeletePending, ToggleTrash, Dropped, control, ReclaimFrom, CommitStill, TypeInv, RowType
<1>10. CASE Crash \/ PowerLoss
  BY <1>10 DEF Crash, PowerLoss, Restart, session, ReclaimFrom, CommitStill
<1>11. CASE Expire \/ UNCHANGED vars
  BY <1>2, <1>11 DEF Expire, control, vars
<1> QED
  BY <1>4, <1>5, <1>7, <1>8, <1>9, <1>10, <1>11 DEF Next

\* Where nothing outlives its request, nothing is ever late.
LEMMA NothingLate ==
  ASSUME ~Detach, late = {}, [Next]_vars
  PROVE  late' = {}
<1>1. ASSUME NEW i \in Clients, ClientStep(i)  PROVE late' = late
  <2>1. CASE PutStep(i)
    BY <2>1
    DEF PutStep, PutBegin, RecordBegin, PutAccept, PutRename, PutSync, PutAck, RecordAck,
        PutReply
  <2> QED
    BY <1>1, <2>1 DEF ClientStep, CompleteUpload, FinishBegin, AbortBegin, AbortCompleted
<1>2. ASSUME JobStep  PROVE late' = late
  BY <1>2 DEF JobStep, RecoverCommits, FinishBegin, SweepLoad, SweepBegin, SweepTx
<1>3. ASSUME NEW i \in Procs, FinishStep(i) \/ AbortStep(i)  PROVE late' = late
  BY <1>3
  DEF FinishStep, FinishFreeze, FinishReuse, FinishSync, FinishCheckParts, FinishRead,
      FinishRename, FinishSettle, FinishStage, FinishVerify, FinishCommit, FinishClean,
      FinishMark, FinishReply, AbortStep, AbortTx, AbortParts, AbortBlob, AbortReply
<1> QED
  BY <1>1, <1>2, <1>3
  DEF Next, CleanupFails, Interrupt, Refuse, Land, DeletePending, ToggleTrash, Expire, Crash,
      PowerLoss, Restart, vars

\* Neither the expiry job nor a reclaiming upload removes a session whose commit
\* has begun, as long as no call outlives its request (Detach): a late statement
\* of an earlier completion may begin the commit while the lock is held.
THEOREM ExpirySpares == ASSUME ~Detach PROVE Spec => ExpirySparesCommits
<1>1. Init => ReclaimsOpen
  BY DEF Init, ReclaimsOpen
<1>2. TypeInv /\ IntactInv /\ ReclaimsOpen /\ [Next]_vars => ReclaimsOpen'
  <2> SUFFICES ASSUME TypeInv, IntactInv, ReclaimsOpen, [Next]_vars  PROVE ReclaimsOpen'
    OBVIOUS
  <2>1. late' = {}
    BY NothingLate DEF ReclaimsOpen
  <2>2. ASSUME NEW i \in Procs, pc'[i] = "reclaim_tx"  PROVE row'.commit_state = "receiving"
    <3>1. \/ pc[i] = "reclaim_tx"
          \/ row.commit_state = "receiving" /\ row' = row
      BY <2>2, CommitStep DEF ReclaimsOpen, ReclaimFrom
    <3>2. CASE pc[i] = "reclaim_tx"
      <4>1. \A j \in Procs : pc[j] \notin {"fin_freeze", "fin_stage"}
        BY <3>2 DEF IntactInv, Guarded, WriteGuard
      <4> QED  BY <3>2, <4>1, CommitStep DEF CommitStill, ReclaimsOpen
    <3> QED  BY <3>1, <3>2
  <2> QED  BY <2>1, <2>2 DEF ReclaimsOpen
<1>3. TypeInv /\ ReclaimsOpen /\ [Next]_vars
      => [\A i \in Procs :
            pc[i] \in {"reclaim_tx", "sweep_tx"} /\ pc'[i] = "abort_parts"
            => row.commit_state = "receiving"]_vars
  <2> SUFFICES ASSUME TypeInv, ReclaimsOpen, Next, NEW i \in Procs,
                      pc[i] = "sweep_tx", pc'[i] = "abort_parts"
               PROVE  row.commit_state = "receiving"
    BY DEF ReclaimsOpen
  <2>1. ASSUME NEW j \in Procs, NEW label, NEW l, Goto(j, label, l),
               i # j \/ label # "abort_parts"
        PROVE  FALSE
    BY <2>1 DEF Goto, TypeInv, ControlTyped
  <2>2. ASSUME NEW j \in Clients, ClientStep(j)  PROVE FALSE
    <3>1. j \in Procs
      BY DEF Procs
    <3>2. CASE PutStep(j)
      <4>1. \E label \in {"put_accept", "put_rename", "put_sync", "put_ack", "rec_ack",
                          "put_reply", "idle"} : \E l : Goto(j, label, l)
        BY <3>2
        DEF PutStep, PutBegin, RecordBegin, PutAccept, PutRename, PutSync, PutAck, RecordAck,
            PutReply, Stop
      <4> QED  BY <2>1, <3>1, <4>1
    <3>3. CASE ~PutStep(j)
      <4>1. \E label \in {"fin_clean", "fin_freeze", "fin_head", "fin_verify", "reclaim_tx",
                          "abort_tx", "abort_reply"} : \E l : Goto(j, label, l)
        BY <2>2, <3>3
        DEF ClientStep, CompleteUpload, FinishBegin, AbortBegin, AbortCompleted
      <4> QED  BY <2>1, <3>1, <4>1
    <3> QED  BY <3>2, <3>3
  <2>3. ASSUME NEW j \in Procs, FinishStep(j) \/ AbortStep(j)  PROVE FALSE
    <3>1. j # i \/ pc[j] = "sweep_tx"
      OBVIOUS
    <3> QED
      BY <2>1, <2>3, <3>1
      DEF FinishStep, FinishFreeze, FinishReuse, FinishSync, FinishCheckParts, FinishRead,
          FinishRename, FinishSettle, FinishStage, FinishVerify, FinishCommit, FinishClean,
          FinishMark, FinishReply, AbortStep, AbortTx, AbortParts, AbortBlob, AbortReply, Stop
  <2>4. ASSUME NEW j \in Procs, CleanupFails(j) \/ Interrupt(j) \/ Refuse(j)  PROVE FALSE
    <3>1. j # i \/ pc[j] = "sweep_tx"
      OBVIOUS
    <3> QED  BY <2>1, <2>4, <3>1 DEF CleanupFails, Interrupt, Refuse, Stop
  <2>5. CASE SweepTx
    <3>1. Maintenance \in Procs
      BY DEF Procs
    <3> QED  BY <2>1, <2>5, <3>1 DEF SweepTx, CanSweep, Receiving, Stop
  <2>6. CASE RecoverCommits \/ SweepLoad \/ SweepBegin
    BY <2>1, <2>6 DEF RecoverCommits, FinishBegin, SweepLoad, SweepBegin, Procs
  <2>7. CASE \/ \E call \in late : Land(call)
             \/ DeletePending \/ ToggleTrash \/ Expire \/ Crash \/ PowerLoss
    BY <2>7 DEF Land, DeletePending, ToggleTrash, Expire, Crash, PowerLoss, Restart, control
  <2> QED  BY <2>2, <2>3, <2>4, <2>5, <2>6, <2>7 DEF Next, JobStep
<1> QED
  BY <1>1, <1>2, <1>3, IntactInvariant, PTL DEF Spec, ExpirySparesCommits

-----------------------------------------------------------------------------
(* The parts of a multipart session.  What was acknowledged of a part, and *)
(* what requests and late statements carry of it, is what is stored; the   *)
(* object is made of it.                                                   *)

\* A PUT lost its directory fsync: a power loss may then take its part away.
Torn  == "torn" \in upset
Frail == PowerFails /\ Torn

Here(p) == obj[p] # Absent /\ (~Torn => durable[p] = obj[p])
Lost(p) == Frail /\ obj[p] = Absent

\* h are the bytes of part p: they are stored, or they have been published.
Holds(p, h) == IF Pending(row) THEN Here(p) /\ obj[p].content = h
                               ELSE row.published.hash[p] = h

\* h was answered for k.
Answered(k, h) ==
  /\ h # None
  /\ IF k = Blob \/ Pending(row) THEN row.ack[k].hash = h
                                 ELSE row.published.hash[k] = h

\* What a PUT of part p, or its late acknowledgement, knows of the part.
PutKnowsPart(label, l, p) ==
  /\ label = "put_accept" => Holds(p, l.version.content) \/ obj[p] = Absent
  /\ label = "put_rename" =>
       /\ row.commit_state = "receiving" /\ row.ack[p] = NoAck
       /\ obj[p] = Absent /\ l.version # Absent
  /\ label = "put_sync" =>
       IF Pending(row) THEN obj[p] # Absent /\ l.version = obj[p]
                       ELSE row.published.hash[p] = l.version.content
  /\ label \in {"put_ack", "rec_ack"} =>
       /\ l.ack.hash # None /\ Holds(p, l.ack.hash)
       /\ Pending(row) => l.ack.etag = obj[p].stamp

\* What completion needs is there, and it has the tags of the parts.
Complete(l) ==
  IF mode = "multipart" THEN \A p \in Parts : Here(p) /\ l.list[p] = obj[p].stamp
                        ELSE obj[Blob] # Absent /\ Disk = obj[Blob]

KnowsParts(label, l) ==
  /\ label \in PartGuard \cup {"put_reply"} => l.key \in WriteKeys
  /\ label \in PartGuard /\ l.key # Blob => PutKnowsPart(label, l, l.key)
  /\ label = "put_reply" => Answered(l.key, l.ack.hash)
  /\ label = "fin_freeze" /\ Pending(row) => Complete(l)
  /\ label \in {"fin_head", "fin_read", "fin_rename"} => row.commit_state # "receiving"
  /\ label = "fin_rename" /\ Pending(row) =>
       \A p \in Parts : obj[p] # Absent /\ l.version.content[p] = obj[p].content

\* What the session and the stored files say of part p until completion ...
PartFits(p) ==
  /\ Torn \/ obj[p] = Absent \/ durable[p] = obj[p]
       \/ \E j \in Procs : pc[j] = "put_sync" /\ loc[j].key = p
  /\ \/ row.ack[p] = NoAck \/ Lost(p)
     \/ Here(p) /\ row.ack[p].etag = obj[p].stamp /\ row.ack[p].hash \in {None, obj[p].content}
  /\ row.commit_state = "receiving" => row.ack[p] = NoAck \/ row.ack[p].hash # None
  /\ row.commit_state # "receiving" =>
       Lost(p) \/ (Here(p) /\ row.ack[p].etag = obj[p].stamp)
  /\ obj[Blob] # Absent =>
       /\ row.commit_state # "receiving"
       /\ obj[p] = Absent \/ obj[p].content = obj[Blob].content[p]
       /\ row.ack[p].hash \in {None, obj[Blob].content[p]}

\* ... and what they say of the session.
SessionFits ==
  IF Pending(row)
  THEN /\ \A k \in Keys : durable[k] \in {Absent, obj[k]}
       /\ mode = "multipart" => \A p \in Parts : PartFits(p)
       /\ mode = "single" /\ row.commit_state # "receiving" =>
            obj[Blob] # Absent /\ Disk = obj[Blob]
  ELSE mode = "multipart" =>
         \A p \in Parts : row.ack[p].hash \in {None, row.published.hash[p]}

\* A process at a label, or a statement that was submitted there.
Active(label, l) ==
  \/ \E j \in Procs : pc[j] = label /\ loc[j] = l
  \/ label \in Statements /\ [op |-> label, loc |-> l] \in late

ToldFits == \A k \in WriteKeys : \A h \in told[k] : Answered(k, h)

PartsKnowing ==
  /\ SessionFits /\ ToldFits
  /\ \A label, l : Active(label, l) => KnowsParts(label, l)

PartsInv == Calm /\ row.status # "gone" => PartsKnowing

-----------------------------------------------------------------------------
(* Steps that leave the rows and what is stored as they are.               *)

SameSession == /\ mode' = mode /\ row'.status = row.status /\ row'.ack = row.ack
               /\ row'.commit_state = row.commit_state /\ row'.published = row.published
SameStore   == obj' = obj /\ \A k \in Keys : durable'[k] \in {durable[k], obj[k]}
HazardsKept == upset \subseteq upset'

\* A PUT leaves when its part is on disk, or loses its fsync.
SyncsKept ==
  \A j \in Procs : pc[j] = "put_sync" /\ loc[j].key \in Parts =>
    \/ pc'[j] = "put_sync" /\ loc'[j].key = loc[j].key
    \/ Torn' \/ obj'[loc[j].key] = Absent \/ durable'[loc[j].key] = obj'[loc[j].key]

LEMMA PartKey ==
  /\ \A p \in Parts : p \in Keys /\ p # Blob
  /\ \A k \in WriteKeys : k \in Keys
  /\ \A k \in WriteKeys : k # Blob => k \in Parts
  /\ Blob \in WriteKeys => mode = "single"
  BY BlobApart DEF WriteKeys, Keys

LEMMA PartMode ==
  ASSUME TypeInv, NEW k \in WriteKeys, k # Blob
  PROVE  mode = "multipart"
  BY DEF TypeInv, SmallTyped, WriteKeys

LEMMA StillHolds ==
  ASSUME SameSession, SameStore, HazardsKept, NEW p \in Parts
  PROVE  /\ Here(p) => Here(p)'
         /\ Lost(p) => Lost(p)'
         /\ \A h : Holds(p, h) => Holds(p, h)'
<1>1. Here(p) => Here(p)'
  BY PartKey DEF SameStore, HazardsKept, Here, Torn
<1>2. Lost(p) => Lost(p)'
  BY DEF SameStore, HazardsKept, Lost, Frail, Torn
<1> QED
  BY <1>1, <1>2 DEF SameSession, SameStore, Holds, Pending

LEMMA StillDisk ==
  ASSUME SameSession, SameStore, HazardsKept, Disk = obj[Blob]
  PROVE  Disk' = obj[Blob]
  BY BlobApart DEF SameSession, SameStore, HazardsKept, Disk

LEMMA StillKnows ==
  ASSUME SameSession, SameStore, HazardsKept, NEW label, NEW l, KnowsParts(label, l)
  PROVE  KnowsParts(label, l)'
<1>1. WriteKeys' = WriteKeys /\ Pending(row)' = Pending(row)
  BY DEF SameSession, WriteKeys, Pending
<1>2. ASSUME label \in PartGuard, l.key # Blob
      PROVE  PutKnowsPart(label, l, l.key)'
  <2>1. l.key \in Parts /\ PutKnowsPart(label, l, l.key)
    BY <1>2, PartKey DEF KnowsParts
  <2>2. PICK p \in Parts : p = l.key
    BY <2>1
  <2>3. PutKnowsPart(label, l, p)'
    BY <1>1, <2>1, <2>2, StillHolds DEF PutKnowsPart, SameSession, SameStore
  <2> QED  BY <2>2, <2>3
<1>3. label = "put_reply" => Answered(l.key, l.ack.hash)'
  BY <1>1 DEF KnowsParts, Answered, SameSession
<1>4. label = "fin_freeze" /\ Pending(row) => Complete(l)'
  BY StillHolds, StillDisk DEF KnowsParts, Complete, SameSession, SameStore
<1>5. label = "fin_rename" /\ Pending(row) =>
        \A p \in Parts : obj'[p] # Absent /\ l.version.content[p] = obj'[p].content
  BY DEF KnowsParts, SameStore
<1> QED
  BY <1>1, <1>2, <1>3, <1>4, <1>5 DEF KnowsParts, SameSession

LEMMA StillFits ==
  ASSUME SameSession, SameStore, HazardsKept, SyncsKept, SessionFits
  PROVE  SessionFits'
<1>1. Pending(row)' = Pending(row)
  BY DEF SameSession, Pending
<1>2. ASSUME NEW p \in Parts, PartFits(p)  PROVE PartFits(p)'
  <2>1. /\ Here(p) => Here(p)'
        /\ Lost(p) => Lost(p)'
    BY StillHolds
  <2> DEFINE Safe == \/ Torn' \/ obj'[p] = Absent \/ durable'[p] = obj'[p]
                     \/ \E j \in Procs : pc'[j] = "put_sync" /\ loc'[j].key = p
  <2>2. Safe
    <3>1. CASE Torn \/ obj[p] = Absent \/ durable[p] = obj[p]
      BY <3>1, PartKey DEF SameStore, HazardsKept, Torn
    <3>2. ASSUME NEW j \in Procs, pc[j] = "put_sync", loc[j].key = p  PROVE Safe
      BY <3>2 DEF SyncsKept
    <3> QED  BY <1>2, <3>1, <3>2 DEF PartFits
  <2> QED  BY <1>2, <2>1, <2>2 DEF PartFits, SameSession, SameStore
<1>3. ASSUME NEW k \in Keys, durable[k] \in {Absent, obj[k]}
      PROVE  durable'[k] \in {Absent, obj'[k]}
  BY <1>3 DEF SameStore
<1>4. obj[Blob] # Absent /\ Disk = obj[Blob] => obj'[Blob] # Absent /\ Disk' = obj'[Blob]
  BY StillDisk DEF SameStore
<1> QED
  BY <1>1, <1>2, <1>3, <1>4 DEF SessionFits, SameSession

LEMMA StillParts ==
  ASSUME PartsKnowing, SameSession, SameStore, HazardsKept, SyncsKept,
         \A label, l : Active(label, l)' => Active(label, l) \/ KnowsParts(label, l)',
         \A k \in WriteKeys : \A h \in told'[k] : h \in told[k] \/ Answered(k, h)
  PROVE  PartsKnowing'
<1>1. SessionFits'
  BY StillFits DEF PartsKnowing
<1>2. ASSUME NEW k, NEW h, Answered(k, h)  PROVE Answered(k, h)'
  BY <1>2 DEF Answered, SameSession, Pending
<1>3. ToldFits'
  BY <1>2 DEF PartsKnowing, ToldFits, WriteKeys, SameSession
<1>4. \A label, l : Active(label, l)' => KnowsParts(label, l)'
  BY StillKnows DEF PartsKnowing
<1> QED
  BY <1>1, <1>3, <1>4 DEF PartsKnowing

\* Who is where after a process moved.
LEMMA GotoActive ==
  ASSUME TypeInv, NEW i \in Procs, NEW to, NEW m, Goto(i, to, m), late' = late
  PROVE  \A label, l : Active(label, l)' => Active(label, l) \/ (label = to /\ l = m)
  BY DEF Active, Goto, TypeInv, ControlTyped

\* A PUT of a part leaves its directory to nobody.
Synced(i) ==
  pc[i] = "put_sync" /\ loc[i].key \in Parts =>
    Torn' \/ obj'[loc[i].key] = Absent \/ durable'[loc[i].key] = obj'[loc[i].key]

LEMMA GotoSyncs ==
  ASSUME TypeInv, NEW i \in Procs, NEW to, NEW m, Goto(i, to, m), Synced(i)
  PROVE  SyncsKept
  BY DEF SyncsKept, Synced, Goto, TypeInv, ControlTyped

LEMMA GotoParts ==
  ASSUME TypeInv, PartsKnowing, NEW i \in Procs, NEW to, NEW m, Goto(i, to, m),
         UNCHANGED <<late, told>>, SameSession, SameStore, HazardsKept, Synced(i),
         KnowsParts(to, m)'
  PROVE  PartsKnowing'
<1>1. \A label, l : Active(label, l)' => Active(label, l) \/ KnowsParts(label, l)'
  BY GotoActive
<1>2. SyncsKept
  BY GotoSyncs
<1> QED
  BY <1>1, <1>2, StillParts

\* The labels that say nothing of the parts.
Plain(label) == label \notin PartGuard \cup {"put_reply", "fin_freeze", "fin_head", "fin_read",
                                             "fin_rename"}

LEMMA PlainKnows ==
  ASSUME NEW label, NEW l, Plain(label)
  PROVE  KnowsParts(label, l)'
  BY DEF Plain, KnowsParts

-----------------------------------------------------------------------------
(* PUTs.                                                                   *)

\* A part that has no PUT at its directory is on disk.
LEMMA Landed ==
  ASSUME TypeInv, PartsKnowing, mode = "multipart", Pending(row), NEW p \in Parts,
         \A j \in Procs : ~(pc[j] = "put_sync" /\ loc[j].key = p), obj[p] # Absent
  PROVE  Here(p)
  BY DEF PartsKnowing, SessionFits, PartFits, Here

LEMMA PutBeginParts ==
  ASSUME TypeInv, PartsKnowing, NEW i \in Clients, NEW k \in Keys, NEW c \in Contents,
         PutBegin(i, k, c)
  PROVE  PartsKnowing'
<1>1. /\ i \in Procs /\ pc[i] = "idle" /\ ReadFree(k) /\ KnownHash(k) \in {None, c}
      /\ k \in WriteKeys /\ Receiving(row)
  BY DEF PutBegin, Procs, RequirePending
<1>2. PICK to, l :
        /\ Goto(i, to, l) /\ l.key = k /\ l.version.content = c
        /\ \/ to = "put_accept" /\ KnownHash(k) = c
           \/ to = "put_rename" /\ KnownHash(k) # c /\ l.version.stamp = clock + 1
  <2> DEFINE accept == [NoLoc EXCEPT !.key = k, !.version = [content |-> c, stamp |-> 0]]
             write  == [NoLoc EXCEPT !.key = k, !.version = [content |-> c, stamp |-> clock + 1]]
  <2>1. /\ accept.key = k /\ accept.version.content = c
        /\ write.key = k /\ write.version.content = c /\ write.version.stamp = clock + 1
    BY DEF NoLoc
  <2>2. \/ KnownHash(k) = c /\ Goto(i, "put_accept", accept)
        \/ KnownHash(k) # c /\ Goto(i, "put_rename", write)
    BY DEF PutBegin
  <2> HIDE DEF accept, write
  <2> QED  BY <2>1, <2>2
<1>3. UNCHANGED <<mode, row, obj, durable, late, told, upset>>
  BY DEF PutBegin, session, store, history
<1>4. SameSession /\ SameStore /\ HazardsKept /\ Synced(i)
  BY <1>1, <1>3 DEF SameSession, SameStore, HazardsKept, Synced
<1>5. ASSUME k # Blob  PROVE PutKnowsPart(to, l, k)
  <2>1. k \in Parts /\ mode = "multipart" /\ Pending(row) /\ row.commit_state = "receiving"
    BY <1>1, <1>5, PartKey, PartMode DEF Receiving
  <2>2. PartFits(k)
    BY <2>1 DEF PartsKnowing, SessionFits
  <2>3. obj[k] # Absent => Here(k)
    BY <1>1, <2>1, Landed DEF ReadFree, PartGuard
  <2>4. /\ obj[k] = Absent \/ obj[k].content \in Contents
        /\ None \notin Contents /\ Absent.content = None /\ NoAck.hash = None
    BY <2>1, SessionAssumption DEF TypeInv, StoreTyped, Absent, NoAck
  <2>5. KnownHash(k) = c => Holds(k, c) \/ obj[k] = Absent
    BY <2>1, <2>2, <2>3, <2>4 DEF KnownHash, PartFits, Lost, Holds
  <2>6. KnownHash(k) # c => row.ack[k] = NoAck /\ obj[k] = Absent
    BY <1>1, <2>1, <2>2, <2>4 DEF KnownHash, PartFits
  <2>7. to = "put_rename" => l.version # Absent
    BY <1>2 DEF TypeInv, SmallTyped, Absent
  <2> QED  BY <1>2, <2>1, <2>5, <2>6, <2>7 DEF PutKnowsPart
<1>6. KnowsParts(to, l)
  BY <1>1, <1>2, <1>5 DEF KnowsParts
<1>7. KnowsParts(to, l)'
  BY <1>4, <1>6, StillKnows
<1> QED
  BY <1>1, <1>2, <1>3, <1>4, <1>7, GotoParts

\* What a process knows.
LEMMA KnownHere ==
  ASSUME PartsKnowing, NEW i \in Procs
  PROVE  \A label, l : pc[i] = label /\ loc[i] = l => KnowsParts(label, l)
  BY DEF PartsKnowing, Active

\* A process that holds the bytes of its part writes them down with its tag.
LEMMA RecordBeginParts ==
  ASSUME TypeInv, PartsKnowing, NEW i \in Clients, NEW k \in Keys, RecordBegin(i, k)
  PROVE  PartsKnowing'
<1>1. /\ i \in Procs /\ pc[i] = "idle" /\ ReadFree(k) /\ Receiving(row) /\ k \in Parts
      /\ mode = "multipart" /\ obj[k] # Absent
  BY DEF RecordBegin, Procs, RequirePending, Stored
<1>2. PICK l : Goto(i, "rec_ack", l) /\ l.key = k /\ l.ack = AckOf(obj[k])
  <2> DEFINE m == [NoLoc EXCEPT !.key = k, !.version = obj[k], !.ack = AckOf(obj[k])]
  <2>1. Goto(i, "rec_ack", m)
    BY DEF RecordBegin
  <2>2. m.key = k /\ m.ack = AckOf(obj[k])
    BY DEF NoLoc
  <2> HIDE DEF m
  <2> QED  BY <2>1, <2>2
<1>3. UNCHANGED <<mode, row, obj, durable, late, told, upset>>
  BY DEF RecordBegin, session, store, history
<1>4. SameSession /\ SameStore /\ HazardsKept /\ Synced(i)
  BY <1>1, <1>3 DEF SameSession, SameStore, HazardsKept, Synced
<1>5. Here(k)
  BY <1>1, Landed DEF ReadFree, PartGuard, Receiving
<1>6. obj[k].content # None
  BY <1>1, SessionAssumption DEF TypeInv, StoreTyped
<1>7. KnowsParts("rec_ack", l)
  <2>1. PutKnowsPart("rec_ack", l, k)
    BY <1>1, <1>2, <1>5, <1>6 DEF PutKnowsPart, Holds, AckOf, Receiving
  <2> QED  BY <1>1, <1>2, <2>1 DEF KnowsParts, WriteKeys
<1>8. KnowsParts("rec_ack", l)'
  BY <1>4, <1>7, StillKnows
<1> QED
  BY <1>1, <1>2, <1>3, <1>4, <1>8, GotoParts

LEMMA PutMoveParts ==
  ASSUME TypeInv, PartsKnowing, NEW i \in Clients, PutAccept(i) \/ PutSync(i)
  PROVE  PartsKnowing'
<1>1. i \in Procs
  BY DEF Procs
<1>2. PICK here, m : pc[i] = here /\ loc[i] = m
  OBVIOUS
<1>3. /\ here \in {"put_accept", "put_sync"} /\ obj[m.key] # Absent
      /\ \E l : /\ Goto(i, "put_ack", l)
                /\ l = [m EXCEPT !.ack = [etag |-> obj[m.key].stamp, hash |-> m.version.content]]
      /\ UNCHANGED <<mode, row, obj, late, told, upset>>
      /\ \/ here = "put_accept" /\ durable' = durable
         \/ here = "put_sync" /\ SyncDirectory(m.key)
  BY <1>2 DEF PutAccept, PutSync, Stored, session, store, history
<1>4. m \in Locals /\ PartTyped(m)
  BY <1>1, <1>2 DEF TypeInv, ControlTyped
<1>5. PICK l : /\ Goto(i, "put_ack", l) /\ l.key = m.key
               /\ l.ack = [etag |-> obj[m.key].stamp, hash |-> m.version.content]
  BY <1>3, <1>4 DEF Locals
<1>6. /\ \A k \in Keys : durable'[k] \in {durable[k], obj[k]}
      /\ here = "put_sync" => durable'[m.key] = obj[m.key]
  BY <1>3, <1>4 DEF SyncDirectory, Siblings, Locals, Keys
<1>7. SameSession /\ SameStore /\ HazardsKept /\ Synced(i)
  BY <1>2, <1>3, <1>6 DEF SameSession, SameStore, HazardsKept, Synced
<1>8. KnowsParts(here, m)
  BY <1>1, <1>2, KnownHere
<1>9. ASSUME m.key # Blob  PROVE PutKnowsPart("put_ack", l, m.key)'
  <2>1. PICK p \in Parts : p = m.key
    BY <1>3, <1>8, <1>9, PartKey DEF KnowsParts, PartGuard
  <2>2. PutKnowsPart(here, m, p)
    BY <1>3, <1>8, <1>9, <2>1 DEF KnowsParts, PartGuard
  <2>3. m.version.content \in Contents /\ None \notin Contents
    BY <1>4, <2>1, SessionAssumption DEF PartTyped
  <2>4. CASE here = "put_accept"
    <3>1. Holds(p, m.version.content)
      BY <1>3, <2>1, <2>2, <2>4 DEF PutKnowsPart
    <3>2. Holds(p, m.version.content)'
      <4>1. PICK h : h = m.version.content
        OBVIOUS
      <4> QED  BY <1>7, <3>1, <4>1, StillHolds
    <3> QED  BY <1>3, <1>5, <2>1, <2>3, <3>2 DEF PutKnowsPart, Holds
  <2>5. CASE here = "put_sync"
    <3>1. Here(p)'
      BY <1>3, <1>6, <2>1, <2>5 DEF Here
    <3>2. IF Pending(row) THEN obj[p].content = m.version.content
                          ELSE row.published.hash[p] = m.version.content
      BY <2>2, <2>5 DEF PutKnowsPart
    <3> QED  BY <1>3, <1>5, <2>1, <2>3, <3>1, <3>2 DEF PutKnowsPart, Holds
  <2> QED  BY <1>3, <2>1, <2>4, <2>5
<1>10. KnowsParts("put_ack", l)'
  BY <1>3, <1>5, <1>8, <1>9 DEF KnowsParts, PartGuard, WriteKeys
<1> QED
  BY <1>1, <1>3, <1>5, <1>7, <1>10, GotoParts

LEMMA PutReplyParts ==
  ASSUME TypeInv, PartsKnowing, NEW i \in Clients, PutReply(i)
  PROVE  PartsKnowing'
<1>1. i \in Procs
  BY DEF Procs
<1>2. PICK m : pc[i] = "put_reply" /\ loc[i] = m
  BY DEF PutReply
<1>3. m \in Locals /\ KnowsParts("put_reply", m)
  BY <1>1, <1>2, KnownHere DEF TypeInv, ControlTyped
<1>4. /\ Goto(i, "idle", NoLoc) /\ UNCHANGED <<mode, row, obj, durable, late, upset>>
      /\ told' = [told EXCEPT ![m.key] = @ \cup {m.ack.hash}]
  BY <1>2 DEF PutReply, Stop, session, store
<1>5. SameSession /\ SameStore /\ HazardsKept /\ Synced(i)
  BY <1>2, <1>4 DEF SameSession, SameStore, HazardsKept, Synced
<1>6. \A k \in WriteKeys : \A h \in told'[k] : h \in told[k] \/ Answered(k, h)
  <2>1. Answered(m.key, m.ack.hash)
    BY <1>3 DEF KnowsParts
  <2>2. \A k \in WriteKeys : \A h \in told'[k] : h \in told[k] \/ (k = m.key /\ h = m.ack.hash)
    BY <1>3, <1>4, PartKey DEF TypeInv, SmallTyped
  <2> QED  BY <2>1, <2>2
<1>7. KnowsParts("idle", NoLoc)'
  BY PlainKnows DEF Plain, PartGuard
<1>8. \A label, l : Active(label, l)' => Active(label, l) \/ KnowsParts(label, l)'
  BY <1>1, <1>4, <1>7, GotoActive
<1>9. SyncsKept
  BY <1>1, <1>4, <1>5, GotoSyncs
<1> QED
  BY <1>5, <1>6, <1>8, <1>9, StillParts

-----------------------------------------------------------------------------
(* Statements.                                                             *)

StoreStill == UNCHANGED <<mode, obj, durable, upset>>

\* What is known survives what the statement does to the row.
RowMoves ==
  /\ \A label, m : KnowsParts(label, m) => KnowsParts(label, m)'
  /\ \A k \in WriteKeys : \A h : Answered(k, h) => Answered(k, h)'
  /\ SyncsKept => SessionFits'

LEMMA HereStill ==
  ASSUME StoreStill
  PROVE  /\ WriteKeys' = WriteKeys
         /\ \A p : (Here(p)' <=> Here(p)) /\ (Lost(p)' <=> Lost(p))
         /\ \A m : Complete(m)' <=> Complete(m)
  BY DEF StoreStill, WriteKeys, Here, Lost, Frail, Torn, Complete, Disk

\* A request for which the row's tags and hashes are all that changes.
AckOnly == /\ row'.status = row.status /\ row'.commit_state = row.commit_state
           /\ row'.published = row.published

LEMMA AckOnlyKnows ==
  ASSUME StoreStill, AckOnly, NEW label, NEW m, KnowsParts(label, m),
         label = "put_rename" /\ m.key \in Parts => row'.ack[m.key] = row.ack[m.key],
         label = "put_reply" => Answered(m.key, m.ack.hash)'
  PROVE  KnowsParts(label, m)'
<1>1. /\ WriteKeys' = WriteKeys /\ Pending(row)' = Pending(row)
      /\ \A p, h : Holds(p, h)' <=> Holds(p, h)
      /\ Complete(m)' <=> Complete(m)
  BY HereStill DEF AckOnly, Pending, Holds, StoreStill
<1>2. ASSUME label \in PartGuard, m.key # Blob
      PROVE  PutKnowsPart(label, m, m.key)'
  <2>1. m.key \in Parts /\ PutKnowsPart(label, m, m.key)
    BY <1>2, PartKey DEF KnowsParts
  <2> QED  BY <1>1, <2>1 DEF PutKnowsPart, AckOnly, StoreStill
<1> QED
  BY <1>1, <1>2 DEF KnowsParts, AckOnly, StoreStill

\* The statement that acknowledges a part.
LEMMA AckPartMoves ==
  ASSUME TypeInv, Knowing, PartsKnowing, StoreStill, AckOnly, row.status # "gone",
         mode = "multipart", NEW p \in Parts, NEW a, row'.ack = [row.ack EXCEPT ![p] = a],
         a.hash # None, Holds(p, a.hash), Pending(row) => a.etag = obj[p].stamp
  PROVE  RowMoves
<1>1. /\ row.ack \in [Keys -> Ack] /\ p \in Keys /\ p # Blob /\ NoAck.hash = None
      /\ WriteKeys = Parts
  BY PartKey DEF TypeInv, RowType, NoAck, WriteKeys
<1>2. \A k \in Keys : row'.ack[k] = IF k = p THEN a ELSE row.ack[k]
  BY <1>1
<1>3. Pending(row)' = Pending(row)
  BY DEF AckOnly, Pending
<1>4. ASSUME Pending(row)
      PROVE  PartFits(p) /\ Here(p) /\ obj[p].content = a.hash /\ a.etag = obj[p].stamp
  BY <1>4 DEF PartsKnowing, SessionFits, Holds
<1>5. ASSUME NEW k \in WriteKeys, NEW h, Answered(k, h)  PROVE Answered(k, h)'
  <2>1. Pending(row) /\ k = p => h = a.hash
    BY <1>1, <1>4, <1>5 DEF Answered, PartFits, Lost, Here
  <2> QED  BY <1>1, <1>2, <1>3, <1>5, <2>1 DEF Answered, AckOnly
<1>6. ASSUME NEW label, NEW m, KnowsParts(label, m)  PROVE KnowsParts(label, m)'
  <2>1. ASSUME label = "put_rename", m.key = p  PROVE FALSE
    <3>1. row.commit_state = "receiving" /\ obj[p] = Absent
      BY <1>1, <1>6, <2>1 DEF KnowsParts, PartGuard, PutKnowsPart
    <3>2. row.status # "completed"
      BY <3>1 DEF Knowing, RowSound
    <3>3. Pending(row)
      BY <3>2 DEF Pending, TypeInv, RowType
    <3> QED  BY <1>4, <3>1, <3>3 DEF Here
  <2>2. label = "put_rename" /\ m.key \in Parts => row'.ack[m.key] = row.ack[m.key]
    BY <1>2, <2>1, PartKey
  <2>3. label = "put_reply" => Answered(m.key, m.ack.hash)'
    <3>1. PICK k, h : k = m.key /\ h = m.ack.hash
      OBVIOUS
    <3>2. label = "put_reply" => k \in WriteKeys /\ Answered(k, h)
      BY <1>6, <3>1 DEF KnowsParts
    <3>3. label = "put_reply" => Answered(k, h)'
      BY <1>5, <3>2
    <3> QED  BY <3>1, <3>3
  <2> QED  BY <1>6, <2>2, <2>3, AckOnlyKnows
<1>7. ASSUME SyncsKept  PROVE SessionFits'
  <2>1. CASE Pending(row)
    <3>1. ASSUME NEW q \in Parts  PROVE PartFits(q)'
      <4> DEFINE Safe == \/ Torn' \/ obj'[q] = Absent \/ durable'[q] = obj'[q]
                         \/ \E j \in Procs : pc'[j] = "put_sync" /\ loc'[j].key = q
      <4>1. PartFits(q)
        BY <2>1 DEF PartsKnowing, SessionFits
      <4>2. Safe
        BY <1>7, <4>1 DEF PartFits, SyncsKept, StoreStill, Torn
      <4>3. /\ Here(q)' <=> Here(q)
            /\ Lost(q)' <=> Lost(q)
        BY HereStill
      <4>4. q \in Keys
        BY PartKey
      <4>5. CASE q # p
        BY <1>2, <4>1, <4>2, <4>3, <4>4, <4>5 DEF PartFits, StoreStill, AckOnly
      <4>6. CASE q = p
        <5>1. row'.ack[q] = a /\ a.hash = obj[q].content /\ a.etag = obj[q].stamp /\ Here(q)
          BY <1>2, <1>4, <2>1, <4>4, <4>6
        <5> QED  BY <4>1, <4>2, <4>3, <5>1 DEF PartFits, StoreStill, AckOnly, Here
      <4> QED  BY <4>5, <4>6
    <3> QED  BY <1>3, <2>1, <3>1 DEF SessionFits, PartsKnowing, StoreStill
  <2>2. CASE ~Pending(row)
    <3>1. a.hash = row.published.hash[p]
      BY <2>2 DEF Holds
    <3>2. \A q \in Parts : row.ack[q].hash \in {None, row.published.hash[q]}
      BY <2>2 DEF PartsKnowing, SessionFits
    <3>3. \A q \in Parts : row'.ack[q].hash \in {None, row'.published.hash[q]}
      BY <1>2, <3>1, <3>2, PartKey DEF AckOnly
    <3> QED  BY <1>3, <2>2, <3>3 DEF SessionFits
  <2> QED  BY <2>1, <2>2
<1> QED
  BY <1>5, <1>6, <1>7 DEF RowMoves

\* The statement that writes the tag and hash of the object itself.
LEMMA AckBlobMoves ==
  ASSUME TypeInv, Knowing, PartsKnowing, StoreStill, NEW a,
         row'.ack = [row.ack EXCEPT ![Blob] = a], Sound(a, obj[Blob], Disk),
         row'.status = row.status, row'.published = row.published, Pending(row),
         (row'.commit_state = "receiving") <=> (row.commit_state = "receiving")
  PROVE  RowMoves
<1>1. row.ack \in [Keys -> Ack] /\ Blob \in Keys /\ NoAck.hash = None
  BY BlobApart DEF TypeInv, RowType, NoAck
<1>2. \A k \in Keys : row'.ack[k] = IF k = Blob THEN a ELSE row.ack[k]
  BY <1>1
<1>3. Pending(row)'
  BY DEF Pending
<1>4. ASSUME NEW k \in WriteKeys, NEW h, Answered(k, h)  PROVE Answered(k, h)'
  <2>1. k = Blob => h = a.hash
    BY <1>1, <1>4 DEF Answered, Knowing, RowSound, Sound, AckOf
  <2> QED  BY <1>2, <1>3, <1>4, <2>1, PartKey DEF Answered
<1>5. ASSUME NEW label, NEW m, KnowsParts(label, m)  PROVE KnowsParts(label, m)'
  <2>1. /\ WriteKeys' = WriteKeys /\ Pending(row)' = Pending(row)
        /\ \A p, h : Holds(p, h)' <=> Holds(p, h)
        /\ Complete(m)' <=> Complete(m)
    BY <1>3, HereStill DEF Holds, StoreStill
  <2>2. ASSUME label \in PartGuard, m.key # Blob
        PROVE  PutKnowsPart(label, m, m.key)'
    <3>1. m.key \in Parts /\ PutKnowsPart(label, m, m.key)
      BY <1>5, <2>2, PartKey DEF KnowsParts
    <3>2. row'.ack[m.key] = row.ack[m.key]
      BY <1>2, <3>1, PartKey
    <3> QED  BY <2>1, <3>1, <3>2 DEF PutKnowsPart, StoreStill
  <2>3. label = "put_reply" => Answered(m.key, m.ack.hash)'
    <3>1. PICK k, h : k = m.key /\ h = m.ack.hash
      OBVIOUS
    <3>2. label = "put_reply" => k \in WriteKeys /\ Answered(k, h)
      BY <1>5, <3>1 DEF KnowsParts
    <3>3. label = "put_reply" => Answered(k, h)'
      BY <1>4, <3>2
    <3> QED  BY <3>1, <3>3
  <2> QED  BY <1>5, <2>1, <2>2, <2>3 DEF KnowsParts, StoreStill
<1>6. ASSUME SyncsKept  PROVE SessionFits'
  <2>1. ASSUME NEW q \in Parts, PartFits(q)  PROVE PartFits(q)'
    <3> DEFINE Safe == \/ Torn' \/ obj'[q] = Absent \/ durable'[q] = obj'[q]
                       \/ \E j \in Procs : pc'[j] = "put_sync" /\ loc'[j].key = q
    <3>1. Safe
      BY <1>6, <2>1 DEF PartFits, SyncsKept, StoreStill, Torn
    <3>2. /\ Here(q)' <=> Here(q)
          /\ Lost(q)' <=> Lost(q)
      BY HereStill
    <3>3. row'.ack[q] = row.ack[q]
      BY <1>2, PartKey
    <3> QED  BY <2>1, <3>1, <3>2, <3>3 DEF PartFits, StoreStill
  <2>2. Disk' = Disk
    BY DEF Disk, StoreStill
  <2> QED  BY <1>3, <2>1, <2>2 DEF SessionFits, PartsKnowing, StoreStill
<1> QED
  BY <1>4, <1>5, <1>6 DEF RowMoves

\* Completion begins, with tags for the parts that had none.
LEMMA FreezeMoves ==
  ASSUME TypeInv, Knowing, PartsKnowing, StoreStill, NEW l \in Locals, Receiving(row),
         row' = Frozen(row, l), Complete(l)
  PROVE  RowMoves
<1>1. /\ row.ack \in [Keys -> Ack] /\ Blob \in Keys /\ NoAck.hash = None /\ NoAck.etag = 0
      /\ row.status = "pending" /\ row.commit_state = "receiving"
  BY BlobApart DEF TypeInv, RowType, NoAck, Receiving, Pending
<1>2. /\ row'.status = "pending" /\ row'.commit_state = "assembling"
      /\ row'.published = row.published
      /\ \A k \in Keys : row'.ack[k] = IF k \in Parts /\ row.ack[k] = NoAck /\ l.list[k] # 0
                                       THEN [etag |-> l.list[k], hash |-> None]
                                       ELSE row.ack[k]
  BY <1>1 DEF Frozen, TypeInv, RowType
<1>3. ASSUME NEW k \in Keys  PROVE row'.ack[k].hash = row.ack[k].hash
  <2>1. CASE k \in Parts /\ row.ack[k] = NoAck /\ l.list[k] # 0
    <3>1. row'.ack[k] = [etag |-> l.list[k], hash |-> None]
      BY <1>2, <2>1
    <3>2. row'.ack[k].hash = None
      BY <3>1
    <3> QED  BY <1>1, <2>1, <3>2
  <2>2. CASE ~(k \in Parts /\ row.ack[k] = NoAck /\ l.list[k] # 0)
    BY <1>2, <2>2
  <2> QED  BY <2>1, <2>2
<1>4. Pending(row) /\ Pending(row)'
  BY <1>1, <1>2 DEF Pending
<1>5. ASSUME NEW k \in WriteKeys, NEW h, Answered(k, h)  PROVE Answered(k, h)'
  BY <1>3, <1>4, <1>5, PartKey DEF Answered
<1>6. ASSUME NEW label, NEW m, KnowsParts(label, m)  PROVE KnowsParts(label, m)'
  <2>1. /\ WriteKeys' = WriteKeys /\ Pending(row)' = Pending(row)
        /\ \A p, h : Holds(p, h)' <=> Holds(p, h)
        /\ Complete(m)' <=> Complete(m)
    BY <1>4, HereStill DEF Holds, StoreStill
  <2>2. ASSUME label \in PartGuard, m.key # Blob
        PROVE  PutKnowsPart(label, m, m.key)'
    <3>1. m.key \in Parts /\ m.key \in WriteKeys /\ PutKnowsPart(label, m, m.key)
      BY <1>6, <2>2, PartKey DEF KnowsParts
    <3>2. obj[m.key] # Absent
      BY <3>1, <2>2, PartMode DEF Complete, Here
    <3> QED  BY <1>4, <2>1, <3>1, <3>2 DEF PutKnowsPart, StoreStill
  <2>3. label = "put_reply" => Answered(m.key, m.ack.hash)'
    <3>1. PICK k, h : k = m.key /\ h = m.ack.hash
      OBVIOUS
    <3>2. label = "put_reply" => k \in WriteKeys /\ Answered(k, h)
      BY <1>6, <3>1 DEF KnowsParts
    <3>3. label = "put_reply" => Answered(k, h)'
      BY <1>5, <3>2
    <3> QED  BY <3>1, <3>3
  <2> QED  BY <1>2, <1>6, <2>1, <2>2, <2>3 DEF KnowsParts, StoreStill
<1>7. ASSUME SyncsKept  PROVE SessionFits'
  <2>1. ASSUME NEW q \in Parts, mode = "multipart"  PROVE PartFits(q)'
    <3> DEFINE Safe == \/ Torn' \/ obj'[q] = Absent \/ durable'[q] = obj'[q]
                       \/ \E j \in Procs : pc'[j] = "put_sync" /\ loc'[j].key = q
    <3>1. PartFits(q)
      BY <1>4, <2>1 DEF PartsKnowing, SessionFits
    <3>2. Safe
      BY <1>7, <2>1, <3>1 DEF PartFits, SyncsKept, StoreStill, Torn
    <3>3. /\ Here(q)' <=> Here(q)
          /\ Lost(q)' <=> Lost(q)
      BY HereStill
    <3>4. Here(q) /\ l.list[q] = obj[q].stamp /\ q \in Keys /\ obj[q] # Absent
      BY <2>1, PartKey DEF Complete, Here
    <3>5. row'.ack[q].hash = row.ack[q].hash /\ row'.ack[q].etag = obj[q].stamp
      <4>1. CASE row.ack[q] = NoAck /\ l.list[q] # 0
        <5>1. row'.ack[q] = [etag |-> l.list[q], hash |-> None]
          BY <1>2, <2>1, <3>4, <4>1
        <5>2. row'.ack[q].etag = l.list[q]
          BY <5>1
        <5> QED  BY <1>3, <3>4, <5>2
      <4>2. CASE row.ack[q] = NoAck /\ l.list[q] = 0
        <5>1. row'.ack[q] = NoAck
          BY <1>2, <3>4, <4>2
        <5> QED  BY <1>1, <1>3, <3>4, <4>2, <5>1
      <4>3. CASE row.ack[q] # NoAck
        <5>1. row'.ack[q] = row.ack[q]
          BY <1>2, <3>4, <4>3
        <5> QED  BY <3>1, <3>4, <4>3, <5>1 DEF PartFits, Lost
      <4> QED  BY <4>1, <4>2, <4>3
    <3>6. row'.ack[q].hash \in {None, obj[q].content}
      BY <1>1, <3>1, <3>4, <3>5 DEF PartFits, Lost
    <3> QED  BY <1>2, <3>1, <3>2, <3>3, <3>4, <3>5, <3>6, <1>1 DEF PartFits, StoreStill
  <2>2. mode = "single" => obj'[Blob] # Absent /\ Disk' = obj'[Blob]
    BY DEF Complete, StoreStill, Disk
  <2> QED  BY <1>4, <2>1, <2>2 DEF SessionFits, PartsKnowing, StoreStill
<1> QED
  BY <1>5, <1>6, <1>7 DEF RowMoves

\* The commit publishes the object, which is made of the parts.
LEMMA CommitMoves ==
  ASSUME TypeInv, Knowing, PartsKnowing, StoreStill, NEW a, CanCommit(row),
         row'.status = "completed", row'.published = a, row'.ack = row.ack,
         row'.commit_state = row.commit_state, a = row.ack[Blob]
  PROVE  RowMoves
<1>1. /\ row.status = "pending" /\ row.commit_state = "staged" /\ Pending(row) /\ ~Pending(row)'
      /\ obj[Blob] # Absent /\ a.hash = obj[Blob].content /\ NoAck.hash = None
  BY DEF CanCommit, Pending, Knowing, RowSound, Sound, AckOf, NoAck
<1>2. ASSUME NEW p \in Parts, mode = "multipart"
      PROVE  /\ obj[p] # Absent => obj[p].content = row'.published.hash[p]
             /\ row.ack[p].hash \in {None, row'.published.hash[p]}
  <2>1. PartFits(p)
    BY <1>1, <1>2 DEF PartsKnowing, SessionFits
  <2> QED  BY <1>1, <2>1 DEF PartFits
<1>3. ASSUME NEW k \in WriteKeys, NEW h, Answered(k, h)  PROVE Answered(k, h)'
  BY <1>1, <1>2, <1>3, PartKey, PartMode DEF Answered
<1>4. ASSUME NEW label, NEW m, KnowsParts(label, m)  PROVE KnowsParts(label, m)'
  <2>1. WriteKeys' = WriteKeys
    BY HereStill
  <2>2. ASSUME label \in PartGuard, m.key # Blob
        PROVE  PutKnowsPart(label, m, m.key)'
    <3>1. m.key \in Parts /\ m.key \in WriteKeys /\ PutKnowsPart(label, m, m.key)
      BY <1>4, <2>2, PartKey DEF KnowsParts
    <3>2. obj[m.key] # Absent => obj[m.key].content = row'.published.hash[m.key]
      BY <1>2, <2>2, <3>1, PartMode
    <3>3. \A h : Holds(m.key, h) => row'.published.hash[m.key] = h
      BY <1>1, <3>2 DEF Holds, Here
    <3> QED  BY <1>1, <3>1, <3>2, <3>3 DEF PutKnowsPart, Holds, StoreStill
  <2>3. label = "put_reply" => Answered(m.key, m.ack.hash)'
    <3>1. PICK k, h : k = m.key /\ h = m.ack.hash
      OBVIOUS
    <3>2. label = "put_reply" => k \in WriteKeys /\ Answered(k, h)
      BY <1>4, <3>1 DEF KnowsParts
    <3>3. label = "put_reply" => Answered(k, h)'
      BY <1>3, <3>2
    <3> QED  BY <3>1, <3>3
  <2> QED  BY <1>1, <1>4, <2>1, <2>2, <2>3 DEF KnowsParts, StoreStill
<1>5. SessionFits'
  BY <1>1, <1>2 DEF SessionFits, StoreStill
<1> QED
  BY <1>3, <1>4, <1>5 DEF RowMoves

LEMMA SameMoves ==
  ASSUME PartsKnowing, StoreStill, SameSession
  PROVE  RowMoves
<1>1. SameStore /\ HazardsKept
  BY DEF StoreStill, SameStore, HazardsKept
<1>2. \A k \in WriteKeys : \A h : Answered(k, h) => Answered(k, h)'
  BY DEF Answered, SameSession, Pending
<1> QED
  BY <1>1, <1>2, StillKnows, StillFits DEF RowMoves, PartsKnowing

\* Every statement keeps what is known, whenever it runs.
LEMMA StatementMoves ==
  ASSUME TypeInv, Knowing, PartsKnowing, StoreStill, NEW op \in Statements, NEW l \in Locals,
         row' = RowAfter(op, l), row.status # "gone", row'.status # "gone",
         KnowsParts(op, l), Knows(op, l, mode, row, obj[Blob], Disk)
  PROVE  RowMoves
<1>1. /\ row \in RowType /\ DOMAIN row.ack = Keys /\ row.ack \in [Keys -> Ack]
      /\ l.key \in Keys /\ Blob \in Keys /\ mode' = mode
  BY BlobApart DEF TypeInv, RowType, Locals, StoreStill
<1>2. ASSUME row' = row  PROVE RowMoves
  BY <1>1, <1>2, SameMoves DEF SameSession
<1>3. CASE op = "put_ack"
  <2>1. CASE CanAck(row, l) /\ l.key = Blob
    <3>1. Pending(row) /\ row.commit_state = "receiving"
      BY <2>1 DEF CanAck, Receiving
    <3>2. row'.ack = [row.ack EXCEPT ![Blob] = l.ack] /\ AckOnly
      BY <1>1, <1>3, <2>1 DEF RowAfter, Acked, RowType, AckOnly
    <3>3. Sound(l.ack, obj[Blob], Disk)
      BY <1>3, <2>1 DEF Knows
    <3> QED  BY <3>1, <3>2, <3>3, AckBlobMoves DEF AckOnly
  <2>2. CASE CanAck(row, l) /\ l.key # Blob
    <3>1. l.key \in Parts /\ mode = "multipart" /\ PutKnowsPart(op, l, l.key)
      BY <1>3, <2>2, PartKey, PartMode DEF KnowsParts, PartGuard
    <3>2. row'.ack = [row.ack EXCEPT ![l.key] = l.ack] /\ AckOnly
      BY <1>1, <1>3, <2>2 DEF RowAfter, Acked, RowType, AckOnly
    <3> QED  BY <1>3, <3>1, <3>2, AckPartMoves DEF PutKnowsPart
  <2>3. CASE ~CanAck(row, l)
    BY <1>2, <1>3, <2>3 DEF RowAfter, Acked
  <2> QED  BY <2>1, <2>2, <2>3
<1>4. CASE op = "rec_ack"
  <2>1. CASE CanRecord(row, l)
    <3>1. l.key # Blob
      BY <1>4, BlobApart DEF Knows
    <3>2. l.key \in Parts /\ mode = "multipart" /\ PutKnowsPart(op, l, l.key)
      BY <1>4, <3>1, PartKey, PartMode DEF KnowsParts, PartGuard
    <3>3. row'.ack = [row.ack EXCEPT ![l.key] = l.ack] /\ AckOnly
      BY <1>1, <1>4, <2>1 DEF RowAfter, Recorded, RowType, AckOnly
    <3> QED  BY <1>4, <3>2, <3>3, AckPartMoves DEF PutKnowsPart
  <2>2. CASE ~CanRecord(row, l)
    BY <1>2, <1>4, <2>2 DEF RowAfter, Recorded
  <2> QED  BY <2>1, <2>2
<1>5. CASE op = "fin_freeze"
  <2>1. CASE Receiving(row)
    <3>1. Complete(l)
      BY <1>5, <2>1 DEF KnowsParts, Receiving
    <3>2. row' = Frozen(row, l)
      BY <1>5 DEF RowAfter
    <3> QED  BY <2>1, <3>1, <3>2, FreezeMoves
  <2>2. CASE ~Receiving(row)
    BY <1>2, <1>5, <2>2 DEF RowAfter, Frozen
  <2> QED  BY <2>1, <2>2
<1>6. CASE op = "fin_stage"
  <2>1. CASE CanStage(row)
    <3>1. Pending(row) /\ row.commit_state = "assembling"
      BY <2>1 DEF CanStage
    <3>2. /\ row'.ack = [row.ack EXCEPT ![Blob] = l.ack] /\ row'.commit_state = "staged"
          /\ row'.status = row.status /\ row'.published = row.published
      BY <1>1, <1>6, <2>1 DEF RowAfter, Staged, RowType
    <3>3. Sound(l.ack, obj[Blob], Disk)
      BY <1>6 DEF Knows
    <3> QED  BY <3>1, <3>2, <3>3, AckBlobMoves
  <2>2. CASE ~CanStage(row)
    BY <1>2, <1>6, <2>2 DEF RowAfter, Staged
  <2> QED  BY <2>1, <2>2
<1>7. CASE op = "fin_commit"
  <2>1. CASE CanCommit(row)
    <3>1. /\ row'.status = "completed" /\ row'.published = l.ack /\ row'.ack = row.ack
          /\ row'.commit_state = row.commit_state
      BY <1>1, <1>7, <2>1 DEF RowAfter, Committed, RowType
    <3>2. l.ack = row.ack[Blob]
      BY <1>7 DEF Knows
    <3> QED  BY <2>1, <3>1, <3>2, CommitMoves
  <2>2. CASE ~CanCommit(row)
    BY <1>2, <1>7, <2>2 DEF RowAfter, Committed
  <2> QED  BY <2>1, <2>2
<1>8. CASE op = "fin_mark"
  <2>1. SameSession
    BY <1>1, <1>8 DEF RowAfter, Cleaned, RowType, SameSession
  <2> QED  BY <2>1, SameMoves
<1>9. CASE op \in {"abort_tx", "reclaim_tx", "sweep_tx"}
  <2>1. Dropped(row).status = "gone"
    BY <1>1 DEF Dropped, RowType
  <2>2. row' = row
    BY <1>9, <2>1 DEF RowAfter, Aborted, Swept
  <2> QED  BY <1>2, <2>2
<1> QED
  BY <1>3, <1>4, <1>5, <1>6, <1>7, <1>8, <1>9 DEF Statements

LEMMA RowMovesParts ==
  ASSUME PartsKnowing, RowMoves, mode' = mode, told' = told, SyncsKept,
         \A label, l : Active(label, l)' => Active(label, l) \/ KnowsParts(label, l)'
  PROVE  PartsKnowing'
<1>1. WriteKeys' = WriteKeys
  BY DEF WriteKeys
<1>2. ToldFits'
  BY <1>1 DEF PartsKnowing, ToldFits, RowMoves
<1>3. \A label, l : Active(label, l)' => KnowsParts(label, l)'
  BY DEF PartsKnowing, RowMoves
<1> QED
  BY <1>2, <1>3 DEF PartsKnowing, RowMoves

\* A process runs its statement and goes on.
LEMMA StatementParts ==
  ASSUME TypeInv, Knowing, PartsKnowing, NEW i \in Procs, NEW op \in Statements, pc[i] = op,
         StoreStill, UNCHANGED <<late, told>>, row' = RowAfter(op, loc[i]),
         row.status # "gone", row'.status # "gone",
         NEW label, NEW l, Goto(i, label, l), KnowsParts(label, l)'
  PROVE  PartsKnowing'
<1>1. loc[i] \in Locals /\ mode' = mode /\ op # "put_sync"
  BY DEF TypeInv, ControlTyped, StoreStill, Statements
<1>2. KnowsParts(op, loc[i]) /\ Knows(op, loc[i], mode, row, obj[Blob], Disk)
  BY KnownHere DEF Knowing
<1>3. RowMoves
  BY <1>1, <1>2, StatementMoves
<1>4. SyncsKept
  BY <1>1, GotoSyncs DEF Synced
<1>5. \A lab, m : Active(lab, m)' => Active(lab, m) \/ KnowsParts(lab, m)'
  BY GotoActive
<1> QED
  BY <1>1, <1>3, <1>4, <1>5, RowMovesParts

\* An answer names bytes that are stored, or that have been published.
LEMMA AckReplies ==
  ASSUME TypeInv, Knowing, PartsKnowing, StoreStill, NEW op \in {"put_ack", "rec_ack"},
         NEW l \in Locals, row' = RowAfter(op, l),
         IF op = "put_ack" THEN CanAck(row, l) ELSE CanRecord(row, l),
         KnowsParts(op, l), Knows(op, l, mode, row, obj[Blob], Disk)
  PROVE  KnowsParts("put_reply", l)'
<1>1. /\ row \in RowType /\ row.ack \in [Keys -> Ack] /\ l.key \in Keys /\ l.key \in WriteKeys
      /\ WriteKeys' = WriteKeys
  BY HereStill DEF TypeInv, RowType, Locals, KnowsParts, PartGuard
<1>2. /\ row'.status = row.status /\ row'.published = row.published
      /\ row'.ack[l.key] = l.ack
  BY <1>1 DEF RowAfter, Acked, Recorded, RowType
<1>3. Pending(row)' = Pending(row)
  BY <1>2 DEF Pending
<1>4. CASE l.key = Blob
  <2>1. op = "put_ack"
    BY <1>4, BlobApart DEF Knows
  <2>2. Sound(l.ack, obj[Blob], Disk)
    BY <1>4, <2>1 DEF Knows
  <2>3. obj[Blob].content \in Contents /\ None \notin Contents
    BY <1>1, <1>4, <2>2, PartKey, SessionAssumption DEF Knowing, BodySettled, Body, Sound
  <2>4. l.ack.hash # None
    BY <2>2, <2>3 DEF Sound, AckOf
  <2>5. Answered(l.key, l.ack.hash)'
    BY <1>2, <1>4, <2>4 DEF Answered
  <2> QED  BY <1>1, <2>5 DEF KnowsParts, PartGuard
<1>5. CASE l.key # Blob
  <2>1. l.ack.hash # None /\ Holds(l.key, l.ack.hash)
    BY <1>5 DEF KnowsParts, PartGuard, PutKnowsPart
  <2>2. Answered(l.key, l.ack.hash)'
    BY <1>2, <1>3, <1>5, <2>1 DEF Answered, Holds
  <2> QED  BY <1>1, <2>2 DEF KnowsParts, PartGuard
<1> QED
  BY <1>4, <1>5

LEMMA AckParts ==
  ASSUME TypeInv, Knowing, PartsKnowing, NEW i \in Clients, PutAck(i) \/ RecordAck(i),
         row.status # "gone", row'.status # "gone"
  PROVE  PartsKnowing'
<1>1. i \in Procs /\ loc[i] \in Locals
  BY DEF Procs, TypeInv, ControlTyped
<1>2. PICK op : op = pc[i]
  OBVIOUS
<1>3. /\ op \in {"put_ack", "rec_ack"} /\ row' = RowAfter(op, loc[i])
      /\ StoreStill /\ UNCHANGED <<late, told>>
      /\ IF IF op = "put_ack" THEN CanAck(row, loc[i]) ELSE CanRecord(row, loc[i])
         THEN Goto(i, "put_reply", loc[i]) ELSE Stop(i)
  BY <1>2 DEF PutAck, RecordAck, StoreStill, store, history
<1>4. KnowsParts(op, loc[i]) /\ Knows(op, loc[i], mode, row, obj[Blob], Disk)
  BY <1>1, <1>2, KnownHere DEF Knowing
<1>5. op \in Statements
  BY <1>3 DEF Statements
<1>6. CASE IF op = "put_ack" THEN CanAck(row, loc[i]) ELSE CanRecord(row, loc[i])
  <2>1. PICK l : l = loc[i]
    OBVIOUS
  <2>2. KnowsParts("put_reply", l)'
    <3>1. l \in Locals /\ row' = RowAfter(op, l)
      BY <1>1, <1>3, <2>1
    <3> QED  BY <1>3, <1>4, <1>6, <2>1, <3>1, AckReplies
  <2>3. Goto(i, "put_reply", l)
    BY <1>3, <1>6, <2>1
  <2> QED  BY <1>1, <1>2, <1>3, <1>5, <2>2, <2>3, StatementParts
<1>7. CASE ~(IF op = "put_ack" THEN CanAck(row, loc[i]) ELSE CanRecord(row, loc[i]))
  <2>1. Goto(i, "idle", NoLoc)
    BY <1>3, <1>7 DEF Stop
  <2>2. KnowsParts("idle", NoLoc)'
    BY PlainKnows DEF Plain, PartGuard
  <2> QED  BY <1>1, <1>2, <1>3, <1>5, <2>1, <2>2, StatementParts
<1> QED
  BY <1>6, <1>7

LEMMA FinishStatementParts ==
  ASSUME TypeInv, Knowing, PartsKnowing, NEW i \in Procs,
         FinishFreeze(i) \/ FinishStage(i) \/ FinishCommit(i) \/ FinishMark(i),
         row.status # "gone", row'.status # "gone"
  PROVE  PartsKnowing'
<1>1. PICK op, m : op = pc[i] /\ m = loc[i]
  OBVIOUS
<1>2. /\ op \in {"fin_freeze", "fin_stage", "fin_commit", "fin_mark"} /\ row' = RowAfter(op, m)
      /\ StoreStill /\ UNCHANGED <<late, told>>
      /\ \E label \in {"fin_head", "fin_verify", "fin_clean", "fin_reply", "idle"} :
           \E l : /\ Goto(i, label, l)
                  /\ label = "fin_head" => op = "fin_freeze" /\ Receiving(row)
  BY <1>1
  DEF FinishFreeze, FinishStage, FinishCommit, FinishMark, StoreStill, store, history, Stop
<1>3. PICK label, l :
        /\ label \in {"fin_head", "fin_verify", "fin_clean", "fin_reply", "idle"}
        /\ Goto(i, label, l) /\ (label = "fin_head" => op = "fin_freeze" /\ Receiving(row))
  BY <1>2
<1>4. op \in Statements
  BY <1>2 DEF Statements
<1>5. KnowsParts(label, l)'
  <2>1. CASE label = "fin_head"
    <3>1. row' = Frozen(row, m) /\ row \in RowType
      BY <1>2, <1>3, <2>1 DEF RowAfter, TypeInv
    <3>2. row'.commit_state = "assembling"
      BY <1>3, <2>1, <3>1 DEF Frozen, RowType
    <3> QED  BY <2>1, <3>2 DEF KnowsParts, PartGuard
  <2>2. CASE label # "fin_head"
    BY <1>3, <2>2, PlainKnows DEF Plain, PartGuard
  <2> QED  BY <2>1, <2>2
<1> QED
  BY <1>1, <1>2, <1>3, <1>4, <1>5, StatementParts

\* A statement whose request is gone.
LEMMA LandParts ==
  ASSUME TypeInv, Knowing, PartsKnowing, NEW call \in late, Land(call), Calm',
         row.status # "gone", row'.status # "gone"
  PROVE  PartsKnowing'
<1>1. PICK op, l : op = call.op /\ l = call.loc
  OBVIOUS
<1>2. call = [op |-> op, loc |-> l] /\ op \in Statements /\ l \in Locals
  BY <1>1 DEF TypeInv, LateTyped, Land, Calm
<1>3. op \notin Renames
  BY <1>1 DEF Land, Calm
<1>4. /\ StoreStill /\ told' = told /\ UNCHANGED <<pc, loc>> /\ late' \subseteq late
      /\ row' = RowAfter(op, l)
  BY <1>1, <1>3 DEF Land, control, StoreStill
<1>5. KnowsParts(op, l)
  BY <1>2 DEF PartsKnowing, Active
<1>6. Knows(op, l, mode, row, obj[Blob], Disk)
  BY <1>1, <1>2 DEF Knowing
<1>7. RowMoves
  BY <1>2, <1>4, <1>5, <1>6, StatementMoves
<1>8. SyncsKept
  BY <1>4 DEF SyncsKept
<1>9. \A lab, m : Active(lab, m)' => Active(lab, m)
  BY <1>4 DEF Active
<1> QED
  BY <1>4, <1>7, <1>8, <1>9, RowMovesParts DEF StoreStill

-----------------------------------------------------------------------------
(* Files appear.                                                           *)

\* The body of a single upload.
LEMMA BodyMadeParts ==
  ASSUME TypeInv, Knowing, PartsKnowing, NEW i \in Procs, NEW l, Goto(i, "put_sync", l),
         pc[i] = "put_rename", loc[i] = l, l.key = Blob, mode = "single", obj[Blob] = Absent,
         UNCHANGED <<mode, row, durable, late, told, upset>>,
         \A k \in Keys : obj'[k] = IF k = Blob THEN l.version ELSE obj[k]
  PROVE  PartsKnowing'
<1>1. /\ WriteKeys = {Blob} /\ WriteKeys' = {Blob} /\ Blob \in Keys /\ Pending(row)' = Pending(row)
      /\ \A p \in Parts : p \in Keys /\ obj'[p] = obj[p]
  BY PartKey, BlobApart DEF WriteKeys
<1>2. SessionFits'
  BY <1>1 DEF PartsKnowing, SessionFits
<1>3. ToldFits'
  BY <1>1 DEF PartsKnowing, ToldFits, Answered
<1>4. ASSUME NEW label, NEW m, KnowsParts(label, m)  PROVE KnowsParts(label, m)'
  <2>1. label = "fin_freeze" => ~Pending(row)
    BY <1>4 DEF KnowsParts, Complete
  <2>2. label = "put_reply" => Answered(m.key, m.ack.hash)'
    BY <1>1, <1>4 DEF KnowsParts, Answered
  <2> QED  BY <1>1, <1>4, <2>1, <2>2 DEF KnowsParts
<1>5. KnowsParts("put_sync", l)'
  BY <1>1 DEF KnowsParts
<1> QED
  BY <1>2, <1>3, <1>4, <1>5, GotoActive DEF PartsKnowing

\* A part, while nobody knows of bytes for it.
LEMMA PartMadeKnows ==
  ASSUME mode = "multipart", Pending(row), NEW p \in Parts, obj[p] = Absent,
         UNCHANGED <<mode, row, durable, upset>>, NEW v,
         \A k \in Keys : obj'[k] = IF k = p THEN v ELSE obj[k],
         NEW label, NEW l, KnowsParts(label, l),
         ~(label \in {"put_accept", "put_rename", "put_sync"} /\ l.key = p)
  PROVE  KnowsParts(label, l)'
<1>1. /\ WriteKeys' = WriteKeys /\ Pending(row)' = Pending(row) /\ WriteKeys = Parts
      /\ Torn' = Torn
  BY DEF WriteKeys, Torn
<1>2. \A q \in Parts : q # p =>
        /\ obj'[q] = obj[q] /\ (Here(q) => Here(q)')
        /\ \A h : Holds(q, h) => Holds(q, h)'
  BY <1>1, PartKey DEF Here, Holds
<1>3. ASSUME label \in PartGuard, l.key # Blob
      PROVE  PutKnowsPart(label, l, l.key)'
  <2>1. l.key \in Parts /\ PutKnowsPart(label, l, l.key)
    BY <1>1, <1>3 DEF KnowsParts
  <2>2. CASE l.key = p
    BY <1>3, <2>1, <2>2 DEF PutKnowsPart, Holds, Here, PartGuard
  <2>3. CASE l.key # p
    BY <1>1, <1>2, <2>1, <2>3 DEF PutKnowsPart
  <2> QED  BY <2>2, <2>3
<1>4. label = "put_reply" => Answered(l.key, l.ack.hash)'
  BY <1>1 DEF KnowsParts, Answered
<1>5. label # "fin_freeze" /\ label # "fin_rename"
  BY DEF KnowsParts, Complete, Here
<1> QED
  BY <1>1, <1>3, <1>4, <1>5 DEF KnowsParts

LEMMA PartMadeParts ==
  ASSUME TypeInv, Guarded, Knowing, PartsKnowing, NEW i \in Procs, NEW l,
         Goto(i, "put_sync", l), pc[i] = "put_rename", loc[i] = l, NEW p \in Parts, l.key = p,
         mode = "multipart", Pending(row), KnowsParts("put_rename", l),
         UNCHANGED <<mode, row, durable, late, told, upset>>,
         \A k \in Keys : obj'[k] = IF k = p THEN l.version ELSE obj[k]
  PROVE  PartsKnowing'
<1>1. /\ row.commit_state = "receiving" /\ row.ack[p] = NoAck /\ obj[p] = Absent
      /\ l.version # Absent /\ p \in Keys /\ p # Blob /\ Blob \in Keys /\ NoAck.hash = None
  BY PartKey, BlobApart DEF KnowsParts, PartGuard, PutKnowsPart, NoAck
<1>2. /\ Pending(row)' /\ WriteKeys' = WriteKeys /\ Torn' = Torn /\ Frail' = Frail
  BY DEF Pending, WriteKeys, Torn, Frail
<1>3. \A j \in Procs : /\ pc'[j] = IF j = i THEN "put_sync" ELSE pc[j]
                       /\ loc'[j] = IF j = i THEN l ELSE loc[j]
  BY DEF Goto, TypeInv, ControlTyped
<1>4. ASSUME NEW q \in Parts  PROVE PartFits(q)'
  <2>1. PartFits(q)
    BY DEF PartsKnowing, SessionFits
  <2>2. CASE q = p
    <3>1. \E j \in Procs : pc'[j] = "put_sync" /\ loc'[j].key = q
      BY <1>3, <2>2
    <3>2. obj'[Blob] = Absent
      BY <1>1, <2>1 DEF PartFits
    <3> QED  BY <1>1, <2>2, <3>1, <3>2 DEF PartFits
  <2>3. CASE q # p
    <3>1. obj'[q] = obj[q] /\ (Here(q)' <=> Here(q)) /\ (Lost(q)' <=> Lost(q)) /\ obj'[Blob] = obj[Blob]
      BY <1>1, <1>2, <2>3, PartKey DEF Here, Lost
    <3> DEFINE Safe == \/ Torn' \/ obj'[q] = Absent \/ durable'[q] = obj'[q]
                       \/ \E j \in Procs : pc'[j] = "put_sync" /\ loc'[j].key = q
    <3>2. Safe
      BY <1>2, <1>3, <2>1, <2>3, <3>1 DEF PartFits
    <3> QED  BY <2>1, <3>1, <3>2 DEF PartFits
  <2> QED  BY <2>2, <2>3
<1>5. \A k \in Keys : durable'[k] \in {Absent, obj'[k]}
  BY <1>1 DEF PartsKnowing, SessionFits
<1>6. SessionFits'
  BY <1>2, <1>4, <1>5 DEF SessionFits
<1>7. ToldFits'
  BY <1>2 DEF PartsKnowing, ToldFits, Answered
<1>8. ASSUME NEW label, NEW m, Active(label, m)'  PROVE KnowsParts(label, m)'
  <2>1. CASE label = "put_sync" /\ m = l
    <3>1. PutKnowsPart("put_sync", l, p)'
      BY <1>1, <1>2 DEF PutKnowsPart
    <3>2. l.key \in WriteKeys'
      BY <1>2 DEF WriteKeys
    <3> QED  BY <2>1, <3>1, <3>2 DEF KnowsParts
  <2>2. ASSUME NEW j \in Procs, j # i, pc[j] = label, loc[j] = m
        PROVE  KnowsParts(label, m)'
    <3>1. ~(label \in {"put_accept", "put_rename", "put_sync"} /\ m.key = p)
      BY <2>2 DEF Guarded, PartGuard
    <3>2. KnowsParts(label, m)
      BY <2>2, KnownHere
    <3> QED  BY <1>1, <3>1, <3>2, PartMadeKnows
  <2>3. ASSUME label \in Statements, [op |-> label, loc |-> m] \in late
        PROVE  KnowsParts(label, m)'
    <3>1. KnowsParts(label, m)
      BY <2>3 DEF PartsKnowing, Active
    <3>2. label \notin {"put_accept", "put_rename", "put_sync"}
      BY <2>3 DEF Statements
    <3> QED  BY <1>1, <3>1, <3>2, PartMadeKnows
  <2> QED  BY <1>3, <1>8, <2>1, <2>2, <2>3 DEF Active
<1> QED
  BY <1>6, <1>7, <1>8 DEF PartsKnowing

LEMMA PutRenameParts ==
  ASSUME TypeInv, Guarded, Knowing, PartsKnowing, NEW i \in Clients, PutRename(i),
         row.status # "gone"
  PROVE  PartsKnowing'
<1>1. i \in Procs
  BY DEF Procs
<1>2. PICK l : loc[i] = l
  OBVIOUS
<1>3. /\ pc[i] = "put_rename" /\ Goto(i, "put_sync", l)
      /\ UNCHANGED <<mode, row, durable, late, told, upset>>
      /\ \A k \in Keys : obj'[k] = IF k = l.key THEN l.version ELSE obj[k]
  BY <1>2 DEF PutRename, session, history, TypeInv, StoreTyped
<1>4. KnowsParts("put_rename", l) /\ KnowsNow("put_rename", l)
  BY <1>1, <1>2, <1>3, KnownHere DEF Knowing, KnowsNow
<1>5. CASE l.key = Blob
  <2>1. mode = "single" /\ obj[Blob] = Absent
    BY <1>4, <1>5 DEF KnowsNow, Knows
  <2> QED  BY <1>1, <1>2, <1>3, <1>5, <2>1, BodyMadeParts
<1>6. CASE l.key # Blob
  <2>1. l.key \in Parts /\ mode = "multipart" /\ row.commit_state = "receiving"
    BY <1>4, <1>6, PartKey, PartMode DEF KnowsParts, PartGuard, PutKnowsPart
  <2>2. Pending(row)
    BY <2>1 DEF Knowing, RowSound, Pending, TypeInv, RowType
  <2>3. PICK p \in Parts : p = l.key
    BY <2>1
  <2> QED  BY <1>1, <1>2, <1>3, <1>4, <2>1, <2>2, <2>3, PartMadeParts
<1> QED
  BY <1>5, <1>6

\* The object, which is put together from the parts.
LEMMA FinishRenameParts ==
  ASSUME TypeInv, Knowing, PartsKnowing, NEW i \in Procs, FinishRename(i),
         row.status # "gone"
  PROVE  PartsKnowing'
<1>1. PICK l : loc[i] = l
  OBVIOUS
<1>2. /\ pc[i] = "fin_rename" /\ Goto(i, "fin_settle", l)
      /\ UNCHANGED <<mode, row, durable, late, told, upset>>
      /\ \A k \in Keys : obj'[k] = IF k = Blob THEN l.version ELSE obj[k]
  BY <1>1 DEF FinishRename, session, history, TypeInv, StoreTyped
<1>3. KnowsParts("fin_rename", l) /\ KnowsNow("fin_rename", l)
  BY <1>1, <1>2, KnownHere DEF Knowing, KnowsNow
<1>4. mode = "multipart" /\ obj[Blob] = Absent
  BY <1>3 DEF KnowsNow, Knows
<1>5. Pending(row)
  BY <1>4 DEF Knowing, RowSound, Sound, Pending, TypeInv, RowType
<1>6. /\ row.commit_state # "receiving"
      /\ \A p \in Parts : obj[p] # Absent /\ l.version.content[p] = obj[p].content
  BY <1>3, <1>5 DEF KnowsParts
<1>7. /\ Pending(row)' /\ WriteKeys' = WriteKeys /\ Torn' = Torn /\ Frail' = Frail
      /\ Blob \in Keys /\ obj'[Blob] = l.version /\ NoAck.hash = None
      /\ \A p \in Parts : obj'[p] = obj[p] /\ (Here(p)' <=> Here(p)) /\ (Lost(p)' <=> Lost(p))
  BY <1>2, <1>5, PartKey, BlobApart DEF Pending, WriteKeys, Torn, Frail, Here, Lost, NoAck
<1>8. SyncsKept
  BY <1>2, GotoSyncs DEF Synced
<1>9. ASSUME NEW q \in Parts  PROVE PartFits(q)'
  <2>1. PartFits(q)
    BY <1>4, <1>5 DEF PartsKnowing, SessionFits
  <2> DEFINE Safe == \/ Torn' \/ obj'[q] = Absent \/ durable'[q] = obj'[q]
                     \/ \E j \in Procs : pc'[j] = "put_sync" /\ loc'[j].key = q
  <2>2. Safe
    BY <1>2, <1>7, <1>8, <2>1 DEF PartFits, SyncsKept
  <2>3. row.ack[q].hash \in {None, obj[q].content}
    BY <1>6, <1>7, <2>1 DEF PartFits, Lost
  <2>4. obj'[q] = obj[q] /\ (Here(q)' <=> Here(q)) /\ (Lost(q)' <=> Lost(q))
    BY <1>7
  <2>5. row' = row /\ obj'[Blob].content[q] = obj[q].content
    BY <1>2, <1>6, <1>7
  <2> HIDE DEF Safe
  <2> QED  BY <1>6, <2>1, <2>2, <2>3, <2>4, <2>5 DEF PartFits, Safe
<1>10. \A k \in Keys : durable'[k] \in {Absent, obj'[k]}
  BY <1>2, <1>4, <1>5 DEF PartsKnowing, SessionFits
<1>11. SessionFits'
  BY <1>2, <1>4, <1>7, <1>9, <1>10 DEF SessionFits
<1>12. ToldFits'
  BY <1>2, <1>7 DEF PartsKnowing, ToldFits, Answered, Pending
<1>13. ASSUME NEW label, NEW m, KnowsParts(label, m)  PROVE KnowsParts(label, m)'
  <2>1. /\ row' = row /\ mode' = mode /\ Pending(row)' = Pending(row) /\ WriteKeys = Parts
        /\ \A p \in Parts : \A h : Holds(p, h)' <=> Holds(p, h)
    BY <1>2, <1>4, <1>5, <1>7 DEF WriteKeys, Holds
  <2>2. Complete(m)' <=> Complete(m)
    BY <1>4, <1>7, <2>1 DEF Complete
  <2>3. ASSUME label \in PartGuard, m.key # Blob
        PROVE  PutKnowsPart(label, m, m.key)'
    <3>1. m.key \in Parts /\ PutKnowsPart(label, m, m.key)
      BY <1>13, <2>1, <2>3 DEF KnowsParts
    <3>2. obj'[m.key] = obj[m.key] /\ \A h : Holds(m.key, h)' <=> Holds(m.key, h)
      BY <1>7, <2>1, <3>1
    <3> QED  BY <2>1, <3>1, <3>2 DEF PutKnowsPart
  <2>4. label = "put_reply" => Answered(m.key, m.ack.hash)'
    BY <1>13, <2>1 DEF KnowsParts, Answered
  <2> QED  BY <1>7, <1>13, <2>1, <2>2, <2>3, <2>4 DEF KnowsParts
<1>14. KnowsParts("fin_settle", l)'
  BY PlainKnows DEF Plain, PartGuard
<1>15. \A label, m : Active(label, m)' => Active(label, m) \/ (label = "fin_settle" /\ m = l)
  BY <1>2, GotoActive
<1> QED
  BY <1>11, <1>12, <1>13, <1>14, <1>15 DEF PartsKnowing

-----------------------------------------------------------------------------
(* Completion, and what ends a request.                                    *)

LEMMA FinishBeginParts ==
  ASSUME TypeInv, Knowing, PartsKnowing, NEW i \in Procs, NEW explicit, FinishBegin(i, explicit)
  PROVE  PartsKnowing'
<1> DEFINE record == [NoLoc EXCEPT !.ack = row.ack[Blob]]
           listed == [record EXCEPT !.list = [p \in Parts |-> obj[p].stamp]]
<1>1. \A p \in Parts : listed.list[p] = obj[p].stamp
  BY DEF NoLoc
<1>2. /\ pc[i] = "idle" /\ WriteFree /\ UNCHANGED <<mode, row, obj, durable, late, told, upset>>
      /\ \/ Goto(i, "fin_clean", record)
         \/ Goto(i, "fin_freeze", listed) /\ mode = "multipart" /\ PartsVerified(explicit)
         \/ Goto(i, "fin_freeze", record) /\ mode = "single" /\ obj[Blob] # Absent
         \/ Goto(i, "fin_head", record) /\ row.commit_state = "assembling"
         \/ Goto(i, "fin_verify", record)
  BY DEF FinishBegin, Stored, session, store, history
<1>3. SameSession /\ SameStore /\ HazardsKept /\ Synced(i)
  BY <1>2 DEF SameSession, SameStore, HazardsKept, Synced
<1>4. \A j \in Procs : pc[j] # "put_sync"
  BY <1>2 DEF WriteFree, PartGuard
<1> HIDE DEF record, listed
<1>5. ASSUME NEW to, NEW l, Goto(i, to, l), KnowsParts(to, l)  PROVE PartsKnowing'
  <2>1. KnowsParts(to, l)'
    BY <1>3, <1>5, StillKnows
  <2> QED  BY <1>2, <1>3, <1>5, <2>1, GotoParts
<1>6. KnowsParts("fin_clean", record) /\ KnowsParts("fin_verify", record)
  BY DEF KnowsParts, PartGuard
<1>7. row.commit_state = "assembling" => KnowsParts("fin_head", record)
  BY DEF KnowsParts, PartGuard
<1>8. mode = "multipart" /\ PartsVerified(explicit) => KnowsParts("fin_freeze", listed)
  <2> SUFFICES ASSUME mode = "multipart", PartsVerified(explicit), Pending(row)
               PROVE  Complete(listed)
    BY DEF KnowsParts, PartGuard
  <2>1. ASSUME NEW p \in Parts  PROVE Here(p)
    BY <1>4, Landed DEF PartsVerified, Stored
  <2> QED  BY <1>1, <2>1 DEF Complete
<1>9. mode = "single" /\ obj[Blob] # Absent => KnowsParts("fin_freeze", record)
  <2> SUFFICES ASSUME mode = "single", obj[Blob] # Absent  PROVE Disk = obj[Blob]
    BY DEF KnowsParts, PartGuard, Complete
  <2> QED  BY <1>4 DEF Knowing, BodySettled
<1> QED
  BY <1>2, <1>5, <1>6, <1>7, <1>8, <1>9

LEMMA FinishMoveParts ==
  ASSUME TypeInv, PartsKnowing, NEW i \in Procs,
         \/ FinishReuse(i) \/ FinishSync(i) \/ FinishCheckParts(i) \/ FinishRead(i)
         \/ FinishSettle(i) \/ FinishVerify(i) \/ FinishReply(i)
  PROVE  PartsKnowing'
<1>1. PICK here, m : pc[i] = here /\ loc[i] = m
  OBVIOUS
<1>2. KnowsParts(here, m) /\ m \in Locals
  BY <1>1, KnownHere DEF TypeInv, ControlTyped
<1>3. /\ here \notin PartGuard /\ UNCHANGED <<mode, row, obj, late, told, upset>>
      /\ durable' = durable \/ SyncDirectory(Blob)
  BY <1>1
  DEF FinishReuse, FinishSync, FinishCheckParts, FinishRead, FinishSettle, FinishVerify,
      FinishReply, session, store, history, PartGuard
<1>4. SameSession /\ SameStore /\ HazardsKept /\ Synced(i)
  BY <1>1, <1>3
  DEF SameSession, SameStore, HazardsKept, Synced, SyncDirectory, Siblings, PartGuard
<1>5. ASSUME NEW to, NEW l, Goto(i, to, l), KnowsParts(to, l)'  PROVE PartsKnowing'
  BY <1>3, <1>4, <1>5, GotoParts
<1>6. ASSUME NEW to, NEW l, Goto(i, to, l), Plain(to)  PROVE PartsKnowing'
  BY <1>5, <1>6, PlainKnows
<1>7. Plain("fin_stage") /\ Plain("fin_sync") /\ Plain("fin_commit") /\ Plain("idle")
  BY DEF Plain, PartGuard
<1>8. CASE \/ FinishReuse(i) \/ FinishSync(i) \/ FinishSettle(i) \/ FinishVerify(i)
           \/ FinishReply(i)
  <2>1. \E to \in {"fin_stage", "fin_sync", "fin_commit", "idle"} : \E l : Goto(i, to, l)
    BY <1>8 DEF FinishReuse, FinishSync, FinishSettle, FinishVerify, FinishReply, Stop
  <2> QED  BY <1>6, <1>7, <2>1
<1>9. CASE FinishCheckParts(i)
  <2>1. here = "fin_head" /\ Goto(i, "fin_read", m)
    BY <1>1, <1>9 DEF FinishCheckParts
  <2>2. row'.commit_state # "receiving"
    BY <1>2, <1>3, <2>1 DEF KnowsParts
  <2>3. KnowsParts("fin_read", m)'
    BY <2>2 DEF KnowsParts, PartGuard
  <2> QED  BY <1>5, <2>1, <2>3
<1>10. CASE FinishRead(i)
  <2>1. PICK l : /\ Goto(i, "fin_rename", l)
                 /\ \A p \in Parts : l.version.content[p] = obj[p].content
    <3> DEFINE r == [m EXCEPT !.key = Blob,
                              !.version = [content |-> [p \in Parts |-> obj[p].content],
                                           stamp |-> clock + 1]]
    <3>1. \A p \in Parts : r.version.content[p] = obj[p].content
      BY <1>2 DEF Locals
    <3>2. Goto(i, "fin_rename", r)
      BY <1>1, <1>10 DEF FinishRead
    <3> HIDE DEF r
    <3> QED  BY <3>1, <3>2
  <2>2. here = "fin_read" /\ \A p \in Parts : obj[p] # Absent
    BY <1>1, <1>10 DEF FinishRead, Stored
  <2>3. row'.commit_state # "receiving"
    BY <1>2, <1>3, <2>2 DEF KnowsParts
  <2>4. KnowsParts("fin_rename", l)'
    BY <1>3, <2>1, <2>2, <2>3 DEF KnowsParts, PartGuard
  <2> QED  BY <1>5, <2>1, <2>4
<1> QED
  BY <1>8, <1>9, <1>10

\* After the commit parts are removed, and nobody needs them.
LEMMA CleanParts ==
  ASSUME TypeInv, Settled, Knowing, PartsKnowing, NEW i \in Procs,
         FinishClean(i) \/ CleanupFails(i)
  PROVE  PartsKnowing'
<1>1. pc[i] = "fin_clean"
  BY DEF FinishClean, CleanupFails, Knowing, Knows
<1>2. row.status = "completed" /\ row.commit_state = "staged" /\ ~Pending(row)
  BY <1>1 DEF Settled, Witnessed, Knowing, RowSound, Pending
<1>3. /\ UNCHANGED <<mode, row, durable, late, told, upset>>
      /\ \E to \in {"fin_mark", "fin_reply"} : \E l : Goto(i, to, l)
      /\ \A p \in Parts : obj'[p] \in {Absent, obj[p]}
  BY <1>1, PartKey DEF FinishClean, CleanupFails, RemoveParts, session, history
<1>4. /\ WriteKeys' = WriteKeys /\ Pending(row)' = Pending(row)
  BY <1>3 DEF WriteKeys
<1>5. SessionFits'
  BY <1>2, <1>3 DEF PartsKnowing, SessionFits, Pending
<1>6. ToldFits'
  BY <1>3, <1>4 DEF PartsKnowing, ToldFits, Answered
<1>7. ASSUME NEW label, NEW m, KnowsParts(label, m)  PROVE KnowsParts(label, m)'
  <2>1. ASSUME label \in PartGuard, m.key # Blob
        PROVE  PutKnowsPart(label, m, m.key)'
    <3>1. m.key \in Parts /\ PutKnowsPart(label, m, m.key)
      BY <1>7, <2>1, PartKey DEF KnowsParts
    <3>2. obj[m.key] = Absent => obj'[m.key] = Absent
      BY <1>3, <3>1
    <3> QED  BY <1>2, <1>3, <1>4, <3>1, <3>2 DEF PutKnowsPart, Holds
  <2>2. label = "put_reply" => Answered(m.key, m.ack.hash)'
    BY <1>3, <1>4, <1>7 DEF KnowsParts, Answered
  <2> QED  BY <1>2, <1>3, <1>4, <1>7, <2>1, <2>2 DEF KnowsParts
<1>8. PICK to, l : to \in {"fin_mark", "fin_reply"} /\ Goto(i, to, l)
  BY <1>3
<1>9. KnowsParts(to, l)'
  BY <1>8, PlainKnows DEF Plain, PartGuard
<1>10. \A label, m : Active(label, m)' => Active(label, m) \/ (label = to /\ m = l)
  BY <1>3, <1>8, GotoActive
<1> QED
  BY <1>5, <1>6, <1>7, <1>9, <1>10 DEF PartsKnowing

LEMMA AbortStepParts ==
  ASSUME TypeInv, Knowing, PartsKnowing, NEW i \in Procs,
         \/ AbortStep(i) \/ AbortCompleted(i)
         \/ \E expired_only : AbortBegin(i, expired_only)
         \/ i = Maintenance /\ (SweepLoad \/ SweepBegin \/ SweepTx),
         row.status # "gone", row'.status # "gone"
  PROVE  PartsKnowing'
<1>1. CASE AbortTx(i) \/ (i = Maintenance /\ SweepTx)
  <2>1. PICK op : op = pc[i]
    OBVIOUS
  <2>2. /\ op \in {"abort_tx", "reclaim_tx", "sweep_tx"} /\ row' = RowAfter(op, loc[i])
        /\ StoreStill /\ UNCHANGED <<late, told>>
        /\ \E to \in {"abort_parts", "idle"} : \E l : Goto(i, to, l)
    BY <1>1, <2>1 DEF AbortTx, SweepTx, Stop, StoreStill, store, history
  <2>3. PICK to, l : to \in {"abort_parts", "idle"} /\ Goto(i, to, l)
    BY <2>2
  <2>4. KnowsParts(to, l)'
    BY <2>3, PlainKnows DEF Plain, PartGuard
  <2>5. op \in Statements
    BY <2>2 DEF Statements
  <2> QED  BY <2>1, <2>2, <2>3, <2>4, <2>5, StatementParts
<1>2. CASE AbortParts(i) \/ AbortBlob(i)
  BY <1>2 DEF AbortParts, AbortBlob, Knowing, Knows
<1>3. CASE \/ AbortReply(i) \/ AbortCompleted(i) \/ \E expired_only : AbortBegin(i, expired_only)
           \/ i = Maintenance /\ (SweepLoad \/ SweepBegin)
  <2>1. /\ UNCHANGED <<mode, row, obj, durable, late, told, upset>> /\ pc[i] # "put_sync"
        /\ \E to \in {"reclaim_tx", "abort_tx", "abort_reply", "sweep_wait", "sweep_tx", "idle"} :
             \E l : Goto(i, to, l)
    BY <1>3
    DEF AbortReply, AbortCompleted, AbortBegin, SweepLoad, SweepBegin, Stop, session, store,
        history
  <2>2. PICK to, l :
          /\ to \in {"reclaim_tx", "abort_tx", "abort_reply", "sweep_wait", "sweep_tx", "idle"}
          /\ Goto(i, to, l)
    BY <2>1
  <2>3. KnowsParts(to, l)'
    BY <2>2, PlainKnows DEF Plain, PartGuard
  <2>4. SameSession /\ SameStore /\ HazardsKept /\ Synced(i)
    BY <2>1 DEF SameSession, SameStore, HazardsKept, Synced
  <2> QED  BY <2>1, <2>2, <2>3, <2>4, GotoParts
<1> QED
  BY <1>1, <1>2, <1>3 DEF AbortStep

LEMMA InterruptParts ==
  ASSUME TypeInv, PartsKnowing, NEW i \in Procs, Interrupt(i)
  PROVE  PartsKnowing'
<1>1. \A j \in Procs : /\ pc'[j] = IF j = i THEN "idle" ELSE pc[j]
                       /\ loc'[j] = IF j = i THEN NoLoc ELSE loc[j]
  BY DEF Interrupt, Stop, Goto, TypeInv, ControlTyped
<1>2. UNCHANGED <<mode, row, obj, durable, told>> /\ upset \subseteq upset'
  BY DEF Interrupt, session, store
<1>3. SameSession /\ SameStore /\ HazardsKept
  BY <1>2 DEF SameSession, SameStore, HazardsKept
<1>4. pc[i] = "put_sync" => Torn'
  BY DEF Interrupt, Torn
<1>5. SyncsKept
  BY <1>1, <1>4 DEF SyncsKept
<1>6. KnowsParts("idle", NoLoc)'
  BY PlainKnows DEF Plain, PartGuard
<1>7. \A call \in late' : call \in late \/ call = [op |-> pc[i], loc |-> loc[i]]
  BY DEF Interrupt
<1>8. \A label, l : Active(label, l)' => Active(label, l) \/ (label = "idle" /\ l = NoLoc)
  BY <1>1, <1>7 DEF Active
<1>9. \A label, l : Active(label, l)' => Active(label, l) \/ KnowsParts(label, l)'
  BY <1>6, <1>8
<1> QED
  BY <1>2, <1>3, <1>5, <1>9, StillParts

LEMMA RefuseParts ==
  ASSUME TypeInv, PartsKnowing, NEW i \in Procs, Refuse(i)
  PROVE  PartsKnowing'
<1>1. Goto(i, "idle", NoLoc) /\ UNCHANGED <<mode, row, obj, durable, late, told, upset>>
  BY DEF Refuse, Stop, session, store, history
<1>2. SameSession /\ SameStore /\ HazardsKept
  BY <1>1 DEF SameSession, SameStore, HazardsKept
<1>3. Synced(i)
  BY <1>1 DEF Refuse, Synced, Stored
<1>4. KnowsParts("idle", NoLoc)'
  BY PlainKnows DEF Plain, PartGuard
<1> QED
  BY <1>1, <1>2, <1>3, <1>4, GotoParts

LEMMA AsideParts ==
  ASSUME TypeInv, PartsKnowing, ToggleTrash \/ Expire \/ UNCHANGED vars
  PROVE  PartsKnowing'
<1>1. UNCHANGED <<mode, obj, durable, pc, loc, late, told, upset>>
  BY DEF ToggleTrash, Expire, vars, store, control, history
<1>2. SameSession
  BY <1>1 DEF ToggleTrash, Expire, vars, TypeInv, RowType, SameSession
<1>3. SameStore /\ HazardsKept /\ SyncsKept
  BY <1>1 DEF SameStore, HazardsKept, SyncsKept
<1>4. \A label, l : Active(label, l)' => Active(label, l)
  BY <1>1 DEF Active
<1> QED
  BY <1>1, <1>2, <1>3, <1>4, StillParts

-----------------------------------------------------------------------------
(* Restarts.                                                               *)

LEMMA CrashParts ==
  ASSUME TypeInv, PartsKnowing, Crash
  PROVE  PartsKnowing'
<1>1. UNCHANGED <<mode, row, obj, durable, told>> /\ upset \subseteq upset'
  BY DEF Crash, Restart, session, store
<1>2. /\ late' = {} /\ \A j \in Procs : pc'[j] = "idle" /\ loc'[j] = NoLoc
      /\ (\E j \in Procs : pc[j] = "put_sync") => Torn'
  BY DEF Crash, Restart, Torn
<1>3. SameSession /\ SameStore /\ HazardsKept
  BY <1>1 DEF SameSession, SameStore, HazardsKept
<1>4. SyncsKept
  BY <1>2 DEF SyncsKept
<1>5. KnowsParts("idle", NoLoc)'
  BY PlainKnows DEF Plain, PartGuard
<1>6. \A label, l : Active(label, l)' => label = "idle" /\ l = NoLoc
  BY <1>2 DEF Active
<1>7. \A label, l : Active(label, l)' => Active(label, l) \/ KnowsParts(label, l)'
  BY <1>5, <1>6
<1> QED
  BY <1>1, <1>3, <1>4, <1>7, StillParts

\* Only names that were not on disk go.
LEMMA PowerLossParts ==
  ASSUME TypeInv, PartsKnowing, PowerLoss, Calm'
  PROVE  PartsKnowing'
<1>1. /\ UNCHANGED <<mode, row, told>> /\ upset \subseteq upset' /\ PowerFails
      /\ \A k \in Keys : obj'[k] \in {obj[k], durable[k]} /\ durable'[k] = obj'[k]
  BY DEF PowerLoss, Restart, session
<1>2. late' = {} /\ \A j \in Procs : pc'[j] = "idle" /\ loc'[j] = NoLoc
  BY DEF PowerLoss, Restart
<1>3. /\ WriteKeys' = WriteKeys /\ Pending(row)' = Pending(row) /\ (Torn => Torn') /\ Blob \in Keys
      /\ NoAck.hash = None
  BY <1>1, BlobApart DEF WriteKeys, Torn, NoAck
<1>4. ASSUME Pending(row), NEW k \in Keys
      PROVE  obj'[k] \in {Absent, obj[k]} /\ (durable[k] = obj[k] => obj'[k] = obj[k])
  BY <1>1, <1>4 DEF PartsKnowing, SessionFits
<1>5. ASSUME Pending(row), mode = "multipart", NEW p \in Parts  PROVE PartFits(p)'
  <2>1. PartFits(p)
    BY <1>5 DEF PartsKnowing, SessionFits
  <2>2. /\ obj'[p] \in {Absent, obj[p]} /\ (durable[p] = obj[p] => obj'[p] = obj[p])
        /\ durable'[p] = obj'[p] /\ obj'[Blob] \in {Absent, obj[Blob]}
    BY <1>1, <1>3, <1>4, <1>5, PartKey
  <2>3. Lost(p) => Lost(p)'
    BY <1>3, <2>2 DEF Lost, Frail
  <2>4. Here(p) => Lost(p)' \/ (Here(p)' /\ obj'[p] = obj[p])
    BY <1>1, <1>3, <2>2 DEF Here, Lost, Frail
  <2> QED  BY <1>1, <2>1, <2>2, <2>3, <2>4 DEF PartFits
<1>6. SessionFits'
  <2>1. mode = "single" => Disk = durable[Blob] /\ Disk' = durable'[Blob]
    BY <1>1 DEF Calm, Disk
  <2> QED  BY <1>1, <1>3, <1>4, <1>5, <2>1 DEF PartsKnowing, SessionFits
<1>7. ToldFits'
  BY <1>1, <1>3 DEF PartsKnowing, ToldFits, Answered
<1>8. KnowsParts("idle", NoLoc)'
  BY PlainKnows DEF Plain, PartGuard
<1>9. \A label, l : Active(label, l)' => label = "idle" /\ l = NoLoc
  BY <1>2 DEF Active
<1> QED
  BY <1>6, <1>7, <1>8, <1>9 DEF PartsKnowing

-----------------------------------------------------------------------------
(* The invariant of the parts.                                             *)

LEMMA PartsStep ==
  ASSUME TypeInv, Settled, IntactInv, PartsInv, [Next]_vars
  PROVE  PartsInv'
<1> SUFFICES ASSUME Calm', row'.status # "gone"  PROVE PartsKnowing'
  BY DEF PartsInv
<1>1. /\ Calm /\ row.status # "gone" /\ Knowing /\ Guarded /\ PartsKnowing
  BY UpsetGrows, StepOutcome DEF IntactInv, PartsInv, Outcome, Settled
<1>2. ASSUME NEW i \in Clients, PutStep(i)  PROVE PartsKnowing'
  BY <1>1, <1>2, PutBeginParts, RecordBeginParts, PutMoveParts, PutRenameParts, AckParts,
     PutReplyParts
  DEF PutStep
<1>3. ASSUME NEW i \in Clients, ClientStep(i)  PROVE PartsKnowing'
  BY <1>1, <1>2, <1>3, FinishBeginParts, AbortStepParts DEF ClientStep, CompleteUpload, Procs
<1>4. ASSUME JobStep  PROVE PartsKnowing'
  BY <1>1, <1>4, FinishBeginParts, AbortStepParts DEF JobStep, RecoverCommits, Procs
<1>5. ASSUME NEW i \in Procs, FinishStep(i)  PROVE PartsKnowing'
  BY <1>1, <1>5, FinishMoveParts, FinishStatementParts, FinishRenameParts, CleanParts
  DEF FinishStep
<1>6. ASSUME NEW i \in Procs, AbortStep(i) \/ CleanupFails(i) \/ Interrupt(i) \/ Refuse(i)
      PROVE  PartsKnowing'
  BY <1>1, <1>6, AbortStepParts, CleanParts, InterruptParts, RefuseParts
<1>7. ASSUME NEW call \in late, Land(call)  PROVE PartsKnowing'
  BY <1>1, <1>7, LandParts
<1>8. CASE DeletePending
  BY <1>8 DEF DeletePending, Dropped, TypeInv, RowType
<1>9. CASE ToggleTrash \/ Expire \/ Crash \/ PowerLoss \/ UNCHANGED vars
  BY <1>1, <1>9, AsideParts, CrashParts, PowerLossParts
<1> QED
  BY <1>3, <1>4, <1>5, <1>6, <1>7, <1>8, <1>9 DEF Next

LEMMA InitParts == Init => PartsInv
<1> SUFFICES ASSUME Init PROVE PartsKnowing
  BY DEF PartsInv
<1>1. /\ \A k \in Keys : obj[k] = Absent /\ durable[k] = Absent /\ row.ack[k] = NoAck
                         /\ told[k] = {}
      /\ Pending(row) /\ row.commit_state = "receiving" /\ late = {}
      /\ \A j \in Procs : pc[j] = "idle"
  BY DEF Init, Pending
<1>2. SessionFits
  BY <1>1, PartKey, BlobApart DEF SessionFits, PartFits
<1>3. ToldFits
  BY <1>1, PartKey DEF ToldFits
<1>4. \A label, l : Active(label, l) => KnowsParts(label, l)
  BY <1>1 DEF Active, KnowsParts, PartGuard
<1> QED
  BY <1>2, <1>3, <1>4 DEF PartsKnowing

\* What was acknowledged of a part is stored until it has been published.
THEOREM PartsInvariant == Spec => [](TypeInv /\ Settled /\ IntactInv /\ PartsInv)
<1>1. TypeInv /\ Settled /\ IntactInv /\ PartsInv /\ [Next]_vars => PartsInv'
  BY PartsStep
<1> QED
  BY <1>1, InitParts, IntactInvariant, PTL DEF Spec

\* Concurrent, retried and interrupted PUTs never substitute bytes: what is
\* published under a key is what a client was told had been accepted for it.
THEOREM AcceptedBytesPublished == Spec => []AcceptedIsPublished
<1>1. TypeInv /\ Settled /\ IntactInv /\ PartsInv => AcceptedIsPublished
  <2> SUFFICES ASSUME TypeInv, Settled, IntactInv, PartsInv, row.file = "ready", Undisturbed,
                      NEW k \in WriteKeys, NEW h \in told[k]
               PROVE  h = PublishedBytes(k)
    BY DEF AcceptedIsPublished
  <2>1. row.status = "completed" /\ row.status # "gone" /\ ~Pending(row)
    BY DEF Settled, RowSettled, Pending
  <2>2. RowSound(row, obj[Blob], Disk) /\ PartsKnowing
    BY <2>1 DEF IntactInv, Knowing, PartsInv, Undisturbed, Calm
  <2>3. Answered(k, h)
    BY <2>2 DEF PartsKnowing, ToldFits
  <2> QED  BY <2>1, <2>2, <2>3 DEF RowSound, Answered, PublishedBytes
<1> QED
  BY <1>1, PartsInvariant, PTL

\* What was promised of a PUT holds (README.md:119) unless a disk hazard has occurred:
\* while the session takes parts, accepted bytes are on disk to stay.
THEOREM AcceptedBytesDurable == Spec => [](upset = {} => AcceptedIsDurable)
<1>1. TypeInv /\ Settled /\ IntactInv /\ PartsInv => (upset = {} => AcceptedIsDurable)
  <2> SUFFICES ASSUME TypeInv, Settled, IntactInv, PartsInv, upset = {}, Receiving(row),
                      NEW k \in WriteKeys, NEW h \in told[k]
               PROVE  h = durable[k].content
    BY DEF AcceptedIsDurable
  <2>1. Pending(row) /\ row.status # "gone" /\ ~Torn
    BY DEF Receiving, Pending, Torn
  <2>2. RowSound(row, obj[Blob], Disk) /\ SessionFits /\ ToldFits
    BY <2>1 DEF IntactInv, Knowing, PartsInv, PartsKnowing, Calm
  <2>3. h # None /\ row.ack[k].hash = h /\ row.ack[k] # NoAck
    BY <2>1, <2>2 DEF ToldFits, Answered, NoAck
  <2>4. CASE mode = "single"
    <3>1. k = Blob /\ Disk = durable[Blob]
      BY <2>4 DEF WriteKeys, Disk
    <3> QED  BY <2>2, <2>3, <3>1 DEF RowSound, Sound, AckOf
  <2>5. CASE mode = "multipart"
    <3>1. k \in Parts
      BY <2>5 DEF WriteKeys
    <3>2. PartFits(k) /\ ~Lost(k)
      BY <2>1, <2>2, <2>5, <3>1 DEF SessionFits, Lost, Frail
    <3> QED  BY <2>1, <2>3, <3>2 DEF PartFits, Here
  <2> QED  BY <2>4, <2>5 DEF TypeInv, SmallTyped
<1> QED
  BY <1>1, PartsInvariant, PTL

\* What the recovery job needs stays there: every acknowledged part until the
\* object exists, then that very object.
THEOREM StagingIsRetained == Spec => []StagingRetained
<1>1. TypeInv /\ Settled /\ IntactInv /\ PartsInv => StagingRetained
  <2> SUFFICES ASSUME TypeInv, Settled, IntactInv, PartsInv, Pending(row), upset = {}
               PROVE  /\ row.commit_state = "assembling" =>
                           \/ Stored(Blob)
                           \/ /\ mode = "multipart"
                              /\ \A p \in Parts : Stored(p) /\ row.ack[p].etag = obj[p].stamp
                      /\ row.commit_state = "staged" => AckOf(obj[Blob]) = row.ack[Blob]
    BY DEF StagingRetained
  <2>1. Undisturbed /\ row.status # "gone" /\ ~Torn /\ ~Frail
    BY DEF Undisturbed, Pending, Torn, Frail
  <2>2. RowSound(row, obj[Blob], Disk) /\ SessionFits
    BY <2>1 DEF IntactInv, Knowing, PartsInv, Undisturbed, Calm, PartsKnowing
  <2>3. CASE mode = "multipart"
    <3>1. ASSUME NEW p \in Parts, row.commit_state = "assembling"
          PROVE  obj[p] # Absent /\ row.ack[p].etag = obj[p].stamp
      BY <2>1, <2>2, <2>3, <3>1 DEF SessionFits, PartFits, Lost, Here
    <3> QED  BY <2>2, <2>3, <3>1 DEF RowSound, Sound, Stored
  <2>4. CASE mode = "single"
    BY <2>2, <2>4 DEF SessionFits, RowSound, Sound, Stored
  <2> QED  BY <2>3, <2>4 DEF TypeInv, SmallTyped
<1> QED
  BY <1>1, PartsInvariant, PTL

-----------------------------------------------------------------------------
(* What happens to the rows and to the staged bytes, step by step.         *)

\* A statement of the upload code, submitted by a process that is there or gone.
StatementRuns ==
  /\ UNCHANGED <<mode, obj, durable, upset>>
  /\ \E op \in Statements : \E l \in Locals : Active(op, l) /\ row' = RowAfter(op, l)

RowChange == \/ SameSession
             \/ row' = Dropped(row) /\ row.file = "pending" /\ mode' = mode
             \/ StatementRuns

LEMMA RowSteps ==
  ASSUME TypeInv, [Next]_vars, Calm'
  PROVE  RowChange
<1>1. mode' = mode
  BY UpsetGrows
<1>2. ASSUME row' = row  PROVE RowChange
  BY <1>1, <1>2 DEF RowChange, SameSession
<1>3. ASSUME NEW i \in Procs, NEW op \in Statements, pc[i] = op, row' = RowAfter(op, loc[i]),
             UNCHANGED <<mode, obj, durable, upset>>
      PROVE  RowChange
  <2>1. loc[i] \in Locals /\ Active(op, loc[i])
    BY <1>3 DEF Active, TypeInv, ControlTyped
  <2> QED  BY <1>3, <2>1 DEF RowChange, StatementRuns
<1>4. /\ "put_ack" \in Statements /\ "rec_ack" \in Statements /\ "fin_freeze" \in Statements
      /\ "fin_stage" \in Statements /\ "fin_commit" \in Statements /\ "fin_mark" \in Statements
      /\ "abort_tx" \in Statements /\ "reclaim_tx" \in Statements /\ "sweep_tx" \in Statements
  BY DEF Statements
<1>5. ASSUME NEW i \in Clients, ClientStep(i)  PROVE RowChange
  <2>1. i \in Procs
    BY DEF Procs
  <2>2. CASE PutAck(i) \/ RecordAck(i)
    BY <1>3, <1>4, <2>1, <2>2 DEF PutAck, RecordAck, store, history
  <2>3. CASE ~(PutAck(i) \/ RecordAck(i))
    BY <1>2, <1>5, <2>3
    DEF ClientStep, PutStep, PutBegin, RecordBegin, PutAccept, PutRename, PutSync, PutReply,
        CompleteUpload, FinishBegin, AbortBegin, AbortCompleted, session
  <2> QED  BY <2>2, <2>3
<1>6. ASSUME JobStep  PROVE RowChange
  <2>1. CASE SweepTx
    BY <1>3, <1>4, <2>1 DEF SweepTx, Procs, store, history
  <2>2. CASE RecoverCommits \/ SweepLoad \/ SweepBegin
    BY <1>2, <2>2 DEF RecoverCommits, FinishBegin, SweepLoad, SweepBegin, session
  <2> QED  BY <1>6, <2>1, <2>2 DEF JobStep
<1>7. ASSUME NEW i \in Procs, FinishStep(i)  PROVE RowChange
  <2>1. CASE FinishFreeze(i) \/ FinishStage(i) \/ FinishCommit(i) \/ FinishMark(i)
    BY <1>3, <1>4, <2>1 DEF FinishFreeze, FinishStage, FinishCommit, FinishMark, store, history
  <2>2. CASE ~(FinishFreeze(i) \/ FinishStage(i) \/ FinishCommit(i) \/ FinishMark(i))
    BY <1>2, <1>7, <2>2
    DEF FinishStep, FinishReuse, FinishSync, FinishCheckParts, FinishRead, FinishRename,
        FinishSettle, FinishVerify, FinishClean, FinishReply, session
  <2> QED  BY <2>1, <2>2
<1>8. ASSUME NEW i \in Procs, AbortStep(i)  PROVE RowChange
  <2>1. CASE AbortTx(i)
    BY <1>3, <1>4, <2>1 DEF AbortTx, store, history
  <2>2. CASE AbortParts(i) \/ AbortBlob(i) \/ AbortReply(i)
    BY <1>2, <2>2 DEF AbortParts, AbortBlob, AbortReply, session
  <2> QED  BY <1>8, <2>1, <2>2 DEF AbortStep
<1>9. ASSUME NEW i \in Procs, CleanupFails(i) \/ Interrupt(i) \/ Refuse(i)  PROVE RowChange
  BY <1>2, <1>9 DEF CleanupFails, Interrupt, Refuse, session
<1>10. ASSUME NEW call \in late, Land(call)  PROVE RowChange
  <2>1. PICK op, l : op = call.op /\ l = call.loc
    OBVIOUS
  <2>2. /\ call = [op |-> op, loc |-> l] /\ l \in Locals
        /\ op \in Statements /\ op \notin Renames
    BY <1>10, <2>1 DEF TypeInv, LateTyped, Land, Calm
  <2>3. Active(op, l)
    BY <2>2 DEF Active
  <2>4. row' = RowAfter(op, l) /\ UNCHANGED <<mode, obj, durable, upset>>
    BY <1>10, <2>1, <2>2 DEF Land
  <2> QED  BY <2>2, <2>3, <2>4 DEF RowChange, StatementRuns
<1>11. CASE DeletePending
  BY <1>1, <1>11 DEF DeletePending, RowChange
<1>12. CASE ToggleTrash
  BY <1>1, <1>12 DEF ToggleTrash, RowChange, SameSession, TypeInv, RowType
<1>13. CASE Expire \/ Crash \/ PowerLoss \/ UNCHANGED vars
  BY <1>2, <1>13 DEF Expire, Crash, PowerLoss, vars, session
<1> QED
  BY <1>5, <1>6, <1>7, <1>8, <1>9, <1>10, <1>11, <1>12, <1>13 DEF Next

\* Once completion has begun, staged bytes stay where they are.
LEMMA StagedStay ==
  ASSUME TypeInv, Settled, Knowing, PartsKnowing, [Next]_vars, Calm', ~Frail,
         Pending(row), row.commit_state # "receiving", NEW k \in WriteKeys
  PROVE  obj'[k] = obj[k]
<1>1. /\ k \in Keys /\ (k # Blob => k \in Parts /\ mode = "multipart")
      /\ (k = Blob => mode = "single")
  BY PartKey, PartMode
<1>2. k # Blob => PartFits(k) /\ Here(k)
  BY <1>1 DEF PartsKnowing, SessionFits, PartFits, Lost
<1>3. k = Blob => obj[Blob] # Absent /\ Disk = obj[Blob]
  BY <1>1 DEF PartsKnowing, SessionFits
<1>4. ASSUME NEW i \in Clients, PutStep(i)  PROVE obj'[k] = obj[k]
  <2>1. CASE PutRename(i)
    <3>1. i \in Procs /\ pc[i] = "put_rename" /\ obj' = [obj EXCEPT ![loc[i].key] = loc[i].version]
      BY <2>1 DEF PutRename, Procs
    <3>2. PICK l : l = loc[i]
      OBVIOUS
    <3>3. KnowsParts("put_rename", l) /\ KnowsNow("put_rename", l)
      BY <3>1, <3>2, KnownHere DEF Knowing, KnowsNow
    <3>4. l.key # k
      BY <1>1, <1>2, <1>3, <3>3 DEF KnowsParts, PartGuard, PutKnowsPart, KnowsNow, Knows, Here
    <3> QED  BY <1>1, <3>1, <3>2, <3>4 DEF TypeInv, StoreTyped
  <2>2. CASE ~PutRename(i)
    BY <1>4, <2>2
    DEF PutStep, PutBegin, RecordBegin, PutAccept, PutSync, PutAck, RecordAck, PutReply, store
  <2> QED  BY <2>1, <2>2
<1>5. ASSUME NEW i \in Clients, ClientStep(i)  PROVE obj'[k] = obj[k]
  BY <1>4, <1>5 DEF ClientStep, CompleteUpload, FinishBegin, AbortBegin, AbortCompleted, store
<1>6. ASSUME JobStep  PROVE obj'[k] = obj[k]
  BY <1>6 DEF JobStep, RecoverCommits, FinishBegin, SweepLoad, SweepBegin, SweepTx, store
<1>7. ASSUME NEW i \in Procs, FinishStep(i)  PROVE obj'[k] = obj[k]
  <2>1. CASE FinishRename(i)
    <3>1. pc[i] = "fin_rename" /\ obj' = [obj EXCEPT ![Blob] = loc[i].version]
      BY <2>1 DEF FinishRename
    <3>2. mode = "multipart"
      BY <3>1 DEF Knowing, Knows
    <3> QED  BY <1>1, <3>1, <3>2 DEF TypeInv, StoreTyped
  <2>2. CASE FinishClean(i)
    BY <2>2 DEF FinishClean, Settled, Witnessed, Pending
  <2>3. CASE ~FinishRename(i) /\ ~FinishClean(i)
    BY <1>7, <2>3
    DEF FinishStep, FinishFreeze, FinishReuse, FinishSync, FinishCheckParts, FinishRead,
        FinishSettle, FinishStage, FinishVerify, FinishCommit, FinishMark, FinishReply, store
  <2> QED  BY <2>1, <2>2, <2>3
<1>8. ASSUME NEW i \in Procs, AbortStep(i) \/ CleanupFails(i)  PROVE obj'[k] = obj[k]
  <2>1. pc[i] \notin {"fin_clean", "abort_parts", "abort_blob"}
    BY DEF Settled, Witnessed, Pending, Knowing, Knows
  <2> QED  BY <1>8, <2>1 DEF AbortStep, AbortTx, AbortParts, AbortBlob, AbortReply, CleanupFails, store
<1>9. ASSUME NEW i \in Procs, Interrupt(i) \/ Refuse(i)  PROVE obj'[k] = obj[k]
  BY <1>9 DEF Interrupt, Refuse, store
<1>10. ASSUME NEW call \in late, Land(call)  PROVE obj'[k] = obj[k]
  BY <1>10 DEF Land, Calm
<1>11. CASE PowerLoss
  <2>1. /\ PowerFails /\ mode' = mode /\ upset \subseteq upset'
        /\ obj'[k] \in {obj[k], durable[k]}
    BY <1>1, <1>11 DEF PowerLoss, Restart, session
  <2>2. k # Blob => durable[k] = obj[k]
    BY <1>2, <2>1 DEF Here, Frail
  <2>3. k = Blob => durable[k] = obj[k]
    BY <1>1, <1>3, <2>1 DEF Disk, Calm
  <2> QED  BY <2>1, <2>2, <2>3
<1>12. CASE DeletePending \/ ToggleTrash \/ Expire \/ Crash \/ UNCHANGED vars
  BY <1>12 DEF DeletePending, ToggleTrash, Expire, Crash, vars, store
<1> QED
  BY <1>5, <1>6, <1>7, <1>8, <1>9, <1>10, <1>11, <1>12 DEF Next

\* The parts a completion started from are not exchanged under it, whatever
\* acknowledgement still arrives.
THEOREM PartsAreFrozen == Spec => PartsFrozen
<1> DEFINE Kept == Pending(row) /\ Pending(row') /\ row.commit_state # "receiving" /\ upset' = {}
                   => \A p \in Parts : row'.ack[p].etag = row.ack[p].etag
<1>1. TypeInv /\ Settled /\ IntactInv /\ PartsInv /\ [Next]_vars => Kept
  <2> SUFFICES ASSUME TypeInv, Settled, IntactInv, PartsInv, [Next]_vars, Pending(row),
                      Pending(row'), row.commit_state # "receiving", upset' = {},
                      NEW p \in Parts
               PROVE  row'.ack[p].etag = row.ack[p].etag
    OBVIOUS
  <2>1. Calm' /\ Calm /\ row.status # "gone" /\ p \in Keys /\ p # Blob /\ DOMAIN row.ack = Keys
    BY PartKey, UpsetGrows DEF Calm, Pending, TypeInv, RowType
  <2>2. Knowing /\ PartsKnowing
    BY <2>1 DEF IntactInv, PartsInv
  <2>3. RowChange
    BY <2>1, RowSteps
  <2>4. CASE StatementRuns
    <3>1. PICK op \in Statements : \E l \in Locals : Active(op, l) /\ row' = RowAfter(op, l)
      BY <2>4 DEF StatementRuns
    <3>2. PICK l \in Locals : Active(op, l) /\ row' = RowAfter(op, l)
      BY <3>1
    <3>3. KnowsParts(op, l) /\ upset = {}
      BY <2>2, <2>4, <3>2 DEF PartsKnowing, StatementRuns
    <3>4. CASE op \in {"put_ack", "rec_ack"} /\ l.key = p /\ row'.ack[p] = l.ack
      <4>1. mode = "multipart" /\ l.ack.etag = obj[p].stamp
        BY <2>1, <3>3, <3>4, PartMode DEF KnowsParts, PartGuard, PutKnowsPart
      <4>2. row.ack[p].etag = obj[p].stamp
        BY <2>2, <3>3, <4>1 DEF PartsKnowing, SessionFits, PartFits, Lost, Frail, Torn
      <4> QED  BY <3>4, <4>1, <4>2
    <3>5. CASE ~(op \in {"put_ack", "rec_ack"} /\ l.key = p /\ row'.ack[p] = l.ack)
      <4>1. row'.ack[p] = row.ack[p] \/ row' = Dropped(row)
        BY <2>1, <3>2, <3>5
        DEF RowAfter, Acked, Recorded, Frozen, Receiving, Staged, Committed, Aborted, Swept,
            Cleaned, Statements, TypeInv, RowType
      <4>2. row' # Dropped(row)
        BY DEF Dropped, Pending, TypeInv, RowType
      <4> QED  BY <4>1, <4>2
    <3> QED  BY <3>4, <3>5
  <2>5. CASE row' = Dropped(row)
    BY <2>5 DEF Dropped, Pending, TypeInv, RowType
  <2> QED  BY <2>3, <2>4, <2>5 DEF RowChange, SameSession
<1> QED
  BY <1>1, PartsInvariant, PTL DEF PartsFrozen, Spec

-----------------------------------------------------------------------------
(* The session implements UploadPublication.  While nothing can be lost,   *)
(* the bytes accepted for a key are those of its acknowledgement, then     *)
(* those of its file, then those published under it.                       *)

Unharmed == Calm /\ ~Frail

Accounted ==
  \A k \in WriteKeys :
    /\ Receiving(row) =>
         /\ AcceptedBytes(k) = row.ack[k].hash
         /\ row.ack[k].hash # None => row.ack[k].hash = obj[k].content /\ obj[k].content \in Contents
    /\ Pending(row) /\ ~Receiving(row) =>
         AcceptedBytes(k) = obj[k].content /\ obj[k].content \in Contents
    /\ row.status = "completed" => AcceptedBytes(k) = PublishedBytes(k)

AccountInv == Unharmed /\ row.status # "gone" => Accounted

LEMMA AcceptedAccounted ==
  ASSUME TypeInv, Settled, IntactInv, PartsInv
  PROVE  AccountInv
<1> SUFFICES ASSUME Unharmed, row.status # "gone", NEW k \in WriteKeys
             PROVE  /\ Receiving(row) =>
                         /\ AcceptedBytes(k) = row.ack[k].hash
                         /\ row.ack[k].hash # None =>
                              row.ack[k].hash = obj[k].content /\ obj[k].content \in Contents
                    /\ Pending(row) /\ ~Receiving(row) =>
                         AcceptedBytes(k) = obj[k].content /\ obj[k].content \in Contents
                    /\ row.status = "completed" => AcceptedBytes(k) = PublishedBytes(k)
  BY DEF AccountInv, Accounted
<1>1. /\ Knowing /\ PartsKnowing /\ ~Frail
      /\ RowSound(row, obj[Blob], Disk) /\ BodySettled(mode, obj[Blob], Disk, pc, loc)
  BY DEF Unharmed, IntactInv, PartsInv, Knowing
<1>2. NoAck.hash = None /\ Absent.content = None /\ None \notin Contents
  BY SessionAssumption DEF NoAck, Absent
<1>3. CASE k = Blob
  <2>1. mode = "single" /\ Body(obj[Blob])
    BY <1>1, <1>3, PartKey DEF BodySettled
  <2>2. row.ack[Blob].hash = None \/ (obj[Blob] # Absent /\ row.ack[Blob].hash = obj[Blob].content)
    BY <1>1, <1>2 DEF RowSound, Sound, AckOf
  <2>3. Pending(row) /\ ~Receiving(row) => obj[Blob] # Absent
    BY <1>1, <2>1 DEF PartsKnowing, SessionFits, Receiving
  <2>4. row.status = "completed" => row.published.hash = row.ack[Blob].hash
    BY <1>1 DEF RowSound
  <2> QED
    BY <1>2, <1>3, <2>1, <2>2, <2>3, <2>4
    DEF AcceptedBytes, PublishedBytes, Receiving, Pending, Body
<1>4. CASE k # Blob
  <2>1. k \in Parts /\ mode = "multipart"
    BY <1>4, PartKey, PartMode
  <2>2. ASSUME Pending(row)
        PROVE  /\ row.ack[k].hash = None \/ (obj[k] # Absent /\ row.ack[k].hash = obj[k].content)
               /\ ~Receiving(row) => obj[k] # Absent
    <3>1. PartFits(k)
      BY <1>1, <2>1, <2>2 DEF PartsKnowing, SessionFits
    <3> QED  BY <1>1, <1>2, <2>2, <3>1 DEF PartFits, Lost, Here, Receiving
  <2>3. obj[k] # Absent => obj[k].content \in Contents
    BY <2>1 DEF TypeInv, StoreTyped
  <2>4. row.status = "completed" => row.ack[k].hash \in {None, row.published.hash[k]}
    BY <1>1, <2>1 DEF PartsKnowing, SessionFits, Pending
  <2> QED
    BY <1>2, <1>4, <2>1, <2>2, <2>3, <2>4
    DEF AcceptedBytes, PublishedBytes, Receiving, Pending
<1> QED
  BY <1>3, <1>4

-----------------------------------------------------------------------------
(* Steps of the abstract session, key by key.                              *)

Promise == [Publication!Next]_(Publication!vars)

LEMMA AbstractStutter ==
  ASSUME SessionPhase' = SessionPhase, Published' = Published,
         \A k \in Keys : AcceptedBytes(k)' = AcceptedBytes(k)
  PROVE  Promise
<1>1. Accepted' = Accepted
  BY DEF Accepted
<1> QED
  BY <1>1 DEF Promise, Publication!vars

LEMMA AbstractAccept ==
  ASSUME SessionPhase = "open", SessionPhase' = "open", Published' = Published,
         NEW k \in Keys, AcceptedBytes(k) = None, AcceptedBytes(k)' \in Contents,
         \A j \in Keys : j # k => AcceptedBytes(j)' = AcceptedBytes(j)
  PROVE  Promise
<1>1. PICK c \in Contents : c = AcceptedBytes(k)'
  OBVIOUS
<1>2. Accepted[k] = None /\ Accepted' = [Accepted EXCEPT ![k] = c]
  BY <1>1 DEF Accepted
<1>3. Publication!Accept(k, c)
  BY <1>2 DEF Publication!Accept
<1> QED
  BY <1>3 DEF Promise, Publication!Next

LEMMA AbstractClose ==
  ASSUME SessionPhase = "open", SessionPhase' = "closed", Published' = Published,
         \A k \in Keys : /\ AcceptedBytes(k)' \in Contents \cup {None}
                         /\ AcceptedBytes(k) # None => AcceptedBytes(k)' = AcceptedBytes(k)
  PROVE  Promise
<1>1. PICK adopted : adopted = Accepted'
  OBVIOUS
<1>2. /\ adopted \in [Keys -> Contents \cup {None}]
      /\ Accepted' = [k \in Keys |-> IF Accepted[k] # None THEN Accepted[k] ELSE adopted[k]]
  BY <1>1 DEF Accepted
<1>3. Publication!Close
  BY <1>2 DEF Publication!Close
<1> QED
  BY <1>3 DEF Promise, Publication!Next

LEMMA AbstractPublish ==
  ASSUME SessionPhase = "closed", SessionPhase' = "published",
         \A k \in Keys : /\ AcceptedBytes(k)' = AcceptedBytes(k)
                         /\ Published'[k] = AcceptedBytes(k)
  PROVE  Promise
<1>1. Accepted' = Accepted /\ Published' = Accepted
  BY DEF Accepted, Published
<1>2. Publication!Publish
  BY <1>1 DEF Publication!Publish
<1> QED
  BY <1>2 DEF Promise, Publication!Next

LEMMA AbstractDiscard ==
  ASSUME SessionPhase \in {"open", "closed"}, SessionPhase' = "discarded", Published' = Published,
         \A k \in Keys : AcceptedBytes(k)' = None
  PROVE  Promise
<1>1. Accepted' = [k \in Keys |-> None]
  BY DEF Accepted
<1>2. Publication!Discard
  BY <1>1 DEF Publication!Discard, Publication!Nothing
<1> QED
  BY <1>2 DEF Promise, Publication!Next

\* What the abstract session shows of the rows.
PhaseFacts ==
  /\ SessionPhase = "discarded" <=> row.status = "gone"
  /\ SessionPhase = "published" <=> row.status = "completed"
  /\ SessionPhase = "open" <=> Receiving(row)
  /\ SessionPhase = "closed" <=> Pending(row) /\ ~Receiving(row)
  /\ row.status # "completed" => Published = [k \in Keys |-> None]
  /\ row.status = "gone" => \A k \in Keys : AcceptedBytes(k) = None
  /\ row.status = "completed" =>
       \A k \in Keys : Published[k] = IF k \in WriteKeys THEN PublishedBytes(k) ELSE None
  /\ \A k \in Keys : k \notin WriteKeys => AcceptedBytes(k) = None

LEMMA PhaseIs == TypeInv => PhaseFacts
<1> SUFFICES ASSUME row.status \in {"pending", "completed", "gone"}  PROVE PhaseFacts
  BY DEF TypeInv, RowType
<1> QED
  BY DEF PhaseFacts, SessionPhase, Published, AcceptedBytes, Receiving, Pending

-----------------------------------------------------------------------------
(* The steps of the session are steps of what it promises.                 *)

LEMMA StatementGoes ==
  ASSUME row \in RowType, NEW op \in Statements, NEW l \in Locals
  PROVE  LET r == RowAfter(op, l)
         IN  /\ r.status = "completed" =>
                  row.status = "completed" \/ (CanCommit(row) /\ r.ack = row.ack)
             /\ r.commit_state = "receiving" => row.commit_state = "receiving"
             /\ Receiving(row) /\ Receiving(r) =>
                  \A k \in Keys :
                    \/ r.ack[k] = row.ack[k]
                    \/ /\ op \in {"put_ack", "rec_ack"} /\ k = l.key /\ r.ack[k] = l.ack
                       /\ op = "rec_ack" => row.ack[k] = NoAck
<1> DEFINE Goes(r) ==
      /\ r.status = "completed" =>
           row.status = "completed" \/ (CanCommit(row) /\ r.ack = row.ack)
      /\ r.commit_state = "receiving" => row.commit_state = "receiving"
      /\ Receiving(row) /\ Receiving(r) =>
           \A k \in Keys :
             \/ r.ack[k] = row.ack[k]
             \/ /\ op \in {"put_ack", "rec_ack"} /\ k = l.key /\ r.ack[k] = l.ack
                /\ op = "rec_ack" => row.ack[k] = NoAck
<1>1. row.ack \in [Keys -> Ack] /\ l.key \in Keys
  BY DEF RowType, Locals
<1>2. Goes(row)
  OBVIOUS
<1>3. op = "put_ack" => Goes(Acked(row, l))
  BY <1>1 DEF Acked, RowType
<1>4. op = "rec_ack" => Goes(Recorded(row, l))
  BY <1>1 DEF Recorded, CanRecord, RowType
<1>5. Goes(Frozen(row, l))
  BY <1>1 DEF Frozen, Receiving, RowType
<1>6. Goes(Staged(row, l))
  BY <1>1 DEF Staged, CanStage, Receiving, RowType
<1>7. Goes(Committed(row, l))
  BY <1>1 DEF Committed, RowType
<1>8. Goes(Cleaned(row))
  BY <1>1 DEF Cleaned, RowType
<1>9. Goes(Aborted(row)) /\ Goes(Swept(row))
  <2>1. Goes(Dropped(row))
    BY DEF Dropped, Receiving, Pending, RowType
  <2> QED  BY <1>2, <2>1 DEF Aborted, Swept
<1> HIDE DEF Goes
<1>10. Goes(RowAfter(op, l))
  BY <1>2, <1>3, <1>4, <1>5, <1>6, <1>7, <1>8, <1>9 DEF RowAfter, Statements
<1> QED
  BY <1>10 DEF Goes

View == AccountInv /\ PhaseFacts

\* While the session receives, an acknowledgement is an acceptance.
LEMMA AcceptStep ==
  ASSUME TypeInv, TypeInv', IntactInv, PartsInv, View, View', Unharmed, Unharmed',
         mode' = mode, RowChange, Receiving(row), Receiving(row)'
  PROVE  Promise
<1>1. /\ row.status = "pending" /\ row'.status = "pending" /\ row'.commit_state = "receiving"
      /\ row.commit_state = "receiving" /\ WriteKeys' = WriteKeys
  BY DEF Receiving, Pending, WriteKeys
<1>2. /\ SessionPhase = "open" /\ SessionPhase' = "open" /\ Published' = Published
      /\ \A k \in Keys : k \notin WriteKeys => AcceptedBytes(k)' = AcceptedBytes(k)
  BY <1>1 DEF View, PhaseFacts
<1>3. Accounted /\ Accounted' /\ Knowing /\ PartsKnowing
  BY <1>1 DEF View, AccountInv, IntactInv, PartsInv, Unharmed
<1>4. \A k \in WriteKeys : /\ AcceptedBytes(k) = row.ack[k].hash
                           /\ AcceptedBytes(k)' = row'.ack[k].hash
  BY <1>1, <1>3 DEF Accounted
<1>5. CASE row'.ack = row.ack
  BY <1>2, <1>4, <1>5, AbstractStutter
<1>6. CASE StatementRuns /\ row'.ack # row.ack
  <2>1. PICK op \in Statements : \E l \in Locals : Active(op, l) /\ row' = RowAfter(op, l)
    BY <1>6 DEF StatementRuns
  <2>2. PICK l \in Locals : Active(op, l) /\ row' = RowAfter(op, l)
    BY <2>1
  <2>3. \A k \in Keys :
          \/ row'.ack[k] = row.ack[k]
          \/ /\ op \in {"put_ack", "rec_ack"} /\ k = l.key /\ row'.ack[k] = l.ack
             /\ op = "rec_ack" => row.ack[k] = NoAck
    BY <1>1, <2>2, StatementGoes DEF TypeInv, Receiving, Pending
  <2>4. PICK k \in Keys : row'.ack[k] # row.ack[k]
    BY <1>6 DEF TypeInv, RowType
  <2>5. /\ op \in {"put_ack", "rec_ack"} /\ k = l.key /\ row'.ack[k] = l.ack
        /\ op = "rec_ack" => row.ack[k] = NoAck
    BY <2>3, <2>4
  <2>6. \A j \in Keys : j # k => row'.ack[j] = row.ack[j]
    BY <2>3, <2>5
  <2>7. KnowsParts(op, l) /\ KnowsNow(op, l)
    BY <1>3, <2>2 DEF PartsKnowing, Active, Knowing, KnowsNow
  <2>8. k \in WriteKeys
    BY <2>5, <2>7 DEF KnowsParts, PartGuard
  <2>9. l.ack.hash # None
    <3>1. CASE k = Blob
      <4>1. l.ack.hash = obj[Blob].content /\ obj[Blob] # Absent /\ mode = "single"
        BY <2>5, <2>7, <2>8, <3>1, PartKey DEF KnowsNow, Knows, Sound, AckOf
      <4>2. obj[Blob].content \in Contents
        BY <1>3, <4>1 DEF Knowing, BodySettled, Body
      <4> QED  BY <4>1, <4>2, SessionAssumption
    <3>2. CASE k # Blob
      BY <2>5, <2>7, <3>2 DEF KnowsParts, PutKnowsPart, PartGuard
    <3> QED  BY <3>1, <3>2
  <2>10. obj' = obj
    BY <1>6 DEF StatementRuns
  <2>11. AcceptedBytes(k)' = obj[k].content /\ obj[k].content \in Contents
    BY <1>1, <1>3, <1>4, <2>5, <2>8, <2>9, <2>10 DEF Accounted
  <2>12. \A j \in Keys : j # k => AcceptedBytes(j)' = AcceptedBytes(j)
    BY <1>2, <1>4, <2>6
  <2>13. CASE AcceptedBytes(k) = None
    BY <1>2, <2>11, <2>12, <2>13, AbstractAccept
  <2>14. CASE AcceptedBytes(k) # None
    <3>1. AcceptedBytes(k) = obj[k].content
      BY <1>3, <1>4, <2>8, <2>14 DEF Accounted
    <3> QED  BY <1>2, <2>11, <2>12, <3>1, AbstractStutter
  <2> QED  BY <2>13, <2>14
<1>7. row' # Dropped(row)
  BY <1>1 DEF Dropped, TypeInv, RowType
<1> QED
  BY <1>5, <1>6, <1>7 DEF RowChange, SameSession

\* The commit publishes what had been accepted.
LEMMA PublishStep ==
  ASSUME TypeInv, TypeInv', IntactInv, IntactInv', PartsInv, View, View', Unharmed, Unharmed',
         mode' = mode, RowChange, Pending(row), row'.status = "completed"
  PROVE  Promise
<1>1. row.status = "pending" /\ WriteKeys' = WriteKeys /\ row'.status # row.status
  BY DEF Pending, WriteKeys
<1>2. Knowing /\ Knowing' /\ PartsKnowing /\ Accounted /\ Accounted'
  BY <1>1 DEF View, AccountInv, IntactInv, PartsInv, Unharmed
<1>3. CanCommit(row) /\ row'.ack = row.ack
  <2>1. StatementRuns
    BY <1>1 DEF RowChange, SameSession, Dropped, TypeInv, RowType
  <2>2. PICK op \in Statements : \E l \in Locals : Active(op, l) /\ row' = RowAfter(op, l)
    BY <2>1 DEF StatementRuns
  <2>3. PICK l \in Locals : row' = RowAfter(op, l)
    BY <2>2
  <2> QED  BY <1>1, <2>3, StatementGoes DEF TypeInv
<1>4. /\ row.commit_state = "staged" /\ obj[Blob] # Absent /\ row.ack[Blob] = AckOf(obj[Blob])
      /\ row'.published = row'.ack[Blob]
  BY <1>2, <1>3 DEF CanCommit, Knowing, RowSound, Sound
<1>5. row'.published.hash = obj[Blob].content
  BY <1>3, <1>4 DEF AckOf
<1>6. SessionPhase = "closed" /\ SessionPhase' = "published"
  BY <1>1, <1>4 DEF View, PhaseFacts, Receiving, Pending
<1>7. ASSUME NEW k \in WriteKeys  PROVE AcceptedBytes(k) = PublishedBytes(k)'
  <2>1. AcceptedBytes(k) = obj[k].content
    BY <1>1, <1>2, <1>4 DEF Accounted, Receiving, Pending
  <2>2. CASE k = Blob
    BY <1>5, <2>1, <2>2 DEF PublishedBytes
  <2>3. CASE k # Blob
    <3>1. k \in Parts /\ mode = "multipart"
      BY <2>3, PartKey, PartMode
    <3>2. PartFits(k) /\ obj[k] # Absent
      BY <1>1, <1>2, <1>4, <3>1 DEF PartsKnowing, SessionFits, PartFits, Pending, Lost, Unharmed, Here
    <3>3. obj[k].content = obj[Blob].content[k]
      BY <1>4, <3>2 DEF PartFits
    <3> QED  BY <1>5, <2>1, <2>3, <3>3 DEF PublishedBytes
  <2> QED  BY <2>2, <2>3
<1>8. ASSUME NEW k \in Keys
      PROVE  AcceptedBytes(k)' = AcceptedBytes(k) /\ Published'[k] = AcceptedBytes(k)
  <2>1. CASE k \in WriteKeys
    <3>1. AcceptedBytes(k)' = PublishedBytes(k)' /\ Published'[k] = PublishedBytes(k)'
      BY <1>1, <1>2, <2>1 DEF Accounted, View, PhaseFacts
    <3> QED  BY <1>7, <2>1, <3>1
  <2>2. CASE k \notin WriteKeys
    BY <1>1, <2>2 DEF View, PhaseFacts
  <2> QED  BY <2>1, <2>2
<1> QED
  BY <1>6, <1>8, AbstractPublish

LEMMA PublicationStep ==
  ASSUME TypeInv, TypeInv', Settled, IntactInv, IntactInv', PartsInv, View, View',
         Unharmed, Unharmed', [Next]_vars
  PROVE  Promise
<1>1. mode' = mode /\ WriteKeys' = WriteKeys /\ RowChange /\ Outcome(row, row')
  BY UpsetGrows, RowSteps, StepOutcome DEF WriteKeys, Unharmed, Settled
<1>2. \A k \in Keys : k \notin WriteKeys => AcceptedBytes(k) = None /\ AcceptedBytes(k)' = None
  BY <1>1 DEF View, PhaseFacts
<1>3. /\ row.status \in {"pending", "completed", "gone"}
      /\ row'.status \in {"pending", "completed", "gone"}
  BY DEF TypeInv, RowType
<1>4. CASE row.status = "gone"
  <2>1. row'.status = "gone"
    BY <1>1, <1>4 DEF Outcome
  <2> QED  BY <1>4, <2>1, AbstractStutter DEF View, PhaseFacts
<1>5. CASE row.status = "completed"
  <2>1. row'.status = "completed" /\ row'.published = row.published
    BY <1>1, <1>5 DEF Outcome
  <2>2. Accounted /\ Accounted'
    BY <1>5, <2>1 DEF View, AccountInv
  <2>3. Published' = Published /\ \A k \in Keys : PublishedBytes(k)' = PublishedBytes(k)
    BY <1>1, <1>5, <2>1 DEF Published, PublishedBytes
  <2>4. \A k \in Keys : AcceptedBytes(k)' = AcceptedBytes(k)
    BY <1>1, <1>2, <1>5, <2>1, <2>2, <2>3, PartKey DEF Accounted
  <2>5. SessionPhase' = SessionPhase
    BY <1>5, <2>1 DEF View, PhaseFacts
  <2> QED  BY <2>3, <2>4, <2>5, AbstractStutter
<1>6. CASE Pending(row) /\ row'.status = "gone"
  <2>1. SessionPhase \in {"open", "closed"} /\ SessionPhase' = "discarded"
    BY <1>6 DEF View, PhaseFacts
  <2>2. Published' = Published /\ \A k \in Keys : AcceptedBytes(k)' = None
    BY <1>6 DEF View, PhaseFacts, Pending
  <2> QED  BY <2>1, <2>2, AbstractDiscard
<1>7. CASE Pending(row) /\ row'.status = "completed"
  BY <1>1, <1>7, PublishStep
<1>8. CASE Pending(row) /\ Pending(row') /\ ~Receiving(row)
  <2>1. row.commit_state # "receiving" /\ row.status = "pending" /\ row'.status = "pending"
    BY <1>8 DEF Receiving, Pending
  <2>2. row'.commit_state # "receiving"
    <3>1. CASE StatementRuns
      <4>1. PICK op \in Statements : \E l \in Locals : Active(op, l) /\ row' = RowAfter(op, l)
        BY <3>1 DEF StatementRuns
      <4>2. PICK l \in Locals : row' = RowAfter(op, l)
        BY <4>1
      <4> QED  BY <2>1, <4>2, StatementGoes DEF TypeInv
    <3>2. row' # Dropped(row)
      BY <2>1 DEF Dropped, TypeInv, RowType
    <3> QED  BY <1>1, <2>1, <3>1, <3>2 DEF RowChange, SameSession
  <2>3. ASSUME NEW k \in WriteKeys  PROVE AcceptedBytes(k)' = AcceptedBytes(k)
    <3>1. Knowing /\ PartsKnowing /\ Accounted /\ Accounted'
      BY <2>1 DEF View, AccountInv, IntactInv, PartsInv, Unharmed
    <3>2. obj'[k] = obj[k]
      BY <1>8, <2>1, <3>1, StagedStay DEF Unharmed
    <3>3. AcceptedBytes(k) = obj[k].content
      BY <1>8, <3>1 DEF Accounted
    <3>4. AcceptedBytes(k)' = obj'[k].content
      BY <1>1, <2>1, <2>2, <3>1 DEF Accounted, Receiving, Pending
    <3> QED  BY <3>2, <3>3, <3>4
  <2>4. SessionPhase' = SessionPhase /\ Published' = Published
    BY <2>1, <2>2 DEF View, PhaseFacts, Receiving, Pending
  <2> QED  BY <1>2, <2>3, <2>4, AbstractStutter
<1>9. CASE Receiving(row) /\ Pending(row') /\ ~Receiving(row')
  <2>1. /\ row.status = "pending" /\ row'.status = "pending" /\ row.commit_state = "receiving"
        /\ row'.commit_state # "receiving"
    BY <1>9 DEF Receiving, Pending
  <2>2. obj' = obj
    BY <1>1, <2>1 DEF RowChange, SameSession, Dropped, StatementRuns, TypeInv, RowType
  <2>3. Accounted /\ Accounted'
    BY <2>1 DEF View, AccountInv
  <2>4. ASSUME NEW k \in WriteKeys
        PROVE  /\ AcceptedBytes(k)' \in Contents
               /\ AcceptedBytes(k) # None => AcceptedBytes(k)' = AcceptedBytes(k)
    <3>1. AcceptedBytes(k) # None => AcceptedBytes(k) = obj[k].content
      BY <1>9, <2>3 DEF Accounted
    <3>2. AcceptedBytes(k)' = obj'[k].content /\ obj'[k].content \in Contents
      BY <1>1, <2>1, <2>3 DEF Accounted, Receiving, Pending
    <3> QED  BY <2>2, <3>1, <3>2
  <2>5. SessionPhase = "open" /\ SessionPhase' = "closed" /\ Published' = Published
    BY <2>1 DEF View, PhaseFacts, Receiving, Pending
  <2> QED  BY <1>2, <2>4, <2>5, AbstractClose
<1>10. CASE Receiving(row) /\ Receiving(row')
  <2>1. Receiving(row)'
    BY <1>10 DEF Receiving, Pending
  <2> QED  BY <1>1, <1>10, <2>1, AcceptStep
<1> QED
  BY <1>3, <1>4, <1>5, <1>6, <1>7, <1>8, <1>9, <1>10 DEF Receiving, Pending

LEMMA InitPublication == Init => Publication!Init
<1> SUFFICES ASSUME Init  PROVE Publication!Init
  OBVIOUS
<1>1. /\ row.status = "pending" /\ row.commit_state = "receiving"
      /\ \A k \in Keys : row.ack[k].hash = None
  BY DEF Init, NoAck
<1>2. /\ SessionPhase = "open"
      /\ Accepted = [k \in Keys |-> None] /\ Published = [k \in Keys |-> None]
  BY <1>1 DEF SessionPhase, Accepted, AcceptedBytes, Published
<1> QED
  BY <1>2 DEF Publication!Init, Publication!Nothing

\* The session keeps its promise: bytes are accepted once per key while it is
\* open, completion keeps them, and publishes exactly these -- as long as no
\* rename lands after its request is gone and no power loss takes a body whose
\* request had not got to its directory fsync.
THEOREM SessionImplementsPublication == Spec /\ []Unharmed => ImplementsPublication
<1>1. TypeInv /\ Settled /\ IntactInv /\ PartsInv => View
  BY AcceptedAccounted, PhaseIs DEF View
<1>2. /\ TypeInv /\ TypeInv' /\ Settled /\ IntactInv /\ IntactInv' /\ PartsInv /\ View /\ View'
      /\ Unharmed /\ Unharmed' /\ [Next]_vars
      => [Publication!Next]_(Publication!vars)
  BY PublicationStep DEF Promise
<1> QED
  BY <1>1, <1>2, InitPublication, PartsInvariant, PTL
  DEF Spec, ImplementsPublication, Publication!Spec

\* A rename overruns its request only when a call is late.
LEMMA OverrunIsLate ==
  ASSUME late = {}, [Next]_vars
  PROVE  upset' \subseteq upset \cup {"torn"}
<1>1. ASSUME NEW i \in Clients, ClientStep(i)  PROVE upset' = upset
  <2>1. CASE PutStep(i)
    BY <2>1
    DEF PutStep, PutBegin, RecordBegin, PutAccept, PutRename, PutSync, PutAck, RecordAck,
        PutReply, history
  <2> QED
    BY <1>1, <2>1
    DEF ClientStep, CompleteUpload, FinishBegin, AbortBegin, AbortCompleted, history
<1>2. ASSUME JobStep  PROVE upset' = upset
  BY <1>2 DEF JobStep, RecoverCommits, FinishBegin, SweepLoad, SweepBegin, SweepTx, history
<1>3. ASSUME NEW i \in Procs, FinishStep(i) \/ AbortStep(i)  PROVE upset' = upset
  BY <1>3
  DEF FinishStep, FinishFreeze, FinishReuse, FinishSync, FinishCheckParts, FinishRead,
      FinishRename, FinishSettle, FinishStage, FinishVerify, FinishCommit, FinishClean,
      FinishMark, FinishReply, AbortStep, AbortTx, AbortParts, AbortBlob, AbortReply, history
<1>4. ASSUME NEW i \in Procs, CleanupFails(i) \/ Interrupt(i) \/ Refuse(i)
      PROVE  upset' \subseteq upset \cup {"torn"}
  BY <1>4 DEF CleanupFails, Interrupt, Refuse, history
<1> QED
  BY <1>1, <1>2, <1>3, <1>4
  DEF Next, DeletePending, ToggleTrash, Expire, Crash, PowerLoss, Restart, vars, history

\* ... so that it keeps its promise without conditions where nothing outlives its
\* request and the machine does not lose power.
THEOREM UndisturbedSessionPublishes ==
  ASSUME ~Detach, ~PowerFails  PROVE Spec => ImplementsPublication
<1> DEFINE Alone == late = {} /\ "overrun" \notin upset
<1>1. Init => Alone
  BY DEF Init
<1>2. Alone /\ [Next]_vars => Alone'
  BY NothingLate, OverrunIsLate
<1>3. Alone => Unharmed
  BY DEF Unharmed, Calm, Frail
<1> QED
  BY <1>1, <1>2, <1>3, SessionImplementsPublication, PTL DEF Spec
==============================================================================

------------------------- MODULE UploadSession_proof -------------------------
(***************************************************************************)
(* Proofs about one upload session, for any number of clients, parts and   *)
(* payloads and for any bounds.                                            *)
(***************************************************************************)
EXTENDS UploadSession, TLAPS

-----------------------------------------------------------------------------
(* Types.  A part only ever holds a payload: without that, what completion *)
(* assembles from the parts would not be bytes.                            *)

PartTyped(l) == l.key \in Parts => l.version.content \in Contents

ControlTyped == /\ pc \in [Procs -> Labels] /\ loc \in [Procs -> Locals]
                /\ \A j \in Procs : PartTyped(loc[j])
StoreTyped   == /\ obj \in [Keys -> Version] /\ durable \in [Keys -> Version]
                /\ \A p \in Parts :
                     /\ obj[p] = Absent \/ obj[p].content \in Contents
                     /\ durable[p] = Absent \/ durable[p].content \in Contents
LateTyped    == /\ late \subseteq [op : Statements \cup Renames, loc : Locals]
                /\ \A call \in late : PartTyped(call.loc)
SmallTyped   == /\ mode \in {"single", "multipart"} /\ expired \in BOOLEAN
                /\ clock \in Nat /\ puts \in Nat /\ faults \in Nat
                /\ told \in [Keys -> SUBSET (Bytes \cup {None})]
                /\ heard \subseteq {"completed", "aborted"}
                /\ upset \subseteq {"torn", "overrun"}
TypeInv      == ControlTyped /\ StoreTyped /\ LateTyped /\ SmallTyped /\ row \in RowType

\* No statement of the upload code changes the shape of a row.
LEMMA RowAfterType ==
  ASSUME row \in RowType, NEW op, NEW l \in Locals
  PROVE  RowAfter(op, l) \in RowType
<1> USE DEF RowType
<1>1. Acked(row, l) \in RowType
  BY DEF Acked, Locals
<1>2. Recorded(row, l) \in RowType
  BY DEF Recorded, Locals
<1>3. Frozen(row, l) \in RowType
  BY DEF Frozen, Locals, Ack
<1>4. Staged(row, l) \in RowType
  BY DEF Staged, Locals, Keys
<1>5. Committed(row, l) \in RowType
  BY DEF Committed, Locals
<1>6. Dropped(row) \in RowType
  BY DEF Dropped, NoAck, Ack
<1>7. Aborted(row) \in RowType /\ Swept(row) \in RowType
  BY <1>6 DEF Aborted, Swept
<1>8. Cleaned(row) \in RowType
  BY DEF Cleaned
<1> QED
  BY <1>1, <1>2, <1>3, <1>4, <1>5, <1>7, <1>8 DEF RowAfter

LEMMA DroppedType == ASSUME row \in RowType PROVE Dropped(row) \in RowType
  BY DEF RowType, Dropped, NoAck, Ack

\* A process that moves on keeps the shape of its program counter and locals.
LEMMA GotoType ==
  ASSUME TypeInv, NEW i \in Procs, NEW label \in Labels, NEW l \in Locals,
         PartTyped(l), Goto(i, label, l)
  PROVE  /\ pc' \in [Procs -> Labels] /\ loc' \in [Procs -> Locals]
         /\ \A j \in Procs : PartTyped(loc'[j])
  BY DEF Goto, TypeInv, ControlTyped

LEMMA NoLocType == NoLoc \in Locals /\ PartTyped(NoLoc) /\ Absent \in Version
  BY SessionAssumption
  DEF NoLoc, Locals, Keys, Version, Ack, Absent, NoAck, NoList, PartTyped

LEMMA AckOfType == ASSUME NEW v \in Version PROVE AckOf(v) \in Ack
  BY DEF AckOf, Version, Ack

\* What a process reads of the store, and may then carry in its locals.
LEMMA StoredType ==
  ASSUME TypeInv, NEW k \in Keys
  PROVE  /\ obj[k] \in Version
         /\ obj[k].stamp \in Nat /\ obj[k].content \in Bytes \cup {None}
         /\ k \in Parts /\ Stored(k) => obj[k].content \in Contents
  BY DEF TypeInv, StoreTyped, Version, Stored

LEMMA StopType ==
  ASSUME TypeInv, NEW i \in Procs, Stop(i) PROVE ControlTyped'
  BY GotoType, NoLocType DEF Stop, ControlTyped, Labels, PartTyped

LEMMA MoveType ==
  ASSUME TypeInv, NEW i \in Procs, NEW label \in Labels, NEW l \in Locals,
         PartTyped(l), Goto(i, label, l)
  PROVE  ControlTyped'
  BY GotoType DEF ControlTyped, PartTyped

LEMMA SyncType ==
  ASSUME TypeInv, NEW k, SyncDirectory(k), obj' = obj
  PROVE  StoreTyped'
<1>1. durable' \in [Keys -> Version]
  BY DEF TypeInv, StoreTyped, SyncDirectory
<1>2. ASSUME NEW p \in Parts
      PROVE  durable'[p] = Absent \/ durable'[p].content \in Contents
  BY DEF TypeInv, StoreTyped, SyncDirectory, Keys
<1> QED
  BY <1>1, <1>2 DEF TypeInv, StoreTyped

LEMMA PutStepType ==
  ASSUME TypeInv, NEW i \in Clients, PutStep(i)
  PROVE  TypeInv'
<1> USE DEF TypeInv
<1> i \in Procs
  BY DEF Procs
<1>0. loc[i] \in Locals /\ PartTyped(loc[i]) /\ loc[i].key \in Keys
  BY DEF ControlTyped, Locals
<1>1. ASSUME NEW k \in Keys, NEW c \in Contents, PutBegin(i, k, c)
      PROVE  TypeInv'
  <2> DEFINE known == [content |-> c, stamp |-> 0]
             fresh == [content |-> c, stamp |-> clock + 1]
             accept == [NoLoc EXCEPT !.key = k, !.version = known]
             write  == [NoLoc EXCEPT !.key = k, !.version = fresh]
  <2>1. known \in Version /\ fresh \in Version
    BY DEF Version, Bytes, SmallTyped
  <2>2. /\ accept \in Locals /\ PartTyped(accept)
        /\ write \in Locals /\ PartTyped(write)
    <3>1. known.content = c /\ fresh.content = c
      OBVIOUS
    <3> HIDE DEF known, fresh
    <3>2. accept \in Locals /\ accept.version = known
      BY <2>1, NoLocType DEF Locals
    <3>3. write \in Locals /\ write.version = fresh
      BY <2>1, NoLocType DEF Locals
    <3> HIDE DEF accept, write
    <3> QED
      BY <3>1, <3>2, <3>3 DEF PartTyped
  <2>3. ControlTyped'
    BY <1>1, <2>2, MoveType DEF PutBegin, Labels, PartGuard
  <2> QED
    BY <1>1, <2>3 DEF PutBegin, session, store, history, SmallTyped, StoreTyped, LateTyped
<1>2. ASSUME NEW k \in Keys, RecordBegin(i, k)
      PROVE  TypeInv'
  <2> DEFINE l == [NoLoc EXCEPT !.key = k, !.version = obj[k], !.ack = AckOf(obj[k])]
  <2>1. obj[k] \in Version /\ AckOf(obj[k]) \in Ack
    BY StoredType, AckOfType
  <2>2. l \in Locals /\ l.key = k /\ l.version = obj[k]
    BY <2>1, NoLocType DEF Locals
  <2>3. obj[k].content \in Contents
    BY <1>2, StoredType DEF RecordBegin
  <2>4. Goto(i, "rec_ack", l)
    BY <1>2 DEF RecordBegin
  <2>5. ControlTyped'
    <3> HIDE DEF l
    <3> QED BY <2>2, <2>3, <2>4, MoveType DEF Labels, PartGuard, PartTyped
  <2> QED
    BY <1>2, <2>5 DEF RecordBegin, session, store, counts, history, SmallTyped, StoreTyped, LateTyped
<1>3. ASSUME PutAccept(i) \/ PutSync(i)
      PROVE  TypeInv'
  <2> DEFINE a == [etag |-> obj[loc[i].key].stamp, hash |-> loc[i].version.content]
             l == [loc[i] EXCEPT !.ack = a]
  <2>1. a \in Ack
    BY <1>0, StoredType DEF Ack, Locals, Version
  <2>2. l \in Locals /\ l.key = loc[i].key /\ l.version = loc[i].version
    <3> HIDE DEF a
    <3> QED BY <1>0, <2>1 DEF Locals
  <2>3. Goto(i, "put_ack", l)
    BY <1>3 DEF PutAccept, PutSync
  <2>4. ControlTyped'
    <3> HIDE DEF l
    <3> QED BY <1>0, <2>2, <2>3, MoveType DEF Labels, PartGuard, PartTyped
  <2>5. StoreTyped'
    BY <1>3, SyncType DEF PutAccept, PutSync, store, StoreTyped
  <2> QED
    BY <1>3, <2>4, <2>5 DEF PutAccept, PutSync, session, counts, history, SmallTyped, LateTyped
<1>4. CASE PutRename(i)
  <2>1. ControlTyped'
    BY <1>0, <1>4, MoveType DEF PutRename, Labels, PartGuard
  <2>2. StoreTyped'
    BY <1>0, <1>4 DEF PutRename, StoreTyped, Locals, PartTyped
  <2> QED
    BY <1>4, <2>1, <2>2 DEF PutRename, session, counts, history, SmallTyped, LateTyped
<1>5. CASE PutAck(i) \/ RecordAck(i)
  <2>1. ControlTyped'
    BY <1>0, <1>5, MoveType, StopType DEF PutAck, RecordAck, Labels
  <2>2. row' \in RowType
    BY <1>0, <1>5, RowAfterType DEF PutAck, RecordAck
  <2> QED
    BY <1>5, <2>1, <2>2
    DEF PutAck, RecordAck, store, counts, history, SmallTyped, StoreTyped, LateTyped
<1>6. CASE PutReply(i)
  <2>1. loc[i].ack.hash \in Bytes \cup {None}
    BY <1>0 DEF Locals, Ack
  <2>2. told' \in [Keys -> SUBSET (Bytes \cup {None})]
    BY <1>0, <1>6, <2>1 DEF PutReply, SmallTyped
  <2>3. ControlTyped'
    BY <1>6, StopType DEF PutReply
  <2> QED
    BY <1>6, <2>2, <2>3 DEF PutReply, session, store, counts, SmallTyped, StoreTyped, LateTyped
<1> QED
  BY <1>1, <1>2, <1>3, <1>4, <1>5, <1>6 DEF PutStep

LEMMA RemovePartsType ==
  ASSUME TypeInv, NEW kept, RemoveParts(kept), durable' = durable
  PROVE  StoreTyped'
  BY NoLocType DEF TypeInv, StoreTyped, RemoveParts, Keys

LEMMA FinishStepType ==
  ASSUME TypeInv, NEW i \in Procs, FinishStep(i)
  PROVE  TypeInv'
<1> USE DEF TypeInv
<1>0. loc[i] \in Locals /\ PartTyped(loc[i]) /\ Blob \in Keys
  BY DEF ControlTyped, Keys
<1>1. CASE FinishFreeze(i) \/ FinishStage(i) \/ FinishCommit(i) \/ FinishMark(i)
  <2>1. ControlTyped'
    BY <1>0, <1>1, MoveType, StopType
    DEF FinishFreeze, FinishStage, FinishCommit, FinishMark, Labels, WriteGuard
  <2>2. row' \in RowType
    BY <1>0, <1>1, RowAfterType DEF FinishFreeze, FinishStage, FinishCommit, FinishMark
  <2> QED
    BY <1>1, <2>1, <2>2
    DEF FinishFreeze, FinishStage, FinishCommit, FinishMark, store, counts, history,
        SmallTyped, StoreTyped, LateTyped
<1>2. CASE FinishReuse(i) \/ FinishSettle(i)
  <2> DEFINE reuse  == [loc[i] EXCEPT !.ack = AckOf(obj[Blob])]
             a      == [etag |-> obj[Blob].stamp, hash |-> loc[i].version.content]
             settle == [loc[i] EXCEPT !.ack = a]
  <2>1. AckOf(obj[Blob]) \in Ack /\ a \in Ack
    BY <1>0, StoredType, AckOfType DEF Ack, Locals, Version
  <2>2. /\ reuse \in Locals /\ reuse.key = loc[i].key /\ reuse.version = loc[i].version
        /\ settle \in Locals /\ settle.key = loc[i].key /\ settle.version = loc[i].version
    <3> HIDE DEF a
    <3> QED BY <1>0, <2>1 DEF Locals
  <2>3. \E label \in Labels, l \in {loc[i], reuse, settle} : Goto(i, label, l)
    BY <1>2 DEF FinishReuse, FinishSettle, Labels, WriteGuard
  <2>4. ControlTyped'
    <3> HIDE DEF reuse, settle
    <3> QED BY <1>0, <2>2, <2>3, MoveType DEF PartTyped
  <2>5. StoreTyped'
    BY <1>2, SyncType DEF FinishReuse, FinishSettle, store, StoreTyped
  <2> QED
    BY <1>2, <2>4, <2>5
    DEF FinishReuse, FinishSettle, session, counts, history, SmallTyped, LateTyped
<1>3. CASE FinishSync(i) \/ FinishCheckParts(i) \/ FinishVerify(i)
  <2>1. ControlTyped'
    BY <1>0, <1>3, MoveType DEF FinishSync, FinishCheckParts, FinishVerify, Labels, WriteGuard
  <2>2. StoreTyped'
    BY <1>3, SyncType DEF FinishSync, FinishCheckParts, FinishVerify, store, StoreTyped
  <2> QED
    BY <1>3, <2>1, <2>2
    DEF FinishSync, FinishCheckParts, FinishVerify, session, counts, history,
        SmallTyped, LateTyped
<1>4. CASE FinishRead(i)
  <2> DEFINE v == [content |-> [p \in Parts |-> obj[p].content], stamp |-> clock + 1]
             l == [loc[i] EXCEPT !.key = Blob, !.version = v]
  <2>1. [p \in Parts |-> obj[p].content] \in [Parts -> Contents]
    BY <1>4, StoredType DEF FinishRead, Keys
  <2>2. v \in Version
    BY <2>1 DEF Version, Bytes, SmallTyped
  <2>3. l \in Locals /\ l.key = Blob
    <3> HIDE DEF v
    <3> QED BY <1>0, <2>2 DEF Locals
  <2>4. Goto(i, "fin_rename", l)
    BY <1>4 DEF FinishRead
  <2>5. ControlTyped'
    <3> HIDE DEF l
    <3> QED BY <2>3, <2>4, MoveType, SessionAssumption DEF Labels, WriteGuard, PartTyped
  <2> QED
    BY <1>4, <2>5 DEF FinishRead, session, store, history, SmallTyped, StoreTyped, LateTyped
<1>5. CASE FinishRename(i)
  <2>1. ControlTyped'
    BY <1>0, <1>5, MoveType DEF FinishRename, Labels, WriteGuard
  <2>2. StoreTyped'
    BY <1>0, <1>5, SessionAssumption DEF FinishRename, StoreTyped, Locals
  <2> QED
    BY <1>5, <2>1, <2>2 DEF FinishRename, session, counts, history, SmallTyped, LateTyped
<1>6. CASE FinishClean(i)
  <2>1. ControlTyped'
    BY <1>0, <1>6, MoveType DEF FinishClean, Labels, WriteGuard
  <2>2. StoreTyped'
    BY <1>6, RemovePartsType DEF FinishClean
  <2> QED
    BY <1>6, <2>1, <2>2 DEF FinishClean, session, counts, history, SmallTyped, LateTyped
<1>7. CASE FinishReply(i)
  <2>1. ControlTyped'
    BY <1>7, StopType DEF FinishReply
  <2> QED
    BY <1>7, <2>1 DEF FinishReply, session, store, counts, SmallTyped, StoreTyped, LateTyped
<1> QED
  BY <1>1, <1>2, <1>3, <1>4, <1>5, <1>6, <1>7 DEF FinishStep

\* A completion begins with the session's own tag and hash, and with the tags
\* of the stored parts.
LEMMA FinishBeginType ==
  ASSUME TypeInv, NEW i \in Procs, NEW explicit, FinishBegin(i, explicit)
  PROVE  TypeInv'
<1> USE DEF TypeInv
<1> DEFINE record == [NoLoc EXCEPT !.ack = row.ack[Blob]]
           tags   == [p \in Parts |-> obj[p].stamp]
           listed == [record EXCEPT !.list = tags]
<1>1. row.ack[Blob] \in Ack /\ tags \in [Parts -> Nat]
  BY StoredType DEF RowType, Keys
<1>2. record \in Locals /\ PartTyped(record)
  BY <1>1, NoLocType DEF Locals, PartTyped
<1>3. listed \in Locals /\ PartTyped(listed)
  <2> HIDE DEF record, tags
  <2> QED BY <1>1, <1>2 DEF Locals, PartTyped
<1>4. \E label \in Labels, l \in {record, listed} : Goto(i, label, l)
  BY DEF FinishBegin, Labels, WriteGuard
<1>5. ControlTyped'
  <2> HIDE DEF record, listed
  <2> QED BY <1>2, <1>3, <1>4, MoveType
<1> QED
  BY <1>5 DEF FinishBegin, session, store, counts, history, SmallTyped, StoreTyped, LateTyped

LEMMA AbortType ==
  ASSUME TypeInv, NEW i \in Procs,
         \/ AbortStep(i) \/ AbortCompleted(i)
         \/ \E expired_only \in BOOLEAN : AbortBegin(i, expired_only)
         \/ CleanupFails(i)
         \/ i = Maintenance /\ (SweepLoad \/ SweepBegin \/ SweepTx)
  PROVE  TypeInv'
<1> USE DEF TypeInv
<1>0. loc[i] \in Locals /\ PartTyped(loc[i])
  BY DEF ControlTyped
<1> DEFINE Here == \E label \in Labels, l \in {loc[i], NoLoc} : Goto(i, label, l)
<1>1. ASSUME Here PROVE ControlTyped'
  BY <1>0, <1>1, MoveType, NoLocType
<1>2. CASE AbortTx(i) \/ (i = Maintenance /\ SweepTx)
  <2>1. Here
    BY <1>2 DEF AbortTx, SweepTx, Stop, Labels, WriteGuard
  <2>2. row' \in RowType
    BY <1>0, <1>2, RowAfterType DEF AbortTx, SweepTx
  <2> QED
    BY <1>1, <1>2, <2>1, <2>2
    DEF AbortTx, SweepTx, store, counts, history, SmallTyped, StoreTyped, LateTyped
<1>3. CASE AbortParts(i) \/ AbortBlob(i)
  <2>1. Here
    BY <1>3 DEF AbortParts, AbortBlob, Stop, Labels, WriteGuard
  <2>2. StoreTyped'
    BY <1>3, RemovePartsType, NoLocType, SessionAssumption
    DEF AbortParts, AbortBlob, StoreTyped, Keys
  <2> QED
    BY <1>1, <1>3, <2>1, <2>2
    DEF AbortParts, AbortBlob, session, counts, history, SmallTyped, LateTyped
<1>4. CASE AbortReply(i)
  <2>1. Here
    BY <1>4 DEF AbortReply, Stop, Labels
  <2> QED
    BY <1>1, <1>4, <2>1
    DEF AbortReply, session, store, counts, SmallTyped, StoreTyped, LateTyped
<1>5. CASE \/ AbortCompleted(i) \/ (i = Maintenance /\ (SweepLoad \/ SweepBegin))
           \/ \E expired_only \in BOOLEAN : AbortBegin(i, expired_only)
  <2>1. Here
    BY <1>5 DEF AbortCompleted, SweepLoad, SweepBegin, AbortBegin, Labels, WriteGuard
  <2> QED
    BY <1>1, <1>5, <2>1
    DEF AbortCompleted, SweepLoad, SweepBegin, AbortBegin, session, store, counts,
        history, SmallTyped, StoreTyped, LateTyped
<1>6. CASE CleanupFails(i)
  <2>1. Here
    BY <1>6 DEF CleanupFails, Stop, Labels, WriteGuard
  <2>2. StoreTyped'
    BY <1>6, RemovePartsType DEF CleanupFails
  <2> QED
    BY <1>1, <1>6, <2>1, <2>2 DEF CleanupFails, session, history, SmallTyped, LateTyped
<1> QED
  BY <1>2, <1>3, <1>4, <1>5, <1>6 DEF AbortStep

\* Interruptions, landing calls, restarts and what users do to the file row.
LEMMA EnvironmentType ==
  ASSUME TypeInv,
         \/ \E i \in Procs : Interrupt(i) \/ Refuse(i)
         \/ \E call \in late : Land(call)
         \/ DeletePending \/ ToggleTrash \/ Expire \/ Crash \/ PowerLoss
  PROVE  TypeInv'
<1> USE DEF TypeInv
<1>1. ASSUME NEW i \in Procs, Interrupt(i) PROVE TypeInv'
  <2>1. ControlTyped'
    BY <1>1, StopType DEF Interrupt
  <2>2. LateTyped'
    BY <1>1 DEF Interrupt, LateTyped, ControlTyped
  <2> QED
    BY <1>1, <2>1, <2>2 DEF Interrupt, session, store, SmallTyped, StoreTyped
<1>2. ASSUME NEW i \in Procs, Refuse(i) PROVE TypeInv'
  <2>1. ControlTyped'
    BY <1>2, StopType DEF Refuse
  <2> QED
    BY <1>2, <2>1
    DEF Refuse, session, store, counts, history, SmallTyped, StoreTyped, LateTyped
<1>3. ASSUME NEW call \in late, Land(call) PROVE TypeInv'
  <2>1. call.loc \in Locals /\ PartTyped(call.loc)
    BY DEF LateTyped
  <2>2. row' \in RowType
    BY <1>3, <2>1, RowAfterType DEF Land
  <2>3. StoreTyped'
    <3>1. CASE call.op \in Renames
      <4>1. /\ call.loc.key \in Keys /\ call.loc.version \in Version
            /\ call.loc.key \in Parts => call.loc.version.content \in Contents
        BY <2>1 DEF Locals, PartTyped
      <4>2. obj' = [obj EXCEPT ![call.loc.key] = call.loc.version] /\ durable' = durable
        BY <1>3, <3>1 DEF Land
      <4> QED
        BY <4>1, <4>2 DEF StoreTyped
    <3>2. CASE call.op \notin Renames
      BY <1>3, <3>2 DEF Land, StoreTyped
    <3> QED
      BY <3>1, <3>2
  <2>4. LateTyped'
    BY <1>3 DEF Land, LateTyped
  <2> QED
    BY <1>3, <2>2, <2>3, <2>4 DEF Land, control, counts, ControlTyped, SmallTyped
<1>4. CASE DeletePending \/ ToggleTrash \/ Expire
  <2>1. row' \in RowType
    <3>1. CASE DeletePending
      BY <3>1, DroppedType DEF DeletePending
    <3>2. CASE ToggleTrash
      BY <3>2 DEF ToggleTrash, RowType
    <3>3. CASE Expire
      BY <3>3 DEF Expire
    <3> QED
      BY <1>4, <3>1, <3>2, <3>3
  <2> QED
    BY <1>4, <2>1
    DEF DeletePending, ToggleTrash, Expire, store, control, counts, history,
        ControlTyped, SmallTyped, StoreTyped, LateTyped
<1>5. CASE Crash \/ PowerLoss
  <2>1. ControlTyped'
    BY <1>5, NoLocType DEF Crash, PowerLoss, Restart, ControlTyped, Labels
  <2>2. LateTyped' /\ SmallTyped'
    BY <1>5 DEF Crash, PowerLoss, Restart, LateTyped, SmallTyped, session
  <2>3. StoreTyped'
    BY <1>5 DEF Crash, PowerLoss, store, StoreTyped, Keys
  <2> QED
    BY <1>5, <2>1, <2>2, <2>3 DEF Crash, PowerLoss, session
<1> QED
  BY <1>1, <1>2, <1>3, <1>4, <1>5

LEMMA InitTyped == Init => TypeInv
<1> SUFFICES ASSUME Init PROVE TypeInv
  OBVIOUS
<1>1. NoAck \in Ack
  BY DEF NoAck, Ack
<1>2. row \in RowType
  BY <1>1 DEF Init, RowType
<1>3. ControlTyped
  BY NoLocType DEF Init, ControlTyped, Labels
<1>4. StoreTyped /\ LateTyped
  BY NoLocType DEF Init, StoreTyped, LateTyped, Keys
<1>5. SmallTyped
  BY SessionAssumption DEF Init, SmallTyped
<1> QED
  BY <1>2, <1>3, <1>4, <1>5 DEF TypeInv

LEMMA TypedStep == TypeInv /\ [Next]_vars => TypeInv'
<1> SUFFICES ASSUME TypeInv, [Next]_vars PROVE TypeInv'
  OBVIOUS
<1>1. ASSUME NEW i \in Clients, ClientStep(i) PROVE TypeInv'
  BY <1>1, PutStepType, FinishBeginType, AbortType DEF ClientStep, CompleteUpload, Procs
<1>2. CASE JobStep
  BY <1>2, FinishBeginType, AbortType DEF JobStep, RecoverCommits, Procs
<1>3. ASSUME NEW i \in Procs, FinishStep(i) \/ AbortStep(i) \/ CleanupFails(i)
      PROVE  TypeInv'
  BY <1>3, FinishStepType, AbortType
<1>4. CASE UNCHANGED vars
  BY <1>4 DEF vars, TypeInv, ControlTyped, StoreTyped, LateTyped, SmallTyped
<1> QED
  BY <1>1, <1>2, <1>3, <1>4, EnvironmentType DEF Next

\* Every variable keeps its type in every behaviour of the session.
THEOREM TypeCorrect == Spec => []TypeOK
<1>1. TypeInv => TypeOK
  BY DEF TypeInv, ControlTyped, StoreTyped, LateTyped, SmallTyped, TypeOK
<1> QED
  BY <1>1, InitTyped, TypedStep, PTL DEF Spec
-----------------------------------------------------------------------------
(* Answers.  The statements of the database alone keep a settled session   *)
(* as it is, whoever submitted them and however late they run.             *)

RowSettled(r) == /\ r.status = "completed" <=> r.file = "ready"
                 /\ r.status = "gone" <=> r.file = "gone"

Outcome(r, s) == r.status # "pending" => s.status = r.status /\ s.published = r.published

\* What a process has seen of the session still holds when it answers.
Witnessed(label, r) ==
  /\ label \in {"fin_clean", "fin_mark", "fin_reply"} => r.status = "completed"
  /\ label \in {"abort_parts", "abort_blob", "abort_reply"} => r.status \in {"completed", "gone"}

Settled == /\ RowSettled(row)
           /\ \A j \in Procs : Witnessed(pc[j], row)
           /\ AnswersHonoured

LEMMA StatementOutcome ==
  ASSUME row \in RowType, RowSettled(row), NEW op, NEW l \in Locals
  PROVE  /\ RowSettled(RowAfter(op, l)) /\ Outcome(row, RowAfter(op, l))
<1> DEFINE Fine(r) == RowSettled(r) /\ Outcome(row, r)
<1> USE DEF RowType, RowSettled, Outcome, Pending, Receiving
<1>1. Fine(Acked(row, l)) /\ Fine(Recorded(row, l))
  BY DEF Acked, Recorded
<1>2. Fine(Frozen(row, l)) /\ Fine(Staged(row, l))
  BY DEF Frozen, Staged, CanStage
<1>3. Fine(Committed(row, l))
  BY DEF Committed, CanCommit
<1>4. Fine(Aborted(row)) /\ Fine(Swept(row))
  BY DEF Aborted, Swept, CanAbort, CanSweep, Dropped
<1>5. Fine(Cleaned(row)) /\ Fine(row)
  BY DEF Cleaned
<1> QED
  BY <1>1, <1>2, <1>3, <1>4, <1>5 DEF RowAfter

\* Every step leaves the row alone, runs a statement on it, or is a user's
\* change to an unfinished file.
LEMMA StepOutcome ==
  ASSUME TypeInv, RowSettled(row), [Next]_vars
  PROVE  RowSettled(row') /\ Outcome(row, row')
<1> DEFINE Fine == RowSettled(row') /\ Outcome(row, row')
<1> USE DEF TypeInv
<1>1. ASSUME UNCHANGED row PROVE Fine
  BY <1>1 DEF Outcome
<1>2. ASSUME NEW op, NEW l \in Locals, row' = RowAfter(op, l) PROVE Fine
  BY <1>2, StatementOutcome
<1>3. ASSUME NEW i \in Procs PROVE loc[i] \in Locals
  BY DEF ControlTyped
<1>4. ASSUME NEW i \in Clients, PutStep(i) PROVE Fine
  <2>1. i \in Procs
    BY DEF Procs
  <2>2. CASE PutAck(i) \/ RecordAck(i)
    BY <1>2, <1>3, <2>1, <2>2 DEF PutAck, RecordAck
  <2>3. CASE ~(PutAck(i) \/ RecordAck(i))
    BY <1>1, <1>4, <2>3
    DEF PutStep, PutBegin, RecordBegin, PutAccept, PutRename, PutSync, PutReply, session
  <2> QED
    BY <2>2, <2>3
<1>5. ASSUME NEW i \in Procs, FinishStep(i) PROVE Fine
  <2>1. CASE FinishFreeze(i) \/ FinishStage(i) \/ FinishCommit(i) \/ FinishMark(i)
    BY <1>2, <1>3, <2>1 DEF FinishFreeze, FinishStage, FinishCommit, FinishMark
  <2>2. CASE ~(FinishFreeze(i) \/ FinishStage(i) \/ FinishCommit(i) \/ FinishMark(i))
    BY <1>1, <1>5, <2>2
    DEF FinishStep, FinishReuse, FinishSync, FinishCheckParts, FinishRead, FinishRename,
        FinishSettle, FinishVerify, FinishClean, FinishReply, session
  <2> QED
    BY <2>1, <2>2
<1>6. ASSUME NEW i \in Procs, AbortStep(i) PROVE Fine
  <2>1. CASE AbortTx(i)
    BY <1>2, <1>3, <2>1 DEF AbortTx
  <2>2. CASE AbortParts(i) \/ AbortBlob(i) \/ AbortReply(i)
    BY <1>1, <2>2 DEF AbortParts, AbortBlob, AbortReply, session
  <2> QED
    BY <1>6, <2>1, <2>2 DEF AbortStep
<1>7. ASSUME NEW i \in Clients, ClientStep(i) PROVE Fine
  BY <1>1, <1>4, <1>7
  DEF ClientStep, CompleteUpload, FinishBegin, AbortBegin, AbortCompleted, session
<1>8. ASSUME JobStep PROVE Fine
  <2>1. CASE SweepTx
    BY <1>2, <1>3, <2>1 DEF SweepTx, Procs
  <2>2. CASE RecoverCommits \/ SweepLoad \/ SweepBegin
    BY <1>1, <2>2 DEF RecoverCommits, FinishBegin, SweepLoad, SweepBegin, session
  <2> QED
    BY <1>8, <2>1, <2>2 DEF JobStep
<1>9. ASSUME NEW i \in Procs, CleanupFails(i) \/ Interrupt(i) \/ Refuse(i) PROVE Fine
  BY <1>1, <1>9 DEF CleanupFails, Interrupt, Refuse, session
<1>10. ASSUME NEW call \in late, Land(call) PROVE Fine
  BY <1>2, <1>10 DEF Land, LateTyped
<1>11. CASE DeletePending
  BY <1>11 DEF DeletePending, Dropped, RowSettled, Outcome, RowType
<1>12. CASE ToggleTrash
  BY <1>12 DEF ToggleTrash, RowSettled, Outcome, RowType
<1>13. CASE Expire \/ Crash \/ PowerLoss \/ UNCHANGED vars
  BY <1>1, <1>13 DEF Expire, Crash, PowerLoss, vars, session
<1> QED
  BY <1>5, <1>6, <1>7, <1>8, <1>9, <1>10, <1>11, <1>12, <1>13 DEF Next

\* A label a process may take after the step, given the session after it.
LEMMA WitnessGoto ==
  ASSUME TypeInv, Settled, Outcome(row, row'),
         NEW i \in Procs, NEW label, NEW l, Goto(i, label, l), Witnessed(label, row')
  PROVE  \A j \in Procs : Witnessed(pc'[j], row')
  BY DEF Goto, Settled, Witnessed, Outcome, TypeInv, ControlTyped

LEMMA WitnessStep ==
  ASSUME TypeInv, Settled, [Next]_vars, Outcome(row, row')
  PROVE  \A j \in Procs : Witnessed(pc'[j], row')
<1> DEFINE Fine == \A j \in Procs : Witnessed(pc'[j], row')
<1>0. ASSUME NEW i \in Procs PROVE Witnessed(pc[i], row)
  BY DEF Settled
<1>1. ASSUME UNCHANGED pc PROVE Fine
  BY <1>1 DEF Settled, Witnessed, Outcome
<1>2. ASSUME NEW i \in Procs, Stop(i) PROVE Fine
  BY <1>2, WitnessGoto DEF Stop, Witnessed
<1>3. ASSUME NEW i \in Clients, PutStep(i) PROVE Fine
  <2>1. i \in Procs
    BY DEF Procs
  <2>2. CASE PutReply(i)
    BY <1>2, <2>1, <2>2 DEF PutReply
  <2>3. CASE ~PutReply(i)
    <3>1. Stop(i) \/ \E label \in {"put_accept", "put_rename", "put_sync", "put_ack",
                                   "rec_ack", "put_reply"} : \E l : Goto(i, label, l)
      BY <1>3, <2>3
      DEF PutStep, PutBegin, RecordBegin, PutAccept, PutRename, PutSync, PutAck, RecordAck
    <3> QED
      BY <1>2, <2>1, <3>1, WitnessGoto DEF Witnessed
  <2> QED
    BY <2>2, <2>3
<1>4. ASSUME NEW i \in Procs, FinishStep(i) PROVE Fine
  <2>1. CASE FinishCommit(i)
    <3>1. CASE CanCommit(row)
      <4>1. row'.status = "completed"
        BY <2>1, <3>1 DEF FinishCommit, RowAfter, Committed, TypeInv, RowType
      <4>2. Goto(i, "fin_clean", loc[i])
        BY <2>1, <3>1 DEF FinishCommit
      <4> QED
        BY <4>1, <4>2, WitnessGoto DEF Witnessed
    <3>2. CASE ~CanCommit(row)
      BY <1>2, <2>1, <3>2 DEF FinishCommit
    <3> QED
      BY <3>1, <3>2
  <2>2. CASE FinishClean(i) \/ FinishMark(i)
    <3>1. row.status = "completed" /\ row'.status = "completed"
      BY <1>0, <2>2 DEF FinishClean, FinishMark, Witnessed, Outcome
    <3>2. Goto(i, "fin_mark", loc[i]) \/ Goto(i, "fin_reply", loc[i])
      BY <2>2 DEF FinishClean, FinishMark
    <3> QED
      BY <3>1, <3>2, WitnessGoto DEF Witnessed
  <2>3. CASE FinishReply(i)
    BY <1>2, <2>3 DEF FinishReply
  <2>4. CASE ~(FinishCommit(i) \/ FinishClean(i) \/ FinishMark(i) \/ FinishReply(i))
    <3>1. Stop(i) \/ \E label \in {"fin_head", "fin_sync", "fin_read", "fin_rename",
                                   "fin_settle", "fin_stage", "fin_verify", "fin_commit"} : \E l :
                       Goto(i, label, l)
      BY <1>4, <2>4
      DEF FinishStep, FinishFreeze, FinishReuse, FinishSync, FinishCheckParts, FinishRead,
          FinishRename, FinishSettle, FinishStage, FinishVerify
    <3> QED
      BY <1>2, <3>1, WitnessGoto DEF Witnessed
  <2> QED
    BY <2>1, <2>2, <2>3, <2>4
<1>5. ASSUME NEW i \in Procs, NEW explicit, FinishBegin(i, explicit) PROVE Fine
  <2>1. CASE Goto(i, "fin_clean", [NoLoc EXCEPT !.ack = row.ack[Blob]])
              /\ row.status = "completed"
    <3>1. row'.status = "completed"
      BY <2>1 DEF Outcome
    <3> QED
      BY <2>1, <3>1, WitnessGoto DEF Witnessed
  <2>2. CASE \E label \in {"fin_freeze", "fin_head", "fin_verify"} : \E l : Goto(i, label, l)
    BY <2>2, WitnessGoto DEF Witnessed
  <2> QED
    BY <1>5, <2>1, <2>2 DEF FinishBegin
<1>6. ASSUME NEW i \in Procs, AbortTx(i) \/ (i = Maintenance /\ SweepTx) PROVE Fine
  <2>1. CASE Stop(i)
    BY <1>2, <2>1
  <2>2. CASE ~Stop(i)
    <3>1. /\ row' = Dropped(row)
          /\ \E l : Goto(i, "abort_parts", l)
      BY <1>6, <2>2 DEF AbortTx, SweepTx, RowAfter, Aborted, Swept
    <3>2. row'.status = "gone"
      BY <3>1 DEF Dropped, TypeInv, RowType
    <3> QED
      BY <3>1, <3>2, WitnessGoto DEF Witnessed
  <2> QED
    BY <2>1, <2>2
<1>7. ASSUME NEW i \in Procs, AbortParts(i) \/ AbortBlob(i) \/ AbortReply(i) PROVE Fine
  <2>1. row'.status \in {"completed", "gone"}
    BY <1>0, <1>7
    DEF AbortParts, AbortBlob, AbortReply, Witnessed, Outcome
  <2>2. Stop(i) \/ \E label \in {"abort_blob", "abort_reply"} : \E l : Goto(i, label, l)
    BY <1>7 DEF AbortParts, AbortBlob, AbortReply
  <2> QED
    BY <1>2, <2>1, <2>2, WitnessGoto DEF Witnessed
<1>8. ASSUME NEW i \in Procs,
             \/ i = Maintenance /\ (SweepLoad \/ SweepBegin)
             \/ \E expired_only \in BOOLEAN : AbortBegin(i, expired_only)
      PROVE  Fine
  <2>1. \E label \in {"sweep_wait", "sweep_tx", "reclaim_tx", "abort_tx"} :
           Goto(i, label, NoLoc)
    BY <1>8 DEF SweepLoad, SweepBegin, AbortBegin
  <2> QED
    BY <2>1, WitnessGoto DEF Witnessed
<1>9. ASSUME NEW i \in Procs, AbortCompleted(i) PROVE Fine
  <2>1. row'.status = "completed"
    BY <1>9 DEF AbortCompleted, Outcome
  <2> QED
    BY <1>9, <2>1, WitnessGoto DEF AbortCompleted, Witnessed
<1>10. ASSUME NEW i \in Clients, ClientStep(i) PROVE Fine
  BY <1>3, <1>5, <1>8, <1>9, <1>10 DEF ClientStep, CompleteUpload, Procs
<1>11. ASSUME JobStep PROVE Fine
  BY <1>5, <1>6, <1>8, <1>11 DEF JobStep, RecoverCommits, Procs
<1>12. ASSUME NEW i \in Procs, Interrupt(i) \/ Refuse(i) PROVE Fine
  BY <1>2, <1>12 DEF Interrupt, Refuse
<1>13. CASE Crash \/ PowerLoss
  BY <1>13 DEF Crash, PowerLoss, Restart, Witnessed
<1>14. CASE \/ \E call \in late : Land(call)
            \/ DeletePending \/ ToggleTrash \/ Expire \/ UNCHANGED vars
  BY <1>1, <1>14 DEF Land, DeletePending, ToggleTrash, Expire, control, vars
<1>15. ASSUME NEW i \in Procs, CleanupFails(i) PROVE Fine
  <2>1. /\ pc[i] = "fin_clean" => row'.status = "completed"
        /\ pc[i] # "fin_clean" => row'.status \in {"completed", "gone"}
    BY <1>0, <1>15 DEF CleanupFails, Witnessed, Outcome
  <2>2. \/ Stop(i)
        \/ pc[i] = "fin_clean" /\ Goto(i, "fin_reply", loc[i])
        \/ /\ pc[i] # "fin_clean"
           /\ \E label \in {"abort_blob", "abort_reply"} : \E l : Goto(i, label, l)
    BY <1>15 DEF CleanupFails
  <2> QED
    BY <1>2, <2>1, <2>2, WitnessGoto DEF Witnessed
<1> QED
  BY <1>4, <1>6, <1>7, <1>10, <1>11, <1>12, <1>13, <1>14, <1>15 DEF Next, AbortStep

\* Only the two replies add to what the clients have heard.
LEMMA HeardStep ==
  ASSUME [Next]_vars
  PROVE  \/ heard' = heard
         \/ \E i \in Procs : /\ pc[i] = "fin_reply" /\ FinishReply(i)
                             /\ heard' \subseteq heard \cup {"completed"}
         \/ \E i \in Procs : /\ pc[i] = "abort_reply" /\ AbortReply(i)
                             /\ heard' \subseteq heard \cup {"aborted"}
<1> DEFINE Fine == \/ heard' = heard
                   \/ \E i \in Procs : /\ pc[i] = "fin_reply" /\ FinishReply(i)
                                       /\ heard' \subseteq heard \cup {"completed"}
                   \/ \E i \in Procs : /\ pc[i] = "abort_reply" /\ AbortReply(i)
                                       /\ heard' \subseteq heard \cup {"aborted"}
<1>1. ASSUME NEW i \in Clients, ClientStep(i) PROVE heard' = heard
  <2>1. CASE PutStep(i)
    BY <2>1
    DEF PutStep, PutBegin, RecordBegin, PutAccept, PutRename, PutSync, PutAck,
        RecordAck, PutReply, history
  <2> QED
    BY <1>1, <2>1
    DEF ClientStep, CompleteUpload, FinishBegin, AbortBegin, AbortCompleted, history
<1>2. ASSUME JobStep PROVE heard' = heard
  BY <1>2
  DEF JobStep, RecoverCommits, FinishBegin, SweepLoad, SweepBegin, SweepTx, history
<1>3. ASSUME NEW i \in Procs, FinishStep(i) PROVE Fine
  <2>1. CASE FinishReply(i)
    BY <2>1 DEF FinishReply
  <2>2. CASE ~FinishReply(i)
    BY <1>3, <2>2
    DEF FinishStep, FinishFreeze, FinishReuse, FinishSync, FinishCheckParts, FinishRead,
        FinishRename, FinishSettle, FinishStage, FinishVerify, FinishCommit, FinishClean,
        FinishMark, history
  <2> QED
    BY <2>1, <2>2
<1>4. ASSUME NEW i \in Procs, AbortStep(i) PROVE Fine
  <2>1. CASE AbortReply(i)
    BY <2>1 DEF AbortReply
  <2>2. CASE ~AbortReply(i)
    BY <1>4, <2>2 DEF AbortStep, AbortTx, AbortParts, AbortBlob, history
  <2> QED
    BY <2>1, <2>2
<1>5. CASE \/ \E i \in Procs : CleanupFails(i) \/ Interrupt(i) \/ Refuse(i)
           \/ \E call \in late : Land(call)
           \/ DeletePending \/ ToggleTrash \/ Expire \/ Crash \/ PowerLoss
           \/ UNCHANGED vars
  BY <1>5 DEF CleanupFails, Interrupt, Refuse, Land, DeletePending, ToggleTrash, Expire, Crash,
              PowerLoss, Restart, history, vars
<1> QED
  BY <1>1, <1>2, <1>3, <1>4, <1>5 DEF Next

\* The type invariant and what answers rest on, kept together by every step.
LEMMA SettledStep ==
  ASSUME TypeInv, Settled, [Next]_vars
  PROVE  Settled'
<1>1. RowSettled(row') /\ Outcome(row, row')
  BY StepOutcome DEF Settled
<1>2. \A j \in Procs : Witnessed(pc'[j], row')
  BY <1>1, WitnessStep
<1>3. AnswersHonoured'
  <2>1. CASE heard' = heard
    BY <1>1, <2>1 DEF Settled, AnswersHonoured, Outcome
  <2>2. ASSUME NEW i \in Procs, pc[i] = "fin_reply", FinishReply(i),
               heard' \subseteq heard \cup {"completed"}
        PROVE  AnswersHonoured'
    BY <1>1, <2>2 DEF Settled, AnswersHonoured, Outcome, Witnessed
  <2>3. ASSUME NEW i \in Procs, pc[i] = "abort_reply", AbortReply(i),
               heard' \subseteq heard \cup {"aborted"}
        PROVE  AnswersHonoured'
    BY <1>1, <2>3 DEF Settled, AnswersHonoured, Outcome, Witnessed
  <2> QED
    BY <2>1, <2>2, <2>3, HeardStep
<1> QED
  BY <1>1, <1>2, <1>3 DEF Settled

LEMMA InitSettled == Init => Settled
  BY DEF Init, Settled, RowSettled, Witnessed, AnswersHonoured

\* No client is ever told of an outcome that is not, or does not stay, the
\* session's: completions stay published, removals are never undone.
THEOREM AnswersCorrect == Spec => []AnswersHonoured /\ AnswersFinal
<1>1. TypeInv /\ Settled /\ [Next]_vars => Settled'
  BY SettledStep
<1>2. TypeInv /\ Settled /\ [Next]_vars
      => [row.status # "pending"
          => row'.status = row.status /\ row'.published = row.published]_vars
  BY StepOutcome DEF Settled, Outcome
<1>3. Settled => AnswersHonoured
  BY DEF Settled
<1> QED
  BY <1>1, <1>2, <1>3, InitTyped, TypedStep, InitSettled, PTL DEF Spec, AnswersFinal

\* A finished session keeps its outcome: neither a handler that resumes nor a
\* statement that lands late publishes what was aborted, or the other way round.
THEOREM AnswersAreFinal == Spec => AnswersFinal
  BY AnswersCorrect, PTL

=============================================================================

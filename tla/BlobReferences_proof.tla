------------------------- MODULE BlobReferences_proof -------------------------
(***************************************************************************)
(* Blobs and what refers to them, for any number of documents, keys,       *)
(* editors, versions and faults: referenced blobs are never deleted (the   *)
(* argument in sets of keys, then one step per action), the types, no save *)
(* is stale and no content is lost (what requests remember), and every     *)
(* other blob is accounted for (what the queue and its pass know).         *)
(***************************************************************************)
EXTENDS BlobReferences, FiniteSetTheorems, TLAPS

Refd  == {k \in Keys : Needed(k)}
Mine  == {k \in Keys : Held(k)}
InRow == {k \in Keys : queue[k] # None}

\* What the pass may still touch, and what it is about to delete.
Touched ==
  {c[1] : c \in worker.todo}
    \cup (IF worker.pc \in {"delete", "remove"} THEN {worker.cur[1]} ELSE {})
Doomed == IF worker.pc = "delete" THEN {worker.cur[1]} ELSE {}

\* A key in the hands of a request is known to nobody else; a key that is going
\* to be deleted is neither in such hands nor referenced.
Apart ==
  /\ Refd \subseteq blobs /\ Mine \subseteq blobs \ old
  /\ Mine \cap Refd = {} /\ Mine \cap InRow = {}
  /\ old \subseteq blobs /\ blobs \subseteq used /\ blobs \subseteq Keys
  /\ InRow \subseteq used
  /\ gc \subseteq used \ (Refd \cup Mine)
  /\ Touched \subseteq used \ Mine
  /\ Doomed \cap Refd = {}

Pending(r) == r.key \in Keys /\ r.file \in Files /\ r.op \in {"save", "create"}

ReqsOK ==
  /\ req \in [Editors -> Reqs]
  /\ \A e \in Editors :
       /\ req[e].pc \in {"commit", "discard"} => Pending(req[e])
       /\ req[e].key # None => Pending(req[e])
       /\ req[e].pc = "open" => req[e].file \in Files
  /\ \A s \in late : s.op = "remove" \/ Pending(s)

\* No two requests hold the same key.
Distinct ==
  /\ \A d, e \in Editors : req[d].key # None /\ req[d].key = req[e].key => d = e
  /\ \A e \in Editors : \A s \in late : s.op # "remove" => s.key # req[e].key
  /\ \A s, t \in late : s.op # "remove" /\ t.op # "remove" /\ s.key = t.key => s = t

RowsOK ==
  /\ file \in [Files -> Rows \cup {None}]
  /\ versions \in [Files -> Seq(Contents)]
  /\ rev \in [Files -> Nat] /\ undo \in 0..MaxUndo
  /\ \A f \in Files : Exists(f) \/ versions[f] = <<>>
  /\ DOMAIN queue = Keys /\ queue = [k \in Keys |-> queue[k]]

WorkerOK ==
  worker = [pc |-> worker.pc, todo |-> worker.todo, refs |-> worker.refs, cur |-> worker.cur]

IInv == RowsOK /\ ReqsOK /\ Distinct /\ WorkerOK /\ Apart

-----------------------------------------------------------------------------
(* Sets of keys.                                                           *)

\* Steps that create no blob and let none age.
LEMMA ApartKept ==
  ASSUME Apart,
         Refd' \subseteq Refd \cup (Mine \ Mine'), Mine' \subseteq Mine,
         InRow' \subseteq InRow \cup Refd, used \subseteq used',
         old' \subseteq old, blobs' \subseteq blobs, old' \subseteq blobs',
         Refd' \subseteq blobs', Mine' \subseteq blobs',
         gc' \subseteq gc, Touched' \subseteq Touched \cup InRow, Doomed' \cap Refd' = {}
  PROVE  Apart'
  BY DEF Apart

\* A blob under a new key.
LEMMA ApartWrite ==
  ASSUME Apart, NEW k \in Keys, k \notin used, blobs' = blobs \cup {k},
         Mine' \subseteq Mine \cup {k}, used \cup {k} \subseteq used',
         Refd' = Refd, InRow' = InRow, old' = old, gc' = gc,
         Touched' = Touched, Doomed' = Doomed
  PROVE  Apart'
  BY DEF Apart

LEMMA RefdSame ==
  ASSUME file' = file, versions' = versions
  PROVE  Refd' = Refd
  BY DEF Refd, Needed, Kept, Exists

LEMMA InRowSame ==
  ASSUME queue' = queue
  PROVE  InRow' = InRow
  BY DEF InRow

LEMMA MineSame ==
  ASSUME req' = req, late' = late
  PROVE  Mine' = Mine
  BY DEF Mine, Held

LEMMA WorkerSame ==
  ASSUME worker' = worker
  PROVE  /\ Touched' = Touched /\ Doomed' = Doomed
         /\ WorkerOK => WorkerOK'
  BY DEF Touched, Doomed, WorkerOK

LEMMA DoomedTouched == Doomed \subseteq Touched
  BY DEF Touched, Doomed

-----------------------------------------------------------------------------
(* Requests.                                                               *)

LEMMA NoReqOK == NoReq \in Reqs /\ NoReq.key = None /\ NoReq.pc = "idle"
  BY DEF NoReq, Reqs

\* A request that lets go of its key, if it had one.
LEMMA LetGo ==
  ASSUME ReqsOK, Distinct, NEW e \in Editors, NEW r \in Reqs, r.key = None,
         r.pc \in {"idle", "open"}, r.pc = "open" => r.file \in Files,
         Goto(e, r), late' = late
  PROVE  /\ ReqsOK' /\ Distinct'
         /\ Mine' \subseteq Mine /\ req[e].key \notin Mine'
<1>1. req' = [req EXCEPT ![e] = r] /\ req \in [Editors -> Reqs]
  BY DEF Goto, ReqsOK
<1>2. req'[e] = r /\ \A d \in Editors \ {e} : req'[d] = req[d]
  BY <1>1
<1>3. req' \in [Editors -> Reqs]
  BY <1>1
<1>4. ReqsOK'
  BY <1>2, <1>3 DEF ReqsOK, Pending
<1>5. None \notin Keys
  BY BlobAssumption
<1>6. Distinct'
  <2>1. \A c, d \in Editors : req'[c].key # None /\ req'[c].key = req'[d].key => c = d
    BY <1>2 DEF Distinct
  <2>2. \A d \in Editors : \A s \in late : s.op # "remove" => s.key # req'[d].key
    <3> SUFFICES ASSUME NEW d \in Editors, NEW s \in late, s.op # "remove"
                 PROVE  s.key # req'[d].key
      OBVIOUS
    <3>1. s.key \in Keys
      BY DEF ReqsOK, Pending
    <3>2. CASE d = e
      BY <3>1, <3>2, <1>2, <1>5
    <3>3. CASE d # e
      BY <3>3, <1>2 DEF Distinct
    <3> QED
      BY <3>2, <3>3
  <2> QED
    BY <2>1, <2>2 DEF Distinct
<1>7. Mine' \subseteq Mine
  BY <1>2, <1>5 DEF Mine, Held
<1>8. req[e].key \notin Mine'
  <2> SUFFICES ASSUME NEW k \in Keys, k = req[e].key, Held(k)'
               PROVE  FALSE
    BY DEF Mine
  <2>1. CASE \E d \in Editors : req'[d].key = k
    <3>1. PICK d \in Editors : req'[d].key = k
      BY <2>1
    <3>2. d # e
      BY <3>1, <1>2, <1>5
    <3>3. req[d].key = req[e].key /\ req[d].key # None
      BY <3>1, <3>2, <1>2, <1>5
    <3> QED
      BY <3>2, <3>3 DEF Distinct
  <2>2. CASE \E s \in late : s.op # "remove" /\ s.key = k
    BY <2>2 DEF Distinct
  <2> QED
    BY <2>1, <2>2 DEF Held
<1> QED
  BY <1>4, <1>6, <1>7, <1>8

\* A request that only goes on.
LEMMA GoOn ==
  ASSUME ReqsOK, Distinct, NEW e \in Editors, Pending(req[e]),
         Goto(e, [req[e] EXCEPT !.pc = "discard"]), late' = late
  PROVE  ReqsOK' /\ Distinct' /\ Mine' = Mine
<1>1. PICK r : r = [req[e] EXCEPT !.pc = "discard"]
  OBVIOUS
<1>2. r \in Reqs /\ r.pc = "discard" /\ r.key = req[e].key /\ r.file = req[e].file
        /\ r.op = req[e].op
  BY <1>1 DEF ReqsOK, Reqs
<1>3. req' = [req EXCEPT ![e] = r] /\ req \in [Editors -> Reqs]
  BY <1>1 DEF Goto, ReqsOK
<1>4. req'[e] = r /\ \A d \in Editors \ {e} : req'[d] = req[d]
  BY <1>3
<1>5. req' \in [Editors -> Reqs]
  BY <1>2, <1>3
<1>6. \A d \in Editors : req'[d].key = req[d].key
  BY <1>2, <1>4
<1>7. ReqsOK'
  BY <1>2, <1>4, <1>5 DEF ReqsOK, Pending
<1>8. Distinct'
  BY <1>6 DEF Distinct
<1>9. Mine' = Mine
  BY <1>6 DEF Mine, Held
<1> QED
  BY <1>7, <1>8, <1>9

\* A request that takes a key nobody has used.
LEMMA TakeKey ==
  ASSUME ReqsOK, Distinct, NEW e \in Editors, NEW r \in Reqs, NEW k \in Keys,
         r.key = k, r.pc = "commit", Pending(r), k \notin Mine,
         Goto(e, r), late' = late
  PROVE  ReqsOK' /\ Distinct' /\ Mine' \subseteq Mine \cup {k}
<1>1. req' = [req EXCEPT ![e] = r] /\ req \in [Editors -> Reqs]
  BY DEF Goto, ReqsOK
<1>2. req'[e] = r /\ \A d \in Editors \ {e} : req'[d] = req[d]
  BY <1>1
<1>3. req' \in [Editors -> Reqs]
  BY <1>1
<1>4. ReqsOK'
  BY <1>2, <1>3 DEF ReqsOK, Pending
<1>5. /\ \A d \in Editors : req[d].key # k
      /\ \A s \in late : s.op # "remove" => s.key # k
  BY DEF Mine, Held
<1>6. Distinct'
  <2>1. \A c, d \in Editors : req'[c].key # None /\ req'[c].key = req'[d].key => c = d
    BY <1>2, <1>5 DEF Distinct
  <2>2. \A d \in Editors : \A s \in late : s.op # "remove" => s.key # req'[d].key
    BY <1>2, <1>5 DEF Distinct
  <2> QED
    BY <2>1, <2>2 DEF Distinct
<1>7. Mine' \subseteq Mine \cup {k}
  BY <1>2 DEF Mine, Held
<1> QED
  BY <1>4, <1>6, <1>7

\* A submitted statement outlives its request.
LEMMA LeaveBehind ==
  ASSUME ReqsOK, Distinct, NEW e \in Editors, Pending(req[e]),
         Goto(e, NoReq), late' = late \cup {req[e]}
  PROVE  ReqsOK' /\ Distinct' /\ Mine' \subseteq Mine
<1>1. req' = [req EXCEPT ![e] = NoReq] /\ req \in [Editors -> Reqs]
  BY DEF Goto, ReqsOK
<1>2. req'[e] = NoReq /\ \A d \in Editors \ {e} : req'[d] = req[d]
  BY <1>1
<1>3. req' \in [Editors -> Reqs]
  BY <1>1, NoReqOK
<1>4. ReqsOK'
  BY <1>2, <1>3, NoReqOK DEF ReqsOK, Pending
<1>5. None \notin Keys
  BY BlobAssumption
<1>6. Distinct'
  <2>1. \A c, d \in Editors : req'[c].key # None /\ req'[c].key = req'[d].key => c = d
    BY <1>2, NoReqOK DEF Distinct
  <2>2. \A d \in Editors : \A s \in late' : s.op # "remove" => s.key # req'[d].key
    <3> SUFFICES ASSUME NEW d \in Editors, NEW s \in late', s.op # "remove"
                 PROVE  s.key # req'[d].key
      OBVIOUS
    <3>1. s.key \in Keys
      BY DEF ReqsOK, Pending
    <3>2. CASE d = e
      BY <3>1, <3>2, <1>2, <1>5, NoReqOK
    <3>3. CASE d # e /\ s \in late
      BY <3>3, <1>2 DEF Distinct
    <3>4. CASE d # e /\ s = req[e]
      BY <3>1, <3>4, <1>2, <1>5 DEF Distinct
    <3> QED
      BY <3>2, <3>3, <3>4
  <2>3. \A s, t \in late' : s.op # "remove" /\ t.op # "remove" /\ s.key = t.key => s = t
    BY DEF Distinct
  <2> QED
    BY <2>1, <2>2, <2>3 DEF Distinct
<1>7. Mine' \subseteq Mine
  <2> SUFFICES ASSUME NEW k \in Keys, Held(k)'
               PROVE  Held(k)
    BY DEF Mine
  <2>1. req[e].op # "remove"
    BY DEF Pending
  <2> QED
    BY <1>2, <1>5, <2>1, NoReqOK DEF Held
<1> QED
  BY <1>4, <1>6, <1>7

\* A statement that is no longer late.
LEMMA Landed ==
  ASSUME ReqsOK, Distinct, NEW s \in late, late' = late \ {s}, req' = req
  PROVE  /\ ReqsOK' /\ Distinct' /\ Mine' \subseteq Mine
         /\ s.op # "remove" => s.key \notin Mine'
<1>1. ReqsOK' /\ Distinct' /\ Mine' \subseteq Mine
  BY DEF ReqsOK, Distinct, Mine, Held
<1>2. s.op # "remove" => s.key \notin Mine'
  <2> SUFFICES ASSUME s.op # "remove", NEW k \in Keys, k = s.key, Held(k)'
               PROVE  FALSE
    BY DEF Mine
  <2>1. CASE \E e \in Editors : req[e].key = k
    BY <2>1 DEF Distinct
  <2>2. CASE \E t \in late' : t.op # "remove" /\ t.key = k
    BY <2>2 DEF Distinct
  <2> QED
    BY <2>1, <2>2 DEF Held
<1> QED
  BY <1>1, <1>2

-----------------------------------------------------------------------------
(* Rows.                                                                   *)

LEMMA TagOK ==
  ASSUME NEW k \in Keys, NEW n \in 0..MaxUndo
  PROVE  Tag(k, n) \in Tags
  BY DEF Tag, Tags

LEMMA UndoNat == MaxUndo \in Nat /\ 0 \in 0..MaxUndo
  BY BlobAssumption

\* Pruning keeps a part.
LEMMA PrunedPart ==
  ASSUME NEW s \in Seq(Contents)
  PROVE  /\ Pruned(s) \in Seq(Contents)
         /\ \A i \in DOMAIN Pruned(s) : \E j \in DOMAIN s : Pruned(s)[i] = s[j]
<1>1. CASE Len(s) <= Limit
  BY <1>1 DEF Pruned
<1>2. CASE ~(Len(s) <= Limit)
  <2>1. Limit \in Nat \ {0} /\ Len(s) \in Nat
    BY BlobAssumption
  <2>2. PICK a : a = Len(s) - Limit + 1
    OBVIOUS
  <2>3. a \in 1..Len(s) /\ Len(s) - a + 1 = Limit /\ a \in Nat /\ a # 0
    BY <2>1, <2>2, <1>2
  <2>4. Pruned(s) = SubSeq(s, a, Len(s))
    BY <1>2, <2>2 DEF Pruned
  <2>5. /\ SubSeq(s, a, Len(s)) \in Seq(Contents)
        /\ Len(SubSeq(s, a, Len(s))) = Limit
        /\ \A i \in 1..Limit : SubSeq(s, a, Len(s))[i] = s[a + i - 1]
    BY <2>1, <2>3
  <2>6. \A i \in 1..Limit : a + i - 1 \in 1..Len(s)
    BY <2>1, <2>3
  <2>7. DOMAIN s = 1..Len(s) /\ DOMAIN Pruned(s) = 1..Limit
    BY <2>4, <2>5
  <2> QED
    BY <2>4, <2>5, <2>6, <2>7
<1> QED
  BY <1>1, <1>2

\* The triggers queue nothing but keys of rows that went.
LEMMA QueuedOnly ==
  ASSUME NEW n, NEW R \in SUBSET Keys, \A k \in Keys \ R : n[k] = 0,
         queue' = Queued(n)
  PROVE  /\ DOMAIN queue' = Keys /\ queue' = [k \in Keys |-> queue'[k]]
         /\ InRow' \subseteq InRow \cup R
  BY DEF Queued, InRow

LEMMA NoneCounted ==
  ASSUME NEW S, S = {}
  PROVE  Cardinality(S) = 0
  BY FS_EmptySet

\* The transaction of a save or a restore.
LEMMA Replaced ==
  ASSUME RowsOK, NEW f \in Files, Exists(f), NEW k \in Keys, NEW t \in Tags,
         Replace(f, k, t), undo' \in 0..MaxUndo
  PROVE  RowsOK' /\ Refd' \subseteq Refd \cup {k} /\ InRow' \subseteq InRow \cup Refd
<1>1. PICK now : now = [key |-> file[f].key, tag |-> file[f].tag]
  OBVIOUS
<1>2. PICK all : all = Append(versions[f], now)
  OBVIOUS
<1>3. PICK kept : kept = Pruned(all)
  OBVIOUS
<1>4. file[f] \in Rows
  BY DEF RowsOK, Exists
<1>5. now \in Contents
  BY <1>1, <1>4 DEF Rows, Contents
<1>6. versions[f] \in Seq(Contents)
  BY DEF RowsOK
<1>7. all \in Seq(Contents) /\ DOMAIN all = 1..(Len(versions[f]) + 1)
        /\ all[Len(versions[f]) + 1] = now
        /\ \A i \in 1..Len(versions[f]) : all[i] = versions[f][i]
  BY <1>2, <1>5, <1>6
<1>8. kept \in Seq(Contents)
        /\ \A i \in DOMAIN kept : \E j \in DOMAIN all : kept[i] = all[j]
  BY <1>3, <1>7, PrunedPart
<1>9. \A i \in DOMAIN all : all[i].key \in Refd
  <2> SUFFICES ASSUME NEW i \in DOMAIN all
               PROVE  all[i].key \in Refd
    OBVIOUS
  <2>1. all[i].key \in Keys
    <3>1. i \in 1..Len(all) /\ all \in Seq(Contents)
      BY <1>7
    <3>2. all[i] \in Contents
      BY <3>1
    <3> QED
      BY <3>2 DEF Contents
  <2>2. Len(versions[f]) \in Nat /\ DOMAIN versions[f] = 1..Len(versions[f])
    BY <1>6
  <2>3. CASE i = Len(versions[f]) + 1
    BY <2>1, <2>3, <1>7, <1>1 DEF Refd, Needed
  <2>4. CASE i \in 1..Len(versions[f])
    <3>1. all[i].key \in Kept(f)
      BY <2>2, <2>4, <1>7 DEF Kept
    <3> QED
      BY <3>1, <2>1 DEF Refd, Needed
  <2> QED
    BY <2>2, <2>3, <2>4, <1>7
<1>10. PICK row : row = [key |-> k, tag |-> t, trashed |-> FALSE]
  OBVIOUS
<1>11. row \in Rows /\ row.key = k
  BY <1>10 DEF Rows
<1>12. /\ versions' = [versions EXCEPT ![f] = kept]
       /\ file' = [file EXCEPT ![f] = row]
       /\ rev' = [rev EXCEPT ![f] = @ + 1]
  BY <1>1, <1>2, <1>3, <1>10 DEF Replace
<1>13. Refd' \subseteq Refd \cup {k}
  <2> SUFFICES ASSUME NEW x \in Keys, Needed(x)', x # k
               PROVE  x \in Refd
    BY DEF Refd
  <2>1. PICK g \in Files : Exists(g)' /\ (file'[g].key = x \/ x \in Kept(g)')
    BY DEF Needed
  <2>2. CASE g = f
    <3>1. file'[g] = row /\ versions'[g] = kept
      BY <2>2, <1>12 DEF RowsOK
    <3>2. x \in Kept(g)'
      BY <2>1, <3>1, <1>11
    <3>3. PICK i \in DOMAIN kept : kept[i].key = x
      BY <3>1, <3>2 DEF Kept
    <3> QED
      BY <3>3, <1>8, <1>9
  <2>3. CASE g # f
    <3>1. file'[g] = file[g] /\ versions'[g] = versions[g]
      BY <2>3, <1>12 DEF RowsOK
    <3> QED
      BY <3>1, <2>1 DEF Refd, Needed, Exists, Kept
  <2> QED
    BY <2>2, <2>3
<1>14. InRow' \subseteq InRow \cup Refd /\ DOMAIN queue' = Keys
         /\ queue' = [x \in Keys |-> queue'[x]]
  <2>1. PICK n : n = [x \in Keys |->
             Cardinality({i \in DOMAIN all : all[i].key = x})
               - Cardinality({i \in DOMAIN kept : kept[i].key = x})
               + (IF x = file[f].key /\ x # k THEN 1 ELSE 0)]
    OBVIOUS
  <2>2. queue' = Queued(n)
    BY <2>1, <1>1, <1>2, <1>3 DEF Replace
  <2>3. \A x \in Keys \ Refd : n[x] = 0
    <3> SUFFICES ASSUME NEW x \in Keys \ Refd
                 PROVE  n[x] = 0
      OBVIOUS
    <3>1. {i \in DOMAIN all : all[i].key = x} = {}
      BY <1>9
    <3>2. {i \in DOMAIN kept : kept[i].key = x} = {}
      BY <1>8, <1>9
    <3>3. x # file[f].key
      BY <1>4 DEF Rows, Refd, Needed
    <3>4. /\ Cardinality({i \in DOMAIN all : all[i].key = x}) = 0
          /\ Cardinality({i \in DOMAIN kept : kept[i].key = x}) = 0
      BY <3>1, <3>2, NoneCounted
    <3> QED
      BY <2>1, <3>3, <3>4
  <2>4. Refd \subseteq Keys
    BY DEF Refd
  <2> QED
    BY <2>2, <2>3, <2>4, QueuedOnly
<1>15. RowsOK'
  <2>1. rev' \in [Files -> Nat]
    BY <1>12 DEF RowsOK
  <2>2. file' \in [Files -> Rows \cup {None}] /\ versions' \in [Files -> Seq(Contents)]
    BY <1>8, <1>11, <1>12 DEF RowsOK
  <2>3. \A g \in Files : Exists(g)' \/ versions'[g] = <<>>
    <3>1. row # None
      BY <1>11, BlobAssumption
    <3> QED
      BY <3>1, <1>12 DEF RowsOK, Exists
  <2> QED
    BY <2>1, <2>2, <2>3, <1>14 DEF RowsOK
<1> QED
  BY <1>13, <1>14, <1>15

-----------------------------------------------------------------------------
(* Every step.                                                             *)

LEMMA InitIInv == Init => IInv
<1> SUFFICES ASSUME Init
             PROVE  IInv
  OBVIOUS
<1>1. RowsOK
  <2>1. rev \in [Files -> Nat] /\ undo \in 0..MaxUndo
    BY UndoNat DEF Init
  <2>2. file \in [Files -> Rows \cup {None}] /\ versions \in [Files -> Seq(Contents)]
    BY DEF Init
  <2> QED
    BY <2>1, <2>2 DEF Init, RowsOK, Exists
<1>2. ReqsOK /\ Distinct
  BY NoReqOK DEF Init, ReqsOK, Distinct
<1>3. WorkerOK
  BY DEF Init, WorkerOK, Rest
<1>4. Refd = {} /\ InRow = {}
  BY DEF Init, Refd, Needed, Exists, InRow
<1>5. Mine = {}
  BY NoReqOK, BlobAssumption DEF Init, Mine, Held
<1>6. Touched = {} /\ Doomed = {}
  BY DEF Init, Touched, Doomed, Rest
<1> QED
  BY <1>1, <1>2, <1>3, <1>4, <1>5, <1>6 DEF Init, IInv, Apart

\* A step that leaves rows, disk and jobs alone and takes no key.
LEMMA OnlyRequests ==
  ASSUME IInv, ReqsOK', Distinct', Mine' \subseteq Mine, UNCHANGED <<rows, blobs, old, jobs>>,
         used \subseteq used'
  PROVE  IInv'
<1>1. /\ file' = file /\ versions' = versions /\ queue' = queue /\ rev' = rev
      /\ undo' = undo /\ blobs' = blobs /\ old' = old /\ worker' = worker /\ gc' = gc
  BY DEF rows, jobs
<1>2. Refd' = Refd /\ InRow' = InRow /\ Touched' = Touched /\ Doomed' = Doomed
        /\ WorkerOK'
  BY <1>1, RefdSame, InRowSame, WorkerSame DEF IInv
<1>3. RowsOK'
  BY <1>1 DEF IInv, RowsOK, Exists
<1>4. Apart'
  <2>1. Apart
    BY DEF IInv
  <2>2. Refd \subseteq blobs /\ Mine \subseteq blobs /\ old \subseteq blobs /\ Doomed \cap Refd = {}
    BY <2>1 DEF Apart
  <2> QED
    BY <1>1, <1>2, <2>1, <2>2, ApartKept
<1> QED
  BY <1>2, <1>3, <1>4 DEF IInv

\* A step on rows: at most a key that its request lets go becomes referenced,
\* and only keys that were referenced are queued.
LEMMA OnlyRows ==
  ASSUME IInv, RowsOK', ReqsOK', Distinct',
         Refd' \subseteq Refd \cup (Mine \ Mine'), Mine' \subseteq Mine,
         InRow' \subseteq InRow \cup Refd,
         UNCHANGED <<blobs, old, jobs>>, used \subseteq used'
  PROVE  IInv'
<1>1. blobs' = blobs /\ old' = old /\ worker' = worker /\ gc' = gc
  BY DEF jobs
<1>2. Touched' = Touched /\ Doomed' = Doomed /\ WorkerOK'
  BY <1>1, WorkerSame DEF IInv
<1>3. Apart /\ Doomed \subseteq Touched
  BY DoomedTouched DEF IInv
<1>4. /\ Refd \subseteq blobs /\ Mine \subseteq blobs /\ old \subseteq blobs
      /\ Touched \cap Mine = {} /\ Doomed \cap Refd = {}
  BY <1>3 DEF Apart
<1>5. Refd' \subseteq blobs' /\ Mine' \subseteq blobs' /\ Doomed' \cap Refd' = {}
  BY <1>1, <1>2, <1>3, <1>4
<1>6. Apart'
  BY <1>1, <1>2, <1>3, <1>4, <1>5, ApartKept
<1> QED
  BY <1>2, <1>6 DEF IInv

\* A statement of a request r that holds its key.
LEMMA StatementRows ==
  ASSUME RowsOK, NEW r, Pending(r), NEW accepted \in BOOLEAN, Statement(r, accepted)
  PROVE  /\ RowsOK'
         /\ Refd' \subseteq Refd \cup {r.key}
         /\ ~accepted => Refd' = Refd
         /\ InRow' \subseteq InRow \cup Refd
<1>1. r.key \in Keys /\ r.file \in Files /\ Tag(r.key, 0) \in Tags
  BY TagOK, UndoNat DEF Pending
<1>2. CASE r.op = "save" /\ accepted /\ Unchanged(r)
             /\ Replace(r.file, r.key, Tag(r.key, 0)) /\ undo' = undo
  <2>1. Exists(r.file)
    BY <1>2 DEF Unchanged, Live
  <2>2. undo' \in 0..MaxUndo
    BY <1>2 DEF RowsOK
  <2> QED
    BY <1>1, <1>2, <2>1, <2>2, Replaced
<1>3. CASE ~accepted /\ UNCHANGED rows
  <2>1. RowsOK'
    BY <1>3 DEF rows, RowsOK, Exists
  <2>2. Refd' = Refd /\ InRow' = InRow
    BY <1>3, RefdSame, InRowSame DEF rows
  <2> QED
    BY <2>1, <2>2
<1>4. CASE accepted /\ UNCHANGED <<versions, queue, rev, undo>>
             /\ file' = [file EXCEPT ![r.file] = [key |-> r.key, tag |-> Tag(r.key, 0),
                                                  trashed |-> FALSE]]
  <2>1. PICK row : row = [key |-> r.key, tag |-> Tag(r.key, 0), trashed |-> FALSE]
    OBVIOUS
  <2>2. row \in Rows /\ row.key = r.key
    BY <1>1, <2>1 DEF Rows
  <2>3. file' = [file EXCEPT ![r.file] = row]
    BY <1>4, <2>1
  <2>4. RowsOK'
    <3>1. row # None
      BY <2>2, BlobAssumption
    <3> QED
      BY <1>4, <2>2, <2>3, <3>1 DEF RowsOK, Exists
  <2>5. Refd' \subseteq Refd \cup {r.key}
    <3> SUFFICES ASSUME NEW x \in Keys, Needed(x)', x # r.key
                 PROVE  Needed(x)
      BY DEF Refd
    <3>1. PICK g \in Files : Exists(g)' /\ (file'[g].key = x \/ x \in Kept(g)')
      BY DEF Needed
    <3>2. Kept(g)' = Kept(g)
      BY <1>4 DEF Kept
    <3>3. CASE x \in Kept(g)
      <4>1. Exists(g)
        BY <3>3 DEF RowsOK, Kept
      <4> QED
        BY <3>3, <4>1 DEF Needed
    <3>4. CASE x \notin Kept(g)
      <4>1. g # r.file
        BY <3>1, <3>2, <3>4, <2>2, <2>3 DEF RowsOK
      <4>2. file'[g] = file[g]
        BY <4>1, <2>3 DEF RowsOK
      <4> QED
        BY <3>1, <3>2, <3>4, <4>2 DEF Needed, Exists
    <3> QED
      BY <3>3, <3>4
  <2> QED
    BY <1>4, <2>4, <2>5, InRowSame
<1> QED
  BY <1>2, <1>3, <1>4 DEF Statement

LEMMA OpenDocumentStep ==
  ASSUME IInv, NEW e \in Editors, NEW f \in Files, OpenDocument(e, f)
  PROVE  IInv'
<1>1. PICK r : r = [NoReq EXCEPT !.pc = "open", !.file = f, !.tag = file[f].tag,
                                 !.rev = rev[f]]
  OBVIOUS
<1>2. file[f] \in Rows /\ rev[f] \in Nat
  BY DEF OpenDocument, IInv, RowsOK, Exists
<1>3. r \in Reqs /\ r.key = None /\ r.pc = "open" /\ r.file = f
  BY <1>1, <1>2 DEF NoReq, Reqs, Rows
<1>4. Goto(e, r) /\ UNCHANGED <<rows, disk, late, jobs, used>>
  BY <1>1 DEF OpenDocument
<1>5. ReqsOK' /\ Distinct' /\ Mine' \subseteq Mine
  BY <1>3, <1>4, LetGo DEF IInv
<1> QED
  BY <1>4, <1>5, OnlyRequests DEF disk

\* A step that takes a new key and writes its blob.
LEMMA NewBlob ==
  ASSUME IInv, NEW e \in Editors, NEW r \in Reqs, NEW k \in Keys,
         r.file \in Files, r.op \in {"save", "create"}, WriteBlob(e, r, k),
         used \cup {k} \subseteq used', UNCHANGED <<rows, old, late, jobs>>
  PROVE  IInv'
<1>1. PICK q : q = [r EXCEPT !.pc = "commit", !.key = k]
  OBVIOUS
<1>2. q \in Reqs /\ q.key = k /\ q.pc = "commit" /\ Pending(q)
  BY <1>1 DEF Reqs, Pending
<1>3. Goto(e, q) /\ k \notin used /\ blobs' = blobs \cup {k}
  BY <1>1 DEF WriteBlob
<1>4. /\ file' = file /\ versions' = versions /\ queue' = queue /\ rev' = rev
      /\ undo' = undo /\ old' = old /\ worker' = worker /\ gc' = gc /\ late' = late
  BY DEF rows, jobs
<1>5. k \notin Mine /\ Apart
  BY <1>3 DEF IInv, Apart
<1>6. ReqsOK' /\ Distinct' /\ Mine' \subseteq Mine \cup {k}
  BY <1>2, <1>3, <1>4, <1>5, TakeKey DEF IInv
<1>7. Refd' = Refd /\ InRow' = InRow /\ Touched' = Touched /\ Doomed' = Doomed
        /\ WorkerOK'
  BY <1>4, RefdSame, InRowSame, WorkerSame DEF IInv
<1>8. Apart'
  BY <1>3, <1>4, <1>5, <1>6, <1>7, ApartWrite
<1>9. RowsOK'
  BY <1>4 DEF IInv, RowsOK, Exists
<1> QED
  BY <1>6, <1>7, <1>8, <1>9 DEF IInv

LEMMA SaveLookStep ==
  ASSUME IInv, NEW e \in Editors, NEW f \in Files, NEW k \in Keys,
         NEW blind \in BOOLEAN, SaveLook(e, f, k, blind)
  PROVE  IInv'
<1>1. UNCHANGED <<rows, old, left, late, jobs>>
  BY DEF SaveLook
<1>2. CASE blind \/ req[e].tag = file[f].tag
  <2>1. PICK r : r = [NoReq EXCEPT !.op = "save", !.file = f, !.prev = file[f],
                                   !.rev = IF blind THEN None ELSE req[e].rev]
    OBVIOUS
  <2>2. file[f] \in Rows /\ req[e].rev \in Nat \cup {None}
    BY DEF SaveLook, IInv, RowsOK, ReqsOK, Reqs, Live, Exists
  <2>3. (IF blind THEN None ELSE req[e].rev) \in Nat \cup {None}
    BY <2>2
  <2>4. r \in Reqs /\ r.file = f /\ r.op = "save"
    BY <2>1, <2>2, <2>3 DEF NoReq, Reqs
  <2>5. WriteBlob(e, r, k) /\ used' = used \cup {k}
    BY <1>2, <2>1 DEF SaveLook
  <2> QED
    BY <1>1, <2>4, <2>5, NewBlob
<1>3. CASE ~(blind \/ req[e].tag = file[f].tag)
  <2>1. Goto(e, NoReq) /\ used' = used /\ blobs' = blobs
    BY <1>3 DEF SaveLook
  <2>2. ReqsOK' /\ Distinct' /\ Mine' \subseteq Mine
    BY <1>1, <2>1, NoReqOK, LetGo DEF IInv
  <2> QED
    BY <1>1, <2>1, <2>2, OnlyRequests
<1> QED
  BY <1>2, <1>3

LEMMA CreateDocumentStep ==
  ASSUME IInv, NEW e \in Editors, NEW f \in Files, NEW k \in Keys,
         CreateDocument(e, f, k)
  PROVE  IInv'
<1>1. PICK r : r = [NoReq EXCEPT !.op = "create", !.file = f]
  OBVIOUS
<1>2. r \in Reqs /\ r.file = f /\ r.op = "create"
  BY <1>1 DEF NoReq, Reqs
<1>3. /\ WriteBlob(e, r, k) /\ used \cup {k} \subseteq used'
      /\ UNCHANGED <<rows, old, late, jobs>>
  BY <1>1 DEF CreateDocument
<1> QED
  BY <1>2, <1>3, NewBlob

LEMMA CommitStep ==
  ASSUME IInv, NEW e \in Editors, Commit(e)
  PROVE  IInv'
<1>1. PICK accepted \in BOOLEAN :
        /\ req[e].pc = "commit" /\ Statement(req[e], accepted)
        /\ Goto(e, IF accepted THEN NoReq ELSE [req[e] EXCEPT !.pc = "discard"])
        /\ UNCHANGED <<disk, late, jobs, used>>
  BY DEF Commit
<1>2. Pending(req[e]) /\ req[e].key \in Mine
  BY <1>1 DEF IInv, ReqsOK, Pending, Mine, Held
<1>3. /\ RowsOK' /\ Refd' \subseteq Refd \cup {req[e].key}
      /\ ~accepted => Refd' = Refd
      /\ InRow' \subseteq InRow \cup Refd
  BY <1>1, <1>2, StatementRows DEF IInv
<1>4. UNCHANGED <<blobs, old, jobs, used>> /\ late' = late
  BY <1>1 DEF disk
<1>5. CASE accepted
  <2>1. /\ ReqsOK' /\ Distinct' /\ Mine' \subseteq Mine
        /\ req[e].key \notin Mine'
    BY <1>1, <1>4, <1>5, NoReqOK, LetGo DEF IInv
  <2>2. Refd' \subseteq Refd \cup (Mine \ Mine')
    BY <1>2, <1>3, <2>1
  <2> QED
    BY <1>3, <1>4, <2>1, <2>2, OnlyRows
<1>6. CASE ~accepted
  <2>1. ReqsOK' /\ Distinct' /\ Mine' = Mine
    BY <1>1, <1>2, <1>4, <1>6, GoOn DEF IInv
  <2> QED
    BY <1>3, <1>4, <1>6, <2>1, OnlyRows
<1> QED
  BY <1>5, <1>6

\* A deletion of a blob that nobody needs.
LEMMA DeleteBlob ==
  ASSUME IInv, NEW k, k \notin Refd, k \notin Mine', Mine' \subseteq Mine,
         ReqsOK', Distinct', WorkerOK',
         blobs' = blobs \ {k}, old' = old \ {k}, gc' \subseteq gc,
         Touched' \subseteq Touched, Doomed' \subseteq Doomed, UNCHANGED <<rows, used>>
  PROVE  IInv'
<1>1. /\ file' = file /\ versions' = versions /\ queue' = queue /\ rev' = rev
      /\ undo' = undo /\ used' = used
  BY DEF rows
<1>2. Refd' = Refd /\ InRow' = InRow
  BY <1>1, RefdSame, InRowSame
<1>3. RowsOK'
  BY <1>1 DEF IInv, RowsOK, Exists
<1>4. Apart /\ Refd \subseteq blobs /\ Mine \subseteq blobs /\ old \subseteq blobs
        /\ Doomed \cap Refd = {}
  BY DEF IInv, Apart
<1>5. Refd' \subseteq blobs' /\ Mine' \subseteq blobs' /\ old' \subseteq blobs'
        /\ Doomed' \cap Refd' = {}
  BY <1>2, <1>4
<1>6. Apart'
  BY <1>1, <1>2, <1>4, <1>5, ApartKept
<1> QED
  BY <1>3, <1>6 DEF IInv

LEMMA DiscardStep ==
  ASSUME IInv, NEW e \in Editors, Discard(e)
  PROVE  IInv'
<1>1. /\ req[e].pc = "discard" /\ Goto(e, NoReq)
      /\ blobs' = blobs \ {req[e].key} /\ old' = old \ {req[e].key}
      /\ UNCHANGED <<rows, left, late, jobs, used>>
  BY DEF Discard
<1>2. req[e].key \in Mine
  BY <1>1 DEF IInv, ReqsOK, Pending, Mine, Held
<1>3. req[e].key \notin Refd
  BY <1>2 DEF IInv, Apart
<1>4. /\ ReqsOK' /\ Distinct' /\ Mine' \subseteq Mine
      /\ req[e].key \notin Mine'
  BY <1>1, NoReqOK, LetGo DEF IInv
<1>5. gc' = gc /\ worker' = worker
  BY <1>1 DEF jobs
<1>6. Touched' = Touched /\ Doomed' = Doomed /\ WorkerOK'
  BY <1>5, WorkerSame DEF IInv
<1> QED
  BY <1>1, <1>3, <1>4, <1>5, <1>6, DeleteBlob

LEMMA RestoreVersionStep ==
  ASSUME IInv, NEW e \in Editors, NEW i \in 1..Limit, RestoreVersion(e, i)
  PROVE  IInv'
<1>1. PICK f : f = req[e].file
  OBVIOUS
<1>2. /\ req[e].pc = "open" /\ Live(f) /\ undo < MaxUndo
      /\ i \in DOMAIN versions[f]
      /\ IF req[e].tag = file[f].tag
         THEN /\ Replace(f, versions[f][i].key, FreshTag(versions[f][i].tag))
              /\ undo' = undo + 1
         ELSE UNCHANGED rows
      /\ Goto(e, NoReq)
      /\ UNCHANGED <<disk, late, jobs, used>>
  BY <1>1 DEF RestoreVersion
<1>3. f \in Files /\ Exists(f)
  BY <1>1, <1>2 DEF IInv, ReqsOK, Live
<1>4. UNCHANGED <<blobs, old, jobs, used>> /\ late' = late
  BY <1>2 DEF disk
<1>5. ReqsOK' /\ Distinct' /\ Mine' \subseteq Mine
  BY <1>2, <1>4, NoReqOK, LetGo DEF IInv
<1>6. CASE req[e].tag = file[f].tag
  <2>1. PICK v : v = versions[f][i]
    OBVIOUS
  <2>2. v \in Contents
    BY <1>2, <1>3, <2>1 DEF IInv, RowsOK
  <2>3. v.key \in Keys /\ v.tag \in Tags /\ v.tag.of \in Keys
    BY <2>2 DEF Contents, Tags
  <2>4. undo + 1 \in 0..MaxUndo
    BY <1>2, UndoNat DEF IInv, RowsOK
  <2>5. FreshTag(v.tag) \in Tags
    BY <2>3, <2>4, TagOK DEF FreshTag
  <2>6. Replace(f, v.key, FreshTag(v.tag)) /\ undo' = undo + 1
    BY <1>2, <1>6, <2>1
  <2>7. RowsOK' /\ Refd' \subseteq Refd \cup {v.key} /\ InRow' \subseteq InRow \cup Refd
    BY <1>3, <2>3, <2>4, <2>5, <2>6, Replaced DEF IInv
  <2>8. v.key \in Refd
    BY <1>2, <1>3, <2>1, <2>3 DEF Refd, Needed, Kept
  <2> QED
    BY <1>4, <1>5, <2>7, <2>8, OnlyRows
<1>7. CASE req[e].tag # file[f].tag
  BY <1>2, <1>4, <1>5, <1>7, OnlyRequests
<1> QED
  BY <1>6, <1>7

LEMMA CopyDocumentStep ==
  ASSUME IInv, NEW f \in Files, NEW g \in Files, CopyDocument(f, g)
  PROVE  IInv'
<1>1. /\ Exists(f) /\ file' = [file EXCEPT ![g] = file[f]] /\ used \subseteq used'
      /\ UNCHANGED <<versions, queue, rev, undo, disk, req, late, jobs>>
  BY DEF CopyDocument, Live
<1>2. file[f] \in Rows
  BY <1>1 DEF IInv, RowsOK, Exists
<1>3. RowsOK'
  BY <1>1, <1>2 DEF IInv, RowsOK, Exists
<1>4. Refd' \subseteq Refd
  <2> SUFFICES ASSUME NEW x \in Keys, Needed(x)'
               PROVE  Needed(x)
    BY DEF Refd
  <2>1. PICK h \in Files : Exists(h)' /\ (file'[h].key = x \/ x \in Kept(h)')
    BY DEF Needed
  <2>2. Kept(h)' = Kept(h)
    BY <1>1 DEF Kept
  <2>3. CASE x \in Kept(h)
    <3>1. Exists(h)
      BY <2>3 DEF IInv, RowsOK, Kept
    <3> QED
      BY <2>3, <3>1 DEF Needed
  <2>4. CASE x \notin Kept(h) /\ h = g
    BY <1>1, <2>1, <2>2, <2>4 DEF IInv, RowsOK, Needed
  <2>5. CASE x \notin Kept(h) /\ h # g
    <3>1. file'[h] = file[h]
      BY <1>1, <2>5 DEF IInv, RowsOK
    <3> QED
      BY <2>1, <2>2, <2>5, <3>1 DEF Needed, Exists
  <2> QED
    BY <2>3, <2>4, <2>5
<1>5. /\ ReqsOK' /\ Distinct' /\ Mine' = Mine /\ InRow' = InRow
      /\ UNCHANGED <<blobs, old, jobs>>
  BY <1>1, MineSame, InRowSame DEF IInv, ReqsOK, Pending, Distinct, disk
<1> QED
  BY <1>1, <1>3, <1>4, <1>5, OnlyRows

LEMMA TrashStep ==
  ASSUME IInv, NEW f \in Files, Trash(f)
  PROVE  IInv'
<1>1. PICK row : row = [file[f] EXCEPT !.trashed = ~@]
  OBVIOUS
<1>2. /\ Exists(f) /\ file' = [file EXCEPT ![f] = row]
      /\ UNCHANGED <<versions, queue, rev, undo, disk, req, late, jobs, used>>
  BY <1>1 DEF Trash
<1>3. file[f] \in Rows
  BY <1>2 DEF IInv, RowsOK, Exists
<1>4. row \in Rows /\ row.key = file[f].key
  BY <1>1, <1>3 DEF Rows
<1>5. row # None
  BY <1>4, BlobAssumption
<1>6. RowsOK'
  BY <1>2, <1>4, <1>5 DEF IInv, RowsOK, Exists
<1>7. Refd' \subseteq Refd
  <2> SUFFICES ASSUME NEW x \in Keys, Needed(x)'
               PROVE  Needed(x)
    BY DEF Refd
  <2>1. PICK h \in Files : Exists(h)' /\ (file'[h].key = x \/ x \in Kept(h)')
    BY DEF Needed
  <2>2. Kept(h)' = Kept(h)
    BY <1>2 DEF Kept
  <2>3. CASE h = f
    <3>1. file'[h].key = file[h].key
      BY <1>2, <1>4, <2>3 DEF IInv, RowsOK
    <3> QED
      BY <1>2, <2>1, <2>2, <2>3, <3>1 DEF Needed
  <2>4. CASE h # f
    <3>1. file'[h] = file[h]
      BY <1>2, <2>4 DEF IInv, RowsOK
    <3> QED
      BY <2>1, <2>2, <3>1 DEF Needed, Exists
  <2> QED
    BY <2>3, <2>4
<1>8. /\ ReqsOK' /\ Distinct' /\ Mine' = Mine /\ InRow' = InRow /\ used' = used
      /\ UNCHANGED <<blobs, old, jobs>>
  BY <1>2, MineSame, InRowSame DEF IInv, ReqsOK, Pending, Distinct, disk
<1> QED
  BY <1>6, <1>7, <1>8, OnlyRows

LEMMA PurgeStep ==
  ASSUME IInv, NEW f \in Files, Purge(f)
  PROVE  IInv'
<1>1. PICK n : n = [k \in Keys |-> Count(f, k) + (IF file[f].key = k THEN 1 ELSE 0)]
  OBVIOUS
<1>2. /\ Exists(f) /\ queue' = Queued(n)
      /\ file' = [file EXCEPT ![f] = None]
      /\ versions' = [versions EXCEPT ![f] = <<>>]
      /\ UNCHANGED <<rev, undo, disk, req, late, jobs, used>>
  BY <1>1 DEF Purge
<1>3. \A k \in Keys \ Refd : n[k] = 0
  <2> SUFFICES ASSUME NEW k \in Keys \ Refd
               PROVE  n[k] = 0
    OBVIOUS
  <2>1. file[f].key # k /\ k \notin Kept(f)
    BY <1>2 DEF Refd, Needed
  <2>2. {i \in DOMAIN versions[f] : versions[f][i].key = k} = {}
    BY <2>1 DEF Kept
  <2>3. Count(f, k) = 0
    BY <2>2, NoneCounted DEF Count
  <2> QED
    BY <1>1, <2>1, <2>3
<1>4. DOMAIN queue' = Keys /\ queue' = [k \in Keys |-> queue'[k]]
        /\ InRow' \subseteq InRow \cup Refd
  <2>1. Refd \subseteq Keys
    BY DEF Refd
  <2> QED
    BY <1>2, <1>3, <2>1, QueuedOnly
<1>5. RowsOK'
  <2>1. file' \in [Files -> Rows \cup {None}] /\ versions' \in [Files -> Seq(Contents)]
    BY <1>2 DEF IInv, RowsOK
  <2>2. \A g \in Files : Exists(g)' \/ versions'[g] = <<>>
    BY <1>2 DEF IInv, RowsOK, Exists
  <2> QED
    BY <1>2, <1>4, <2>1, <2>2 DEF IInv, RowsOK
<1>6. Refd' \subseteq Refd
  <2> SUFFICES ASSUME NEW x \in Keys, Needed(x)'
               PROVE  Needed(x)
    BY DEF Refd
  <2>1. PICK h \in Files : Exists(h)' /\ (file'[h].key = x \/ x \in Kept(h)')
    BY DEF Needed
  <2>2. h # f
    BY <1>2, <2>1 DEF IInv, RowsOK, Exists
  <2>3. file'[h] = file[h] /\ versions'[h] = versions[h]
    BY <1>2, <2>2 DEF IInv, RowsOK
  <2> QED
    BY <2>1, <2>3 DEF Needed, Exists, Kept
<1>7. /\ ReqsOK' /\ Distinct' /\ Mine' = Mine /\ used' = used
      /\ UNCHANGED <<blobs, old, jobs>>
  BY <1>2, MineSame DEF IInv, ReqsOK, Pending, Distinct, disk
<1> QED
  BY <1>4, <1>5, <1>6, <1>7, OnlyRows

-----------------------------------------------------------------------------
(* The jobs.                                                               *)

\* A step of the pass that deletes nothing.
LEMMA OnlyWorker ==
  ASSUME IInv, WorkerOK', ReqsOK', Distinct', Mine' = Mine,
         Touched' \subseteq Touched \cup InRow, Doomed' \cap Refd = {},
         InRow' \subseteq InRow, DOMAIN queue' = Keys, queue' = [k \in Keys |-> queue'[k]],
         UNCHANGED <<file, versions, rev, undo, blobs, old, used>>, gc' \subseteq gc
  PROVE  IInv'
<1>1. Refd' = Refd
  BY RefdSame
<1>2. RowsOK'
  BY DEF IInv, RowsOK, Exists
<1>3. Apart /\ Refd \subseteq blobs /\ Mine \subseteq blobs /\ old \subseteq blobs
  BY DEF IInv, Apart
<1>4. Apart'
  BY <1>1, <1>3, ApartKept
<1> QED
  BY <1>2, <1>4 DEF IInv

LEMMA ReferencesAll ==
  ASSUME NEW k \in Keys
  PROVE  k \in References(Files) <=> k \in Refd
  BY DEF References, FilesOnly, Refd, Needed

LEMMA WorkerStepKept ==
  ASSUME IInv, WorkerStep
  PROVE  IInv'
<1>1. req' = req /\ late' = late /\ used' = used /\ gc' = gc
        /\ UNCHANGED <<file, versions, rev, undo>>
  BY DEF WorkerStep, WorkerLoad, WorkerRefs, WorkerNext, WorkerDelete, WorkerRemove, rows
<1>2. ReqsOK' /\ Distinct' /\ Mine' = Mine
  BY <1>1, MineSame DEF IInv, ReqsOK, Pending, Distinct
<1>3. DOMAIN queue = Keys /\ queue = [k \in Keys |-> queue[k]]
  BY DEF IInv, RowsOK
<1>4. worker = [pc |-> worker.pc, todo |-> worker.todo, refs |-> worker.refs,
                cur |-> worker.cur]
  BY DEF IInv, WorkerOK
<1>5. CASE WorkerLoad
  <2>1. /\ worker' = [Rest EXCEPT !.pc = "refs",
                        !.todo = {<<k, queue[k]>> : k \in {x \in Keys : queue[x] # None}}]
        /\ UNCHANGED <<queue, blobs, old>>
    BY <1>5 DEF WorkerLoad, At, rows, disk
  <2>2. /\ worker'.pc = "refs"
        /\ worker'.todo = {<<k, queue[k]>> : k \in {x \in Keys : queue[x] # None}}
        /\ WorkerOK'
    BY <2>1 DEF Rest, WorkerOK
  <2>3. Touched' \subseteq InRow /\ Doomed' = {} /\ InRow' = InRow
    BY <2>1, <2>2, InRowSame DEF Touched, Doomed, InRow
  <2> QED
    BY <1>1, <1>2, <1>3, <2>1, <2>2, <2>3, OnlyWorker
<1>6. CASE WorkerRefs
  <2>1. /\ worker.pc = "refs" /\ UNCHANGED <<queue, blobs, old>>
        /\ worker' = [worker EXCEPT !.pc = "next",
                        !.refs = References(Files) \cap {c[1] : c \in worker.todo}]
    BY <1>6 DEF WorkerRefs, At, rows, disk
  <2>2. worker'.pc = "next" /\ worker'.todo = worker.todo /\ WorkerOK'
    BY <1>4, <2>1 DEF WorkerOK
  <2>3. Touched' \subseteq Touched /\ Doomed' = {} /\ InRow' = InRow
    BY <2>1, <2>2, InRowSame DEF Touched, Doomed
  <2> QED
    BY <1>1, <1>2, <1>3, <2>1, <2>2, <2>3, OnlyWorker
<1>7. CASE WorkerNext
  <2>1. worker.pc = "next" /\ UNCHANGED <<queue, blobs, old>> /\ InRow' = InRow
    BY <1>7, InRowSame DEF WorkerNext, rows, disk
  <2>2. CASE worker' = Rest
    <3>1. WorkerOK' /\ Touched' = {} /\ Doomed' = {}
      BY <2>2 DEF Rest, WorkerOK, Touched, Doomed
    <3> QED
      BY <1>1, <1>2, <1>3, <2>1, <3>1, OnlyWorker
  <2>3. ASSUME NEW c \in worker.todo, NEW live,
               live = (c[1] \in worker.refs \/ c[1] \in References(Files)),
               worker' = [worker EXCEPT !.pc = IF live THEN "remove" ELSE "delete",
                                        !.cur = c, !.todo = @ \ {c}]
        PROVE  IInv'
    <3>1. /\ worker'.pc = IF live THEN "remove" ELSE "delete"
          /\ worker'.cur = c /\ worker'.todo = worker.todo \ {c} /\ WorkerOK'
      BY <1>4, <2>3 DEF WorkerOK
    <3>2. Touched' \subseteq Touched
      BY <3>1 DEF Touched
    <3>3. Doomed' \cap Refd = {}
      <4> SUFFICES ASSUME NEW k \in Refd, k \in Doomed'
                   PROVE  FALSE
        OBVIOUS
      <4>1. k = c[1] /\ ~live
        BY <3>1 DEF Doomed
      <4>2. k \in Keys
        BY DEF Refd
      <4> QED
        BY <2>3, <4>1, <4>2, ReferencesAll
    <3> QED
      BY <1>1, <1>2, <1>3, <2>1, <3>1, <3>2, <3>3, OnlyWorker
  <2> QED
    BY <1>7, <2>2, <2>3 DEF WorkerNext, At
<1>8. CASE WorkerDelete
  <2>1. PICK k : k = worker.cur[1]
    OBVIOUS
  <2>2. /\ worker.pc = "delete" /\ blobs' = blobs \ {k} /\ old' = old \ {k}
        /\ worker' = [worker EXCEPT !.pc = "remove"] /\ UNCHANGED <<rows, used>>
    BY <1>8, <2>1 DEF WorkerDelete, At
  <2>3. worker'.pc = "remove" /\ worker'.todo = worker.todo /\ worker'.cur = worker.cur
          /\ WorkerOK'
    BY <1>4, <2>2 DEF WorkerOK
  <2>4. Touched' = Touched /\ Doomed' = {}
    BY <2>2, <2>3 DEF Touched, Doomed
  <2>5. k \in Doomed /\ Doomed \subseteq Touched
    BY <2>1, <2>2, DoomedTouched DEF Doomed
  <2>6. k \notin Refd /\ k \notin Mine
    BY <2>5 DEF IInv, Apart
  <2> QED
    BY <1>1, <1>2, <2>2, <2>3, <2>4, <2>6, DeleteBlob
<1>9. CASE WorkerRemove
  <2>1. /\ worker.pc = "remove" /\ UNCHANGED <<blobs, old>>
        /\ queue' = Removed(worker.cur[1], worker.cur[2])
        /\ worker' = [worker EXCEPT !.pc = "next", !.cur = None]
    BY <1>9 DEF WorkerRemove, At, disk
  <2>2. worker'.pc = "next" /\ worker'.todo = worker.todo /\ WorkerOK'
    BY <1>4, <2>1 DEF WorkerOK
  <2>3. Touched' \subseteq Touched /\ Doomed' = {}
    BY <2>2 DEF Touched, Doomed
  <2>4. DOMAIN queue' = Keys /\ queue' = [k \in Keys |-> queue'[k]]
          /\ InRow' \subseteq InRow
    BY <1>3, <2>1 DEF Removed, InRow
  <2> QED
    BY <1>1, <1>2, <2>1, <2>2, <2>3, <2>4, OnlyWorker
<1> QED
  BY <1>5, <1>6, <1>7, <1>8, <1>9 DEF WorkerStep

LEMMA CollectorStep ==
  ASSUME IInv, Collect \/ Age \/ \E k \in Keys : CollectOne(k)
  PROVE  IInv'
<1>1. /\ req' = req /\ late' = late /\ used' = used /\ worker' = worker
      /\ UNCHANGED rows
  BY DEF Collect, Age, CollectOne, rows, jobs
<1>2. ReqsOK' /\ Distinct' /\ Mine' = Mine
  BY <1>1, MineSame DEF IInv, ReqsOK, Pending, Distinct
<1>3. Touched' = Touched /\ Doomed' = Doomed /\ WorkerOK'
  BY <1>1, WorkerSame DEF IInv
<1>4. Refd' = Refd /\ InRow' = InRow /\ RowsOK'
  BY <1>1, RefdSame, InRowSame DEF IInv, RowsOK, Exists, rows
<1>5. CASE Collect
  <2>1. gc' = old \ References(Files) /\ blobs' = blobs /\ old' = old
    BY <1>5 DEF Collect, Orphans, disk
  <2>2. gc' \subseteq used \ (Refd \cup Mine)
    <3>1. \A k \in old : k \in Keys /\ k \in used /\ k \notin Mine
      BY DEF IInv, Apart
    <3> QED
      BY <2>1, <3>1, ReferencesAll
  <2> QED
    BY <1>1, <1>2, <1>3, <1>4, <2>1, <2>2 DEF IInv, Apart
<1>6. CASE Age
  <2>1. old' = old \cup {k \in blobs : ~Held(k)} /\ blobs' = blobs /\ gc' = gc
    BY <1>6 DEF Age, jobs
  <2>2. Mine \subseteq blobs \ old'
    BY <2>1 DEF IInv, Apart, Mine
  <2> QED
    BY <1>1, <1>2, <1>3, <1>4, <2>1, <2>2 DEF IInv, Apart
<1>7. ASSUME NEW k \in Keys, CollectOne(k)
      PROVE  IInv'
  <2>1. k \in gc /\ gc' = gc \ {k} /\ blobs' = blobs \ {k} /\ old' = old \ {k}
    BY <1>7 DEF CollectOne
  <2>2. k \notin Refd /\ k \notin Mine
    BY <2>1 DEF IInv, Apart
  <2> QED
    BY <1>1, <1>2, <1>3, <2>1, <2>2, DeleteBlob
<1> QED
  BY <1>5, <1>6, <1>7

LEMMA InterruptStep ==
  ASSUME IInv, NEW e \in Editors, Interrupt(e)
  PROVE  IInv'
<1>1. /\ req[e].pc \in {"commit", "discard"} /\ Goto(e, NoReq)
      /\ late' = late \/ late' = late \cup {req[e]}
      /\ UNCHANGED <<rows, blobs, old, jobs, used>>
  BY DEF Interrupt
<1>2. Pending(req[e])
  BY <1>1 DEF IInv, ReqsOK
<1>3. ReqsOK' /\ Distinct' /\ Mine' \subseteq Mine
  <2>1. CASE late' = late
    BY <1>1, <2>1, NoReqOK, LetGo DEF IInv
  <2>2. CASE late' = late \cup {req[e]}
    BY <1>1, <1>2, <2>2, LeaveBehind DEF IInv
  <2> QED
    BY <1>1, <2>1, <2>2
<1> QED
  BY <1>1, <1>3, OnlyRequests

\* A pass that gives up leaves at most a removal behind, which holds nothing.
LEMMA WorkerFailsStep ==
  ASSUME IInv, WorkerFails \/ DeleteFails
  PROVE  IInv'
<1>1. UNCHANGED <<file, versions, rev, undo, queue, blobs, old, req, gc, used>>
  BY DEF WorkerFails, DeleteFails, rows, disk
<1>2. DOMAIN queue' = Keys /\ queue' = [k \in Keys |-> queue'[k]] /\ InRow' = InRow
  BY <1>1, InRowSame DEF IInv, RowsOK
<1>3. ReqsOK' /\ Distinct' /\ Mine' = Mine
  <2>1. CASE late' = late
    BY <1>1, <2>1, MineSame DEF IInv, ReqsOK, Pending, Distinct
  <2>2. ASSUME NEW s, s.op = "remove", late' = late \cup {s}
        PROVE  ReqsOK' /\ Distinct' /\ Mine' = Mine
    <3>1. ReqsOK'
      BY <1>1, <2>2 DEF IInv, ReqsOK, Pending
    <3>2. Distinct'
      BY <1>1, <2>2 DEF IInv, Distinct
    <3>3. Mine' = Mine
      BY <1>1, <2>2 DEF Mine, Held
    <3> QED
      BY <3>1, <3>2, <3>3
  <2>3. CASE WorkerFails /\ late' # late
    <3>1. PICK s : s = [NoReq EXCEPT !.op = "remove", !.key = worker.cur[1],
                                     !.rev = worker.cur[2]]
      OBVIOUS
    <3>2. s.op = "remove"
      BY <3>1 DEF NoReq
    <3>3. late' = late \cup {s}
      BY <2>3, <3>1 DEF WorkerFails
    <3> QED
      BY <2>2, <3>2, <3>3
  <2> QED
    BY <2>1, <2>3 DEF DeleteFails
<1>4. WorkerOK' /\ Touched' \subseteq Touched /\ Doomed' = {}
  <2>1. CASE worker' = Rest
    BY <2>1 DEF Rest, WorkerOK, Touched, Doomed
  <2>2. CASE worker' = [worker EXCEPT !.pc = "next", !.cur = None]
    <3>1. worker'.pc = "next" /\ worker'.todo = worker.todo /\ WorkerOK'
      BY <2>2 DEF IInv, WorkerOK
    <3> QED
      BY <3>1 DEF Touched, Doomed
  <2> QED
    BY <2>1, <2>2 DEF WorkerFails, DeleteFails, At
<1> QED
  BY <1>1, <1>2, <1>3, <1>4, OnlyWorker

LEMMA LandStep ==
  ASSUME IInv, NEW s \in late, Land(s)
  PROVE  IInv'
<1>1. late' = late \ {s} /\ UNCHANGED <<blobs, old, req, jobs, used>>
  BY DEF Land
<1>2. /\ ReqsOK' /\ Distinct' /\ Mine' \subseteq Mine
      /\ s.op # "remove" => s.key \notin Mine'
  BY <1>1, Landed DEF IInv
<1>3. CASE s.op = "remove" /\ queue' = Removed(s.key, s.rev)
             /\ UNCHANGED <<file, versions, rev, undo>>
  <2>1. Refd' = Refd
    BY <1>3, RefdSame
  <2>2. DOMAIN queue' = Keys /\ queue' = [k \in Keys |-> queue'[k]]
          /\ InRow' \subseteq InRow
    BY <1>3 DEF IInv, RowsOK, Removed, InRow
  <2>3. RowsOK'
    BY <1>3, <2>2 DEF IInv, RowsOK, Exists
  <2> QED
    BY <1>1, <1>2, <2>1, <2>2, <2>3, OnlyRows
<1>4. ASSUME NEW accepted \in BOOLEAN, s.op # "remove", Statement(s, accepted)
      PROVE  IInv'
  <2>1. Pending(s)
    BY <1>4 DEF IInv, ReqsOK
  <2>2. s.key \in Mine
    BY <1>4, <2>1 DEF Pending, Mine, Held
  <2>3. /\ RowsOK' /\ Refd' \subseteq Refd \cup {s.key}
        /\ InRow' \subseteq InRow \cup Refd
    BY <1>4, <2>1, StatementRows DEF IInv
  <2> QED
    BY <1>1, <1>2, <1>4, <2>2, <2>3, OnlyRows
<1> QED
  BY <1>3, <1>4 DEF Land

LEMMA CrashStep ==
  ASSUME IInv, Crash
  PROVE  IInv'
<1>1. /\ req' = [e \in Editors |-> NoReq] /\ late' = {} /\ worker' = Rest /\ gc' = {}
      /\ UNCHANGED <<rows, blobs, old, used>>
  BY DEF Crash
<1>2. ReqsOK' /\ Distinct'
  BY <1>1, NoReqOK DEF ReqsOK, Distinct
<1>3. Mine' = {}
  BY <1>1, NoReqOK, BlobAssumption DEF Mine, Held
<1>4. WorkerOK' /\ Touched' = {} /\ Doomed' = {}
  BY <1>1 DEF Rest, WorkerOK, Touched, Doomed
<1>5. Refd' = Refd /\ InRow' = InRow /\ RowsOK'
  BY <1>1, RefdSame, InRowSame DEF IInv, RowsOK, Exists, rows
<1> QED
  BY <1>1, <1>2, <1>3, <1>4, <1>5 DEF IInv, Apart

LEMMA IInvNext == IInv /\ [Next]_vars => IInv'
<1> SUFFICES ASSUME IInv, [Next]_vars
             PROVE  IInv'
  OBVIOUS
<1>1. ASSUME NEW e \in Editors, EditorStep(e)
      PROVE  IInv'
  BY <1>1, OpenDocumentStep, SaveLookStep, CreateDocumentStep, CommitStep, DiscardStep,
     RestoreVersionStep DEF EditorStep
<1>2. CASE FileStep
  BY <1>2, TrashStep, PurgeStep, CopyDocumentStep DEF FileStep
<1>3. CASE FaultStep
  BY <1>3, InterruptStep, WorkerFailsStep, CrashStep, LandStep DEF FaultStep
<1>4. CASE UNCHANGED vars
  <2>1. /\ UNCHANGED <<file, versions, queue, rev, undo, blobs, old, req, late, used, gc>>
        /\ worker' = worker
    BY <1>4 DEF vars
  <2>2. ReqsOK' /\ Distinct' /\ Mine' = Mine
    BY <2>1, MineSame DEF IInv, ReqsOK, Pending, Distinct
  <2>3. UNCHANGED <<rows, blobs, old, jobs>> /\ used \subseteq used'
    BY <2>1 DEF rows, jobs
  <2> QED
    BY <2>2, <2>3, OnlyRequests
<1> QED
  BY <1>1, <1>2, <1>3, <1>4, WorkerStepKept, CollectorStep DEF Next

-----------------------------------------------------------------------------

\* The invariant in sets of keys holds throughout.
THEOREM Invariance == Spec => []IInv
<1> QED
  BY InitIInv, IInvNext, PTL DEF Spec

\* No document and no version loses its blob, whatever the saves, restores,
\* copies, purges, passes of the two jobs, interruptions and crashes do
\* (maintenance.rs 844-922 and 1032-1075).
THEOREM BlobsKept == Spec => []ReferencedKept
<1>1. IInv => ReferencedKept
  BY DEF IInv, Apart, Refd, ReferencedKept
<1> QED
  BY <1>1, Invariance, PTL

-----------------------------------------------------------------------------
(* Types, the lengths of histories and the generations.                    *)

\* What TypeOK says beyond IInv.
Counts ==
  /\ \A f \in Files : Len(versions[f]) <= Limit
  /\ queue \in [Keys -> Nat \cup {None}]
  /\ gc \subseteq Keys
  /\ worker.pc \in {"idle", "refs", "next", "delete", "remove"}
  /\ faults \in 0..MaxFaults

\* Generations only grow, and what is needed no longer is queued anew.
QueueGrows ==
  /\ queue' \in [Keys -> Nat \cup {None}]
  /\ \A k \in Keys :
       /\ queue[k] # None => queue'[k] # None /\ queue'[k] >= queue[k]
       /\ Needed(k) /\ ~Needed(k)' =>
            queue'[k] # None /\ (queue[k] # None => queue'[k] > queue[k])

LEMMA LimitNat == Limit \in Nat \ {0} /\ MaxFaults \in Nat /\ None \notin Nat
  BY BlobAssumption

\* Pruning keeps the newest, at most Limit of them.
LEMMA PrunedNewest ==
  ASSUME NEW s \in Seq(Contents), Len(s) >= 1
  PROVE  /\ Len(Pruned(s)) \in 1..Limit
         /\ Pruned(s)[Len(Pruned(s))] = s[Len(s)]
         /\ \E d \in Nat : /\ Len(s) = Len(Pruned(s)) + d
                           /\ \A i \in 1..Len(Pruned(s)) : Pruned(s)[i] = s[i + d]
<1>1. CASE Len(s) <= Limit
  <2>1. Pruned(s) = s
    BY <1>1 DEF Pruned
  <2>2. Len(s) \in Nat /\ Len(s) \in 1..Limit
    BY <1>1, LimitNat
  <2>3. Len(s) = Len(s) + 0 /\ \A i \in 1..Len(s) : s[i] = s[i + 0]
    BY <2>2
  <2>4. \E d \in Nat : Len(s) = Len(s) + d /\ \A i \in 1..Len(s) : s[i] = s[i + d]
    BY <2>3
  <2> QED
    BY <2>1, <2>2, <2>4
<1>2. CASE ~(Len(s) <= Limit)
  <2>1. Limit \in Nat \ {0} /\ Len(s) \in Nat
    BY LimitNat
  <2>2. PICK d \in Nat : d = Len(s) - Limit
    BY <2>1, <1>2
  <2>3. d + 1 \in 1..Len(s) /\ Len(s) - (d + 1) + 1 = Limit
    BY <2>1, <2>2, <1>2
  <2>4. Pruned(s) = SubSeq(s, d + 1, Len(s))
    BY <1>2, <2>1, <2>2 DEF Pruned
  <2>5. /\ Len(SubSeq(s, d + 1, Len(s))) = Limit
        /\ \A i \in 1..Limit : SubSeq(s, d + 1, Len(s))[i] = s[d + 1 + i - 1]
    BY <2>1, <2>3
  <2>6. \A i \in 1..Limit : d + 1 + i - 1 = i + d
    BY <2>1, <2>2
  <2>7. Len(Pruned(s)) = Limit /\ \A i \in 1..Limit : Pruned(s)[i] = s[i + d]
    BY <2>4, <2>5, <2>6
  <2>8. Limit + d = Len(s) /\ Limit \in 1..Limit
    BY <2>1, <2>2
  <2> QED
    BY <2>7, <2>8
<1> QED
  BY <1>1, <1>2

\* A key occurs no more often after pruning than before.
LEMMA PrunedFewer ==
  ASSUME NEW s \in Seq(Contents), Len(s) >= 1, NEW x
  PROVE  LET before == {i \in DOMAIN s : s[i].key = x}
             after  == {i \in DOMAIN Pruned(s) : Pruned(s)[i].key = x}
         IN  /\ Cardinality(before) \in Nat /\ Cardinality(after) \in Nat
             /\ Cardinality(after) <= Cardinality(before)
             /\ before # {} /\ after = {} => Cardinality(before) > Cardinality(after)
<1> DEFINE before == {i \in DOMAIN s : s[i].key = x}
           after  == {i \in DOMAIN Pruned(s) : Pruned(s)[i].key = x}
<1>1. PICK d \in Nat : /\ Len(s) = Len(Pruned(s)) + d
                       /\ \A i \in 1..Len(Pruned(s)) : Pruned(s)[i] = s[i + d]
  BY PrunedNewest
<1>2. Pruned(s) \in Seq(Contents)
  BY PrunedPart
<1>3. DOMAIN s = 1..Len(s) /\ DOMAIN Pruned(s) = 1..Len(Pruned(s)) /\ Len(s) \in Nat
        /\ Len(Pruned(s)) \in Nat
  BY <1>2
<1>4. IsFiniteSet(before)
  <2>1. IsFiniteSet(1..Len(s))
    BY <1>3, FS_Interval
  <2> QED
    BY <1>3, <2>1, FS_Subset
<1>5. PICK shift : shift = [i \in after |-> i + d]
  OBVIOUS
<1>6. shift \in Injection(after, before)
  <2>1. \A i \in after : i + d \in before
    BY <1>1, <1>3
  <2>2. shift \in [after -> before]
    BY <1>5, <2>1
  <2>3. \A i, j \in after : shift[i] = shift[j] => i = j
    BY <1>3, <1>5
  <2> QED
    BY <2>2, <2>3 DEF Injection, IsInjective
<1>7. IsFiniteSet(after) /\ Cardinality(after) <= Cardinality(before)
  BY <1>4, <1>6, FS_Injection
<1>8. Cardinality(before) \in Nat /\ Cardinality(after) \in Nat
  BY <1>4, <1>7, FS_CardinalityType
<1>9. before # {} /\ after = {} => Cardinality(before) > Cardinality(after)
  <2>1. before # {} => Cardinality(before) # 0
    BY <1>4, FS_EmptySet
  <2>2. after = {} => Cardinality(after) = 0
    BY <1>7, FS_EmptySet
  <2> HIDE DEF before, after
  <2> QED
    BY <1>8, <2>1, <2>2
<1> QED
  BY <1>7, <1>8, <1>9

LEMMA QueuedGrows ==
  ASSUME queue \in [Keys -> Nat \cup {None}], NEW n \in [Keys -> Nat],
         queue' = Queued(n),
         \A k \in Keys : Needed(k) /\ ~Needed(k)' => n[k] # 0
  PROVE  QueueGrows
<1>1. \A k \in Keys : queue'[k] = IF n[k] = 0 THEN queue[k]
                                  ELSE IF queue[k] = None THEN n[k] - 1 ELSE queue[k] + n[k]
  BY DEF Queued
<1>2. \A k \in Keys : queue[k] \in Nat \cup {None} /\ n[k] \in Nat
  OBVIOUS
<1>3. \A k \in Keys :
        /\ queue'[k] \in Nat \cup {None}
        /\ queue[k] # None => queue'[k] # None /\ queue'[k] >= queue[k]
        /\ n[k] # 0 => queue'[k] # None /\ (queue[k] # None => queue'[k] > queue[k])
  BY <1>1, <1>2, LimitNat
<1>4. queue' \in [Keys -> Nat \cup {None}]
  BY <1>3 DEF Queued
<1> QED
  BY <1>3, <1>4 DEF QueueGrows

LEMMA QueueStays ==
  ASSUME queue \in [Keys -> Nat \cup {None}], queue' = queue, Refd \subseteq Refd'
  PROVE  QueueGrows
<1>1. \A k \in Keys : queue[k] \in Nat \cup {None}
  OBVIOUS
<1> QED
  BY <1>1, LimitNat DEF QueueGrows, Refd

\* More of the transaction of a save or a restore.
LEMMA ReplacedMore ==
  ASSUME RowsOK, Counts, NEW f \in Files, Exists(f), NEW k \in Keys, NEW t \in Tags,
         Replace(f, k, t)
  PROVE  /\ QueueGrows
         /\ \A g \in Files : Len(versions'[g]) <= Limit
         /\ \A g \in Files \ {f} :
              file'[g] = file[g] /\ versions'[g] = versions[g] /\ rev'[g] = rev[g]
         /\ Exists(f)' /\ file'[f].key = k /\ file'[f].tag = t
         /\ \E i \in DOMAIN versions'[f] :
              versions'[f][i] = [key |-> file[f].key, tag |-> file[f].tag]
         /\ \A i \in DOMAIN versions'[f] :
              \/ versions'[f][i].tag = file[f].tag
              \/ \E j \in DOMAIN versions[f] : versions'[f][i].tag = versions[f][j].tag
<1>1. PICK now : now = [key |-> file[f].key, tag |-> file[f].tag]
  OBVIOUS
<1>2. PICK all : all = Append(versions[f], now)
  OBVIOUS
<1>3. PICK kept : kept = Pruned(all)
  OBVIOUS
<1>4. file[f] \in Rows
  BY DEF RowsOK, Exists
<1>5. now \in Contents /\ now.key = file[f].key /\ now.tag = file[f].tag
  BY <1>1, <1>4 DEF Rows, Contents
<1>6. versions[f] \in Seq(Contents)
  BY DEF RowsOK
<1>7. /\ all \in Seq(Contents) /\ Len(all) = Len(versions[f]) + 1
      /\ DOMAIN all = 1..Len(all) /\ Len(versions[f]) \in Nat
      /\ DOMAIN versions[f] = 1..Len(versions[f])
      /\ all[Len(all)] = now
      /\ \A i \in 1..Len(versions[f]) : all[i] = versions[f][i]
  BY <1>2, <1>5, <1>6
<1>8. /\ kept \in Seq(Contents)
      /\ \A i \in DOMAIN kept : \E j \in DOMAIN all : kept[i] = all[j]
  BY <1>3, <1>7, PrunedPart
<1>9. Len(kept) \in 1..Limit /\ kept[Len(kept)] = now
  <2>1. Len(all) >= 1
    BY <1>7
  <2> QED
    BY <1>3, <1>7, <2>1, PrunedNewest
<1>10. PICK row : row = [key |-> k, tag |-> t, trashed |-> FALSE]
  OBVIOUS
<1>11. row \in Rows /\ row.key = k /\ row.tag = t /\ row # None
  <2>1. row \in Rows /\ row.key = k /\ row.tag = t
    BY <1>10 DEF Rows
  <2> QED
    BY <2>1, BlobAssumption
<1>12. /\ versions' = [versions EXCEPT ![f] = kept]
       /\ file' = [file EXCEPT ![f] = row]
       /\ rev' = [rev EXCEPT ![f] = @ + 1]
  BY <1>1, <1>2, <1>3, <1>10 DEF Replace
<1>13. /\ versions'[f] = kept /\ file'[f] = row
       /\ \A g \in Files \ {f} :
            file'[g] = file[g] /\ versions'[g] = versions[g] /\ rev'[g] = rev[g]
  BY <1>12 DEF RowsOK
<1>14. PICK n : n = [x \in Keys |->
             Cardinality({i \in DOMAIN all : all[i].key = x})
               - Cardinality({i \in DOMAIN kept : kept[i].key = x})
               + (IF x = file[f].key /\ x # k THEN 1 ELSE 0)]
  OBVIOUS
<1>15. queue' = Queued(n)
  BY <1>1, <1>2, <1>3, <1>14 DEF Replace
<1>16. ASSUME NEW x \in Keys
       PROVE  n[x] \in Nat /\ (Needed(x) /\ ~Needed(x)' => n[x] # 0)
  <2>1. PICK before : before = {i \in DOMAIN all : all[i].key = x}
    OBVIOUS
  <2>2. PICK after : after = {i \in DOMAIN kept : kept[i].key = x}
    OBVIOUS
  <2>3. /\ Cardinality(before) \in Nat /\ Cardinality(after) \in Nat
        /\ Cardinality(after) <= Cardinality(before)
        /\ before # {} /\ after = {} => Cardinality(before) > Cardinality(after)
    <3>1. all \in Seq(Contents) /\ Len(all) >= 1
      BY <1>7
    <3>2. LET b == {i \in DOMAIN all : all[i].key = x}
              a == {i \in DOMAIN Pruned(all) : Pruned(all)[i].key = x}
          IN  /\ Cardinality(b) \in Nat /\ Cardinality(a) \in Nat
              /\ Cardinality(a) <= Cardinality(b)
              /\ b # {} /\ a = {} => Cardinality(b) > Cardinality(a)
      BY ONLY <3>1, PrunedFewer
    <3> QED
      BY <1>3, <2>1, <2>2, <3>2
  <2>4. n[x] = Cardinality(before) - Cardinality(after)
                 + (IF x = file[f].key /\ x # k THEN 1 ELSE 0)
    BY <1>14, <2>1, <2>2
  <2>5. n[x] \in Nat /\ n[x] >= Cardinality(before) - Cardinality(after)
    BY <2>3, <2>4
  <2>6. ASSUME Needed(x), ~Needed(x)'
        PROVE  before # {} /\ after = {}
    <3>1. PICK g \in Files : Exists(g) /\ (file[g].key = x \/ x \in Kept(g))
      BY <2>6 DEF Needed
    <3>2. g = f
      <4> SUFFICES ASSUME g # f
                   PROVE  FALSE
        OBVIOUS
      <4>1. Exists(g)' /\ (file'[g].key = x \/ x \in Kept(g)')
        BY <1>13, <3>1 DEF Exists, Kept
      <4> QED
        BY <2>6, <4>1 DEF Needed
    <3>3. before # {}
      <4>1. CASE file[f].key = x
        BY <4>1, <2>1, <1>5, <1>7
      <4>2. CASE x \in Kept(f)
        <5>1. PICK i \in 1..Len(versions[f]) : versions[f][i].key = x
          BY <4>2, <1>7 DEF Kept
        <5>2. all[i].key = x /\ i \in DOMAIN all
          BY <5>1, <1>7
        <5> QED
          BY <5>2, <2>1
      <4> QED
        BY <3>1, <3>2, <4>1, <4>2
    <3>4. after = {}
      <4> SUFFICES ASSUME NEW i \in DOMAIN kept, kept[i].key = x
                   PROVE  FALSE
        BY <2>2
      <4>1. x \in Kept(f)' /\ Exists(f)'
        BY <1>11, <1>13 DEF Kept, Exists
      <4> QED
        BY <2>6, <4>1 DEF Needed
    <3> QED
      BY <3>3, <3>4
  <2> QED
    BY <2>3, <2>5, <2>6
<1>17. QueueGrows
  <2>1. n \in [Keys -> Nat]
    BY <1>14, <1>16
  <2> QED
    BY <1>15, <1>16, <2>1, QueuedGrows DEF Counts
<1>18. \A g \in Files : Len(versions'[g]) <= Limit
  BY <1>9, <1>13, LimitNat DEF Counts
<1>19. \E i \in DOMAIN versions'[f] : versions'[f][i] = now
  BY <1>8, <1>9, <1>13
<1>20. \A i \in DOMAIN versions'[f] :
              \/ versions'[f][i].tag = file[f].tag
              \/ \E j \in DOMAIN versions[f] : versions'[f][i].tag = versions[f][j].tag
  <2> SUFFICES ASSUME NEW i \in DOMAIN kept
               PROVE  \/ kept[i].tag = file[f].tag
                      \/ \E j \in DOMAIN versions[f] : kept[i].tag = versions[f][j].tag
    BY <1>13
  <2>1. PICK j \in 1..Len(all) : kept[i] = all[j]
    BY <1>7, <1>8
  <2>2. CASE j = Len(all)
    BY <1>5, <1>7, <2>1, <2>2
  <2>3. CASE j \in 1..Len(versions[f])
    BY <1>7, <2>1, <2>3
  <2> QED
    BY <1>7, <2>2, <2>3
<1> QED
  BY <1>1, <1>11, <1>13, <1>17, <1>18, <1>19, <1>20 DEF Exists

\* The row goes: everything that it alone needed is queued.
LEMMA PurgedMore ==
  ASSUME RowsOK, Counts, NEW f \in Files, Purge(f)
  PROVE  QueueGrows /\ \A g \in Files : Len(versions'[g]) <= Limit
<1>1. PICK n : n = [k \in Keys |-> Count(f, k) + (IF file[f].key = k THEN 1 ELSE 0)]
  OBVIOUS
<1>2. /\ queue' = Queued(n) /\ file' = [file EXCEPT ![f] = None]
      /\ versions' = [versions EXCEPT ![f] = <<>>]
  BY <1>1 DEF Purge
<1>3. /\ versions'[f] = <<>>
      /\ \A g \in Files \ {f} : file'[g] = file[g] /\ versions'[g] = versions[g]
  BY <1>2 DEF RowsOK
<1>4. \A g \in Files : Len(versions'[g]) <= Limit
  BY <1>3, LimitNat DEF Counts
<1>5. ASSUME NEW x \in Keys
      PROVE  n[x] \in Nat /\ (Needed(x) /\ ~Needed(x)' => n[x] # 0)
  <2>1. PICK S : S = {i \in DOMAIN versions[f] : versions[f][i].key = x}
    OBVIOUS
  <2>2. IsFiniteSet(S)
    <3>1. DOMAIN versions[f] = 1..Len(versions[f]) /\ Len(versions[f]) \in Nat
      BY DEF RowsOK
    <3>2. IsFiniteSet(DOMAIN versions[f])
      BY <3>1, FS_Interval
    <3> QED
      BY <2>1, <3>2, FS_Subset
  <2>3. Cardinality(S) \in Nat /\ (S # {} => Cardinality(S) # 0)
    BY <2>2, FS_EmptySet, FS_CardinalityType
  <2>4. n[x] = Cardinality(S) + (IF file[f].key = x THEN 1 ELSE 0)
    BY <1>1, <2>1 DEF Count
  <2>5. ASSUME Needed(x), ~Needed(x)'
        PROVE  file[f].key = x \/ S # {}
    <3>1. PICK g \in Files : Exists(g) /\ (file[g].key = x \/ x \in Kept(g))
      BY <2>5 DEF Needed
    <3>2. g = f
      <4> SUFFICES ASSUME g # f
                   PROVE  FALSE
        OBVIOUS
      <4>1. Exists(g)' /\ (file'[g].key = x \/ x \in Kept(g)')
        BY <1>3, <3>1 DEF Exists, Kept
      <4> QED
        BY <2>5, <4>1 DEF Needed
    <3> QED
      BY <2>1, <3>1, <3>2 DEF Kept
  <2> QED
    BY <2>3, <2>4, <2>5
<1>6. n \in [Keys -> Nat]
  BY <1>1, <1>5
<1> QED
  BY <1>2, <1>4, <1>5, <1>6, QueuedGrows DEF Counts

\* A step that leaves histories and the worker alone.
LEMMA CountsRows ==
  ASSUME Counts, queue' \in [Keys -> Nat \cup {None}],
         \A f \in Files : Len(versions'[f]) <= Limit,
         UNCHANGED worker, gc' \subseteq gc, faults' = faults \/ Fault
  PROVE  Counts'
<1>1. faults' \in 0..MaxFaults
  BY LimitNat DEF Counts, Fault
<1> QED
  BY <1>1 DEF Counts

LEMMA StatementMore ==
  ASSUME RowsOK, Counts, NEW r, Pending(r), NEW accepted \in BOOLEAN,
         Statement(r, accepted)
  PROVE  /\ queue' \in [Keys -> Nat \cup {None}]
         /\ \A f \in Files : Len(versions'[f]) <= Limit
<1>1. CASE UNCHANGED <<versions, queue>>
  BY <1>1 DEF Counts
<1>2. CASE Exists(r.file) /\ Replace(r.file, r.key, Tag(r.key, 0))
  <2>1. Tag(r.key, 0) \in Tags
    BY TagOK, UndoNat DEF Pending
  <2> QED
    BY <1>2, <2>1, ReplacedMore DEF Pending, QueueGrows
<1> QED
  BY <1>1, <1>2 DEF Statement, rows, Unchanged, Live

LEMMA CountsEditor ==
  ASSUME IInv, Counts, NEW e \in Editors, EditorStep(e)
  PROVE  Counts'
<1>1. UNCHANGED <<worker, gc, faults>>
  BY DEF EditorStep, OpenDocument, CreateDocument, SaveLook, Commit, Discard, RestoreVersion,
     jobs
<1>2. ASSUME UNCHANGED <<versions, queue>>
      PROVE  Counts'
  BY <1>1, <1>2, CountsRows DEF Counts
<1>3. CASE \E f \in Files : OpenDocument(e, f)
  BY <1>2, <1>3 DEF OpenDocument, rows
<1>4. CASE \E f \in Files, k \in Keys :
             CreateDocument(e, f, k) \/ \E blind \in BOOLEAN : SaveLook(e, f, k, blind)
  BY <1>2, <1>4 DEF CreateDocument, SaveLook, rows
<1>5. CASE Discard(e)
  BY <1>2, <1>5 DEF Discard, rows
<1>6. CASE Commit(e)
  <2>1. PICK accepted \in BOOLEAN : req[e].pc = "commit" /\ Statement(req[e], accepted)
    BY <1>6 DEF Commit
  <2>2. Pending(req[e])
    BY <2>1 DEF IInv, ReqsOK
  <2> QED
    BY <1>1, <2>1, <2>2, StatementMore, CountsRows DEF IInv
<1>7. ASSUME NEW i \in 1..Limit, RestoreVersion(e, i)
      PROVE  Counts'
  <2>1. PICK f : f = req[e].file
    OBVIOUS
  <2>2. f \in Files /\ Exists(f) /\ i \in DOMAIN versions[f] /\ undo < MaxUndo
    BY <1>7, <2>1 DEF RestoreVersion, IInv, ReqsOK, Live
  <2>3. CASE UNCHANGED rows
    BY <1>2, <2>3 DEF rows
  <2>4. CASE Replace(f, versions[f][i].key, FreshTag(versions[f][i].tag))
    <3>1. versions[f][i] \in Contents
      BY <2>2 DEF IInv, RowsOK
    <3>2. versions[f][i].key \in Keys /\ versions[f][i].tag.of \in Keys
      BY <3>1 DEF Contents, Tags
    <3>3. undo + 1 \in 0..MaxUndo
      BY <2>2, UndoNat DEF IInv, RowsOK
    <3>4. FreshTag(versions[f][i].tag) \in Tags
      BY <3>2, <3>3, TagOK DEF FreshTag
    <3> QED
      BY <1>1, <2>2, <2>4, <3>2, <3>4, ReplacedMore, CountsRows DEF IInv, QueueGrows
  <2> QED
    BY <1>7, <2>1, <2>3, <2>4 DEF RestoreVersion
<1> QED
  BY <1>3, <1>4, <1>5, <1>6, <1>7 DEF EditorStep

LEMMA RemovedTyped ==
  ASSUME queue \in [Keys -> Nat \cup {None}], NEW k, NEW g, queue' = Removed(k, g)
  PROVE  queue' \in [Keys -> Nat \cup {None}]
  BY DEF Removed

LEMMA CountsWorker ==
  ASSUME IInv, Counts, WorkerStep
  PROVE  Counts'
<1>1. versions' = versions /\ gc' = gc /\ faults' = faults
  BY DEF WorkerStep, WorkerLoad, WorkerRefs, WorkerNext, WorkerDelete, WorkerRemove, rows
<1>2. queue' \in [Keys -> Nat \cup {None}]
  <2>1. CASE queue' = queue
    BY <2>1 DEF Counts
  <2>2. CASE WorkerRemove
    BY <2>2, RemovedTyped DEF WorkerRemove, Counts
  <2> QED
    BY <2>1, <2>2 DEF WorkerStep, WorkerLoad, WorkerRefs, WorkerNext, WorkerDelete, rows
<1>3. worker'.pc \in {"idle", "refs", "next", "delete", "remove"}
  <2>1. worker = [pc |-> worker.pc, todo |-> worker.todo, refs |-> worker.refs,
                  cur |-> worker.cur]
    BY DEF IInv, WorkerOK
  <2>2. CASE WorkerLoad
    BY <2>2 DEF WorkerLoad, At, Rest
  <2>3. CASE WorkerRefs
    BY <2>1, <2>3 DEF WorkerRefs, At
  <2>4. CASE WorkerNext
    <3>1. CASE worker' = Rest
      BY <3>1 DEF Rest
    <3>2. ASSUME NEW c, NEW l \in {"delete", "remove"},
                 worker' = [worker EXCEPT !.pc = l, !.cur = c, !.todo = @ \ {c}]
          PROVE  worker'.pc = l
      BY <2>1, <3>2
    <3>3. ASSUME NEW c, NEW l \in BOOLEAN,
                 worker' = [worker EXCEPT !.pc = IF l THEN "remove" ELSE "delete",
                                          !.cur = c, !.todo = @ \ {c}]
          PROVE  worker'.pc \in {"delete", "remove"}
      BY <3>2, <3>3
    <3> QED
      BY <2>4, <3>1, <3>3 DEF WorkerNext, At
  <2>5. CASE WorkerDelete
    BY <2>1, <2>5 DEF WorkerDelete, At
  <2>6. CASE WorkerRemove
    BY <2>1, <2>6 DEF WorkerRemove, At
  <2> QED
    BY <2>2, <2>3, <2>4, <2>5, <2>6 DEF WorkerStep
<1> QED
  BY <1>1, <1>2, <1>3 DEF Counts

LEMMA CountsFault ==
  ASSUME IInv, Counts, FaultStep
  PROVE  Counts'
<1>1. CASE \E e \in Editors : Interrupt(e)
  BY <1>1, CountsRows DEF Interrupt, Counts, rows, jobs
<1>2. CASE WorkerFails \/ DeleteFails
  <2>1. worker = [pc |-> worker.pc, todo |-> worker.todo, refs |-> worker.refs,
                  cur |-> worker.cur]
    BY DEF IInv, WorkerOK
  <2>2. worker'.pc \in {"idle", "next"}
    <3>1. CASE worker' = Rest
      BY <3>1 DEF Rest
    <3>2. CASE worker' = [worker EXCEPT !.pc = "next", !.cur = None]
      BY <2>1, <3>2
    <3> QED
      BY <1>2, <3>1, <3>2 DEF WorkerFails, DeleteFails, At
  <2>3. UNCHANGED <<versions, queue, gc>> /\ Fault
    BY <1>2 DEF WorkerFails, DeleteFails, rows
  <2>4. faults' \in 0..MaxFaults
    BY <2>3, LimitNat DEF Counts, Fault
  <2> QED
    BY <2>2, <2>3, <2>4 DEF Counts
<1>3. CASE Crash
  <2>1. faults' \in 0..MaxFaults
    BY <1>3, LimitNat DEF Crash, Counts, Fault
  <2> QED
    BY <1>3, <2>1 DEF Crash, Counts, rows, Rest
<1>4. ASSUME NEW s \in late, Land(s)
      PROVE  Counts'
  <2>1. UNCHANGED <<worker, gc, faults>>
    BY <1>4 DEF Land, jobs
  <2>2. CASE queue' = Removed(s.key, s.rev) /\ versions' = versions
    <3>1. queue' \in [Keys -> Nat \cup {None}]
      BY <2>2, RemovedTyped DEF Counts
    <3> QED
      BY <2>1, <2>2, <3>1, CountsRows DEF Counts
  <2>3. ASSUME NEW accepted \in BOOLEAN, s.op # "remove", Statement(s, accepted)
        PROVE  Counts'
    <3>1. Pending(s)
      BY <2>3 DEF IInv, ReqsOK
    <3> QED
      BY <2>1, <2>3, <3>1, StatementMore, CountsRows DEF IInv
  <2> QED
    BY <1>4, <2>2, <2>3 DEF Land
<1> QED
  BY <1>1, <1>2, <1>3, <1>4 DEF FaultStep

LEMMA CountsNext == IInv /\ Counts /\ [Next]_vars => Counts'
<1> SUFFICES ASSUME IInv, Counts, [Next]_vars
             PROVE  Counts'
  OBVIOUS
<1>1. CASE FileStep
  <2>1. UNCHANGED <<worker, gc, faults>>
    BY <1>1 DEF FileStep, Trash, Purge, CopyDocument, jobs
  <2>2. CASE UNCHANGED <<versions, queue>>
    BY <2>1, <2>2, CountsRows DEF Counts
  <2>3. ASSUME NEW f \in Files, Purge(f)
        PROVE  Counts'
    BY <2>1, <2>3, PurgedMore, CountsRows DEF IInv, QueueGrows
  <2> QED
    BY <1>1, <2>2, <2>3 DEF FileStep, Trash, CopyDocument
<1>2. CASE Collect \/ Age \/ \E k \in Keys : CollectOne(k)
  <2>1. UNCHANGED <<versions, queue, worker, faults>> /\ gc' \subseteq Keys
    <3>1. old \subseteq Keys
      BY DEF IInv, Apart
    <3> QED
      BY <1>2, <3>1 DEF Collect, Orphans, Age, CollectOne, Counts, rows, jobs
  <2> QED
    BY <2>1 DEF Counts
<1>3. CASE UNCHANGED vars
  BY <1>3 DEF vars, Counts
<1> QED
  BY <1>1, <1>2, <1>3, CountsEditor, CountsWorker, CountsFault DEF Next

\* The types and the number of versions hold throughout, together with the
\* invariant in sets of keys.
THEOREM CountsInvariant == Spec => [](IInv /\ Counts)
<1>1. Init => Counts
  BY LimitNat DEF Init, Counts, Rest
<1> QED
  BY <1>1, InitIInv, IInvNext, CountsNext, PTL DEF Spec

\* The type invariant: a document never has more versions than the limit, a
\* generation is a number and never falls below zero (version_routes.rs 44,
\* 002_file_cleanup.sql).
THEOREM BlobsTyped == Spec => []TypeOK
<1>1. IInv /\ Counts => TypeOK
  BY DEF IInv, Counts, TypeOK, RowsOK, ReqsOK, Apart
<1> QED
  BY <1>1, CountsInvariant, PTL

-----------------------------------------------------------------------------
(* What requests remember: entity tags name one content of one document.   *)

\* What a request that holds a key is about, wherever it is; what an editor has
\* read.
Ask(r) == [op |-> r.op, file |-> r.file, rev |-> r.rev, key |-> r.key, prev |-> r.prev]
Waiting == {r \in {req[e] : e \in Editors} \cup late : r.op # "remove" /\ r.key # None}
Asks == {Ask(r) : r \in Waiting}

Opened ==
  {[file |-> req[e].file, tag |-> req[e].tag, rev |-> req[e].rev] :
     e \in {d \in Editors : req[d].pc = "open"}}

\* A tag that is, or has been, some content's.
OldTag(t) == t \in Tags /\ t.of \in used /\ t.of \notin Mine /\ t.id <= undo

\* f had the tag t in its revision n, and never again.
ReadAt(f, t, n) ==
  /\ f \in used /\ OldTag(t)
  /\ Exists(f) /\ file[f].tag = t => rev[f] = n

TagsOld ==
  \A f \in Files :
    /\ Exists(f) => f \in used /\ OldTag(file[f].tag)
    /\ \A i \in DOMAIN versions[f] : OldTag(versions[f][i].tag)

Remembered ==
  /\ \A o \in Opened : ReadAt(o.file, o.tag, o.rev)
  /\ \A r \in Asks : r.op = "save" =>
        /\ r.file \in used /\ OldTag(r.prev.tag)
        /\ r.rev # None => ReadAt(r.file, r.prev.tag, r.rev)

\* A document to be created is known to nobody else.
Unborn ==
  \A r \in Asks : r.op = "create" =>
    /\ ~Exists(r.file) /\ r.file \in used
    /\ \A q \in Asks : q.file = r.file => q.key = r.key
    /\ \A o \in Opened : o.file # r.file

\* Who has no blob has no key.
Empty ==
  \A e \in Editors : req[e].pc \in {"idle", "open"} => req[e].key = None

Past == TagsOld /\ Remembered /\ Unborn /\ Empty

\* The steps that NoStaleSave and HistoryKept allow.
FitSave(r) ==
  (r.op = "save" /\ r.rev # None /\ r.key # None /\ ~Needed(r.key) /\ Needed(r.key)')
    => r.rev = rev[r.file]
SavesFit == \A r \in Asks : FitSave(r)
HistoryFits ==
  \A f \in Files :
    (Exists(f) /\ Exists(f)' /\ file'[f].tag # file[f].tag)
      => \E i \in DOMAIN versions'[f] :
           versions'[f][i] = [key |-> file[f].key, tag |-> file[f].tag]

\* Every ask holds its key, and no two hold the same.
LEMMA AsksHold ==
  ASSUME ReqsOK, Distinct
  PROVE  /\ \A r \in Asks : /\ r.key \in Mine /\ r.key \in Keys /\ r.key # None
                            /\ r.file \in Files /\ r.op \in {"save", "create"}
         /\ \A q, r \in Asks : q.key = r.key => q = r
<1>1. \A r \in Waiting : Pending(r) /\ r.key # None
  BY DEF ReqsOK, Waiting
<1>2. \A r \in Waiting : r.key \in Mine
  BY <1>1 DEF Waiting, Pending, Mine, Held
<1>3. \A q, r \in Waiting : q.key = r.key => q = r
  BY <1>1 DEF Waiting, Distinct
<1> QED
  BY <1>1, <1>2, <1>3 DEF Asks, Ask, Pending

KeysHeld == \A r \in Asks : r.key \in Mine

LEMMA KeysHold == ReqsOK /\ Distinct => KeysHeld
  BY AsksHold DEF KeysHeld

LEMMA OpenedFiles ==
  ASSUME ReqsOK
  PROVE  \A o \in Opened : o.file \in Files
  BY DEF ReqsOK, Opened

LEMMA MineAsks ==
  ASSUME ReqsOK, Distinct, NEW k \in Mine
  PROVE  \E r \in Asks : r.key = k
<1>1. k # None
  BY BlobAssumption DEF Mine
<1>2. PICK r \in Waiting : r.key = k
  <2>1. CASE \E e \in Editors : req[e].key = k
    <3>1. PICK e \in Editors : req[e].key = k
      BY <2>1
    <3>2. req[e].op # "remove"
      BY <1>1, <3>1 DEF ReqsOK, Pending
    <3> QED
      BY <1>1, <3>1, <3>2 DEF Waiting
  <2>2. CASE \E s \in late : s.op # "remove" /\ s.key = k
    BY <1>1, <2>2 DEF Waiting
  <2> QED
    BY <2>1, <2>2 DEF Mine, Held
<1>3. Ask(r) \in Asks /\ Ask(r).key = k
  BY <1>2 DEF Asks, Ask
<1> QED
  BY <1>3

\* Tags stay old: what is held anew was never used.
LEMMA TagsStayOld ==
  ASSUME RowsOK, used \subseteq used', undo' \in 0..MaxUndo, undo' >= undo,
         Mine' \subseteq Mine \cup (Keys \ used), NEW t, OldTag(t)
  PROVE  OldTag(t)'
<1>1. t \in Tags /\ t.id \in Nat /\ undo \in Nat /\ undo' \in Nat
  BY UndoNat DEF OldTag, Tags, RowsOK
<1> QED
  BY <1>1 DEF OldTag

\* A step that leaves the rows alone, and in which requests only end.
LEMMA PastKept ==
  ASSUME RowsOK, Past, UNCHANGED <<file, versions, rev, undo>>, used \subseteq used',
         Mine' \subseteq Mine, Opened' \subseteq Opened, Asks' \subseteq Asks, Empty'
  PROVE  Past' /\ SavesFit /\ HistoryFits
<1>1. \A t : OldTag(t) => OldTag(t)'
  BY TagsStayOld DEF RowsOK
<1>2. \A f, t, n : ReadAt(f, t, n) => ReadAt(f, t, n)'
  BY <1>1 DEF ReadAt, Exists
<1>3. TagsOld'
  BY <1>1 DEF Past, TagsOld, Exists
<1>4. Remembered'
  BY <1>1, <1>2 DEF Past, Remembered
<1>5. Unborn'
  BY DEF Past, Unborn, Exists
<1>6. SavesFit /\ HistoryFits
  BY DEF SavesFit, FitSave, HistoryFits, Needed, Exists, Kept
<1> QED
  BY <1>3, <1>4, <1>5, <1>6 DEF Past

\* The row of f changes; everybody who has read f saw an older tag of it.
LEMMA PastReplaced ==
  ASSUME RowsOK, RowsOK', ReqsOK, Distinct, Past,
         NEW f \in Files, NEW t, Exists(f), Exists(f)',
         \A g \in Files \ {f} :
           file'[g] = file[g] /\ versions'[g] = versions[g] /\ rev'[g] = rev[g],
         \A i \in DOMAIN versions'[f] :
           \/ versions'[f][i].tag = file[f].tag
           \/ \E j \in DOMAIN versions[f] : versions'[f][i].tag = versions[f][j].tag,
         file'[f].tag = t, OldTag(t)', ~OldTag(t),
         used' = used, undo' >= undo, Mine' \subseteq Mine, Opened' \subseteq Opened,
         Asks' \subseteq Asks, Empty'
  PROVE  Past'
<1>1. \A u : OldTag(u) => OldTag(u)'
  <2>1. undo' \in 0..MaxUndo
    BY DEF RowsOK
  <2> QED
    BY <2>1, TagsStayOld
<1>2. \A g, u, n : g \in Files /\ ReadAt(g, u, n) => ReadAt(g, u, n)'
  BY <1>1 DEF ReadAt, Exists
<1>3. TagsOld'
  <2>1. \A i \in DOMAIN versions'[f] : \E u : versions'[f][i].tag = u /\ OldTag(u)
    BY DEF Past, TagsOld
  <2>2. \A i \in DOMAIN versions'[f] : \E u : versions'[f][i].tag = u /\ OldTag(u)'
    BY <1>1, <2>1
  <2>3. f \in used
    BY DEF Past, TagsOld
  <2>4. ASSUME NEW g \in Files
        PROVE  /\ Exists(g)' => g \in used' /\ \E u : file'[g].tag = u /\ OldTag(u)'
               /\ \A i \in DOMAIN versions'[g] : \E u : versions'[g][i].tag = u /\ OldTag(u)'
    <3>1. CASE g = f
      BY <2>2, <2>3, <3>1
    <3>2. CASE g # f
      <4>1. file'[g] = file[g] /\ versions'[g] = versions[g]
        BY <3>2
      <4>2. /\ Exists(g) => g \in used /\ OldTag(file[g].tag)
            /\ \A i \in DOMAIN versions[g] : OldTag(versions[g][i].tag)
        BY DEF Past, TagsOld
      <4> QED
        BY <1>1, <4>1, <4>2 DEF Exists
    <3> QED
      BY <3>1, <3>2
  <2> QED
    BY <2>4 DEF TagsOld
<1>4. /\ \A o \in Opened : ReadAt(o.file, o.tag, o.rev)
      /\ \A r \in Asks : r.op = "save" =>
           /\ r.file \in used /\ OldTag(r.prev.tag)
           /\ r.rev # None => ReadAt(r.file, r.prev.tag, r.rev)
  BY DEF Past, Remembered
<1>5. (\A o \in Opened' : o.file \in Files) /\ (\A r \in Asks' : r.file \in Files)
  BY AsksHold, OpenedFiles
<1>6. Remembered'
  BY <1>1, <1>2, <1>4, <1>5 DEF Remembered
<1>7. Unborn'
  BY <1>5 DEF Past, Unborn, Exists
<1> QED
  BY <1>3, <1>6, <1>7 DEF Past

\* A request that ends, or is refused.
LEMMA AsksEnd ==
  ASSUME ReqsOK, Empty, NEW e \in Editors, NEW r, r.key = None, r.pc = "idle",
         Goto(e, r), late' = late
  PROVE  Opened' \subseteq Opened /\ Asks' \subseteq Asks /\ Empty'
<1>1. req' = [req EXCEPT ![e] = r] /\ req \in [Editors -> Reqs]
  BY DEF Goto, ReqsOK
<1>2. req'[e] = r /\ \A d \in Editors \ {e} : req'[d] = req[d]
  BY <1>1
<1>3. Empty'
  BY <1>2 DEF Empty
<1>4. Opened' \subseteq Opened
  BY <1>2 DEF Opened
<1>5. Waiting' \subseteq Waiting
  BY <1>2 DEF Waiting
<1> QED
  BY <1>3, <1>4, <1>5 DEF Asks

LEMMA AsksGoOn ==
  ASSUME ReqsOK, Empty, NEW e \in Editors,
         Goto(e, [req[e] EXCEPT !.pc = "discard"]), late' = late
  PROVE  Opened' \subseteq Opened /\ Asks' \subseteq Asks /\ Empty'
<1>1. PICK r : r = [req[e] EXCEPT !.pc = "discard"]
  OBVIOUS
<1>2. /\ r.pc = "discard" /\ Ask(r) = Ask(req[e])
      /\ r.key = req[e].key /\ r.op = req[e].op
  BY <1>1 DEF ReqsOK, Reqs, Ask
<1>3. req' = [req EXCEPT ![e] = r] /\ req \in [Editors -> Reqs]
  BY <1>1 DEF Goto, ReqsOK
<1>4. req'[e] = r /\ \A d \in Editors \ {e} : req'[d] = req[d]
  BY <1>3
<1>5. Empty'
  BY <1>2, <1>4 DEF Empty
<1>6. Opened' \subseteq Opened
  BY <1>2, <1>4 DEF Opened
<1>7. Asks' \subseteq Asks
  <2>1. \A w \in Waiting' : \E v \in Waiting : Ask(w) = Ask(v)
    BY <1>2, <1>4 DEF Waiting
  <2> QED
    BY <2>1 DEF Asks
<1> QED
  BY <1>5, <1>6, <1>7

\* A statement that outlives its request is the same ask.
LEMMA AsksLeave ==
  ASSUME ReqsOK, Empty, NEW e \in Editors, Goto(e, NoReq),
         late' = late \/ late' = late \cup {req[e]}
  PROVE  Opened' \subseteq Opened /\ Asks' \subseteq Asks /\ Empty'
<1>1. req' = [req EXCEPT ![e] = NoReq] /\ req \in [Editors -> Reqs]
  BY DEF Goto, ReqsOK
<1>2. req'[e] = NoReq /\ \A d \in Editors \ {e} : req'[d] = req[d]
  BY <1>1
<1>3. Empty'
  BY <1>2, NoReqOK DEF Empty
<1>4. Opened' \subseteq Opened
  BY <1>2, NoReqOK DEF Opened
<1>5. Waiting' \subseteq Waiting
  BY <1>2, NoReqOK DEF Waiting
<1> QED
  BY <1>3, <1>4, <1>5 DEF Asks

\* Requests stay, and at most removals of rows become late.
LEMMA AsksSame ==
  ASSUME Empty, req' = req, \A s \in late' \ late : s.op = "remove"
  PROVE  Opened' \subseteq Opened /\ Asks' \subseteq Asks /\ Empty'
<1>1. Waiting' \subseteq Waiting
  BY DEF Waiting
<1> QED
  BY <1>1 DEF Asks, Opened, Empty

\* A new ask: its key and, if it creates, its file are new.
LEMMA AsksTake ==
  ASSUME ReqsOK, Empty, NEW e \in Editors, NEW r, r.pc = "commit", Goto(e, r), late' = late
  PROVE  Opened' \subseteq Opened /\ Asks' \subseteq Asks \cup {Ask(r)} /\ Empty'
<1>1. req' = [req EXCEPT ![e] = r] /\ req \in [Editors -> Reqs]
  BY DEF Goto, ReqsOK
<1>2. req'[e] = r /\ \A d \in Editors \ {e} : req'[d] = req[d]
  BY <1>1
<1>3. Empty'
  BY <1>2 DEF Empty
<1>4. Opened' \subseteq Opened
  BY <1>2 DEF Opened
<1>5. Waiting' \subseteq Waiting \cup {r}
  BY <1>2 DEF Waiting
<1> QED
  BY <1>3, <1>4, <1>5 DEF Asks

-----------------------------------------------------------------------------
(* The past, step by step.                                                 *)

LEMMA PastOpen ==
  ASSUME IInv, Past, NEW e \in Editors, NEW f \in Files, OpenDocument(e, f)
  PROVE  Past' /\ SavesFit /\ HistoryFits
<1>1. PICK r : r = [NoReq EXCEPT !.pc = "open", !.file = f, !.tag = file[f].tag,
                                 !.rev = rev[f]]
  OBVIOUS
<1>2. r.key = None /\ r.pc = "open" /\ r.file = f /\ r.tag = file[f].tag /\ r.rev = rev[f]
  BY <1>1 DEF NoReq
<1>3. /\ req[e].pc = "idle" /\ Exists(f) /\ Goto(e, r)
      /\ late' = late /\ used' = used
      /\ UNCHANGED <<file, versions, rev, undo>>
  BY <1>1 DEF OpenDocument, rows
<1>4. req' = [req EXCEPT ![e] = r] /\ req \in [Editors -> Reqs]
  BY <1>3 DEF Goto, IInv, ReqsOK
<1>5. req'[e] = r /\ \A d \in Editors \ {e} : req'[d] = req[d]
  BY <1>4
<1>6. Empty'
  BY <1>2, <1>5 DEF Past, Empty
<1>7. PICK o : o = [file |-> f, tag |-> file[f].tag, rev |-> rev[f]]
  OBVIOUS
<1>8. Opened' \subseteq Opened \cup {o}
  BY <1>2, <1>5, <1>7 DEF Opened
<1>9. Asks' \subseteq Asks
  <2>1. Waiting' \subseteq Waiting
    BY <1>2, <1>3, <1>5 DEF Waiting
  <2> QED
    BY <2>1 DEF Asks
<1>10. Mine' \subseteq Mine
  BY <1>2, <1>3, <1>5, BlobAssumption DEF Mine, Held
<1>11. \A t : OldTag(t) => OldTag(t)'
  BY <1>3, <1>10, TagsStayOld DEF IInv, RowsOK
<1>12. \A g, t, n : ReadAt(g, t, n) => ReadAt(g, t, n)'
  BY <1>3, <1>11 DEF ReadAt, Exists
<1>13. TagsOld'
  BY <1>3, <1>11 DEF Past, TagsOld, Exists
<1>14. Remembered'
  <2>1. ReadAt(f, file[f].tag, rev[f])
    BY <1>3 DEF Past, TagsOld, ReadAt
  <2>2. ReadAt(o.file, o.tag, o.rev)
    BY <1>7, <2>1
  <2> QED
    BY <1>3, <1>8, <1>9, <1>11, <1>12, <2>2 DEF Past, Remembered
<1>15. Unborn'
  BY <1>3, <1>7, <1>8, <1>9 DEF Past, Unborn, Exists
<1>16. SavesFit /\ HistoryFits
  BY <1>3 DEF SavesFit, FitSave, HistoryFits, Needed, Exists, Kept
<1> QED
  BY <1>6, <1>13, <1>14, <1>15, <1>16 DEF Past

\* A request that takes a key: a save remembers what its editor had read, and
\* what is created has a new id.
LEMMA PastTake ==
  ASSUME IInv, Past, NEW e \in Editors, NEW r, NEW k \in Keys,
         WriteBlob(e, r, k), r.op = "save" \/ r.op = "create",
         UNCHANGED <<rows, late>>, used \cup {k} \subseteq used',
         r.op = "save" => /\ Exists(r.file) /\ r.file \in used /\ OldTag(r.prev.tag)
                          /\ r.rev # None => ReadAt(r.file, r.prev.tag, r.rev),
         r.op = "create" => /\ r.file \in Files \ used /\ r.file \in used',
         r \in Reqs, r.file \in Files
  PROVE  Past' /\ SavesFit /\ HistoryFits
<1>1. PICK q : q = [r EXCEPT !.pc = "commit", !.key = k]
  OBVIOUS
<1>2. /\ q \in Reqs /\ q.key = k /\ q.pc = "commit" /\ q.op = r.op /\ q.file = r.file
      /\ q.rev = r.rev /\ q.prev = r.prev
  BY <1>1 DEF Reqs
<1>3. Goto(e, q) /\ k \notin used
  BY <1>1 DEF WriteBlob
<1>4. UNCHANGED <<file, versions, rev, undo>> /\ late' = late
  BY DEF rows
<1>5. k \notin Mine
  BY <1>3 DEF IInv, Apart
<1>6. Mine' \subseteq Mine \cup {k}
  BY <1>2, <1>3, <1>4, <1>5, TakeKey DEF IInv, Pending
<1>7. Opened' \subseteq Opened /\ Asks' \subseteq Asks \cup {Ask(q)} /\ Empty'
  BY <1>2, <1>3, <1>4, AsksTake DEF IInv, Past
<1>8. /\ Ask(q).key = k /\ Ask(q).op = r.op /\ Ask(q).file = r.file /\ Ask(q).rev = r.rev
      /\ Ask(q).prev = r.prev
  BY <1>2 DEF Ask
<1>9. PICK a : a = Ask(q)
  OBVIOUS
<1>10. \A t : OldTag(t) => OldTag(t)'
  <2>1. Mine' \subseteq Mine \cup (Keys \ used)
    BY <1>3, <1>6
  <2> QED
    BY <1>4, <2>1, TagsStayOld DEF IInv, RowsOK
<1>11. \A g, t, n : ReadAt(g, t, n) => ReadAt(g, t, n)'
  BY <1>4, <1>10 DEF ReadAt, Exists
<1>12. TagsOld'
  BY <1>4, <1>10 DEF Past, TagsOld, Exists
<1>13. Remembered'
  BY <1>7, <1>8, <1>10, <1>11 DEF Past, Remembered
<1>14. Unborn'
  <2>1. /\ \A p \in Asks : p.file \in used
        /\ \A o \in Opened : o.file \in used
    <3>1. \A p \in Asks : p.op \in {"save", "create"}
      BY AsksHold DEF IInv
    <3> QED
      BY <3>1 DEF Past, Remembered, Unborn, ReadAt
  <2>2. ASSUME r.op = "create"
        PROVE  /\ ~Exists(r.file) /\ \A p \in Asks : p.file # r.file
               /\ \A o \in Opened : o.file # r.file
    BY <2>1, <2>2 DEF Past, TagsOld
  <2>3. ASSUME NEW p \in Asks', p.op = "create"
        PROVE  /\ ~Exists(p.file)' /\ p.file \in used'
               /\ \A x \in Asks' : x.file = p.file => x.key = p.key
               /\ \A o \in Opened' : o.file # p.file
    <3>1. CASE p = a
      BY <1>4, <1>7, <1>8, <1>9, <2>2, <2>3, <3>1 DEF Exists
    <3>2. CASE p \in Asks
      <4>1. /\ ~Exists(p.file) /\ p.file \in used
            /\ \A x \in Asks : x.file = p.file => x.key = p.key
            /\ \A o \in Opened : o.file # p.file
        BY <2>3, <3>2 DEF Past, Unborn
      <4>2. r.file # p.file
        BY <4>1
      <4> QED
        BY <1>4, <1>7, <1>8, <4>1, <4>2 DEF Exists
    <3> QED
      BY <1>7, <1>9, <3>1, <3>2
  <2> QED
    BY <2>3 DEF Unborn
<1>15. SavesFit /\ HistoryFits
  BY <1>4 DEF SavesFit, FitSave, HistoryFits, Needed, Exists, Kept
<1> QED
  BY <1>7, <1>12, <1>13, <1>14, <1>15 DEF Past

\* The statement of a request that waits, whether it is still there or not.
LEMMA PastStatement ==
  ASSUME IInv, Counts, Past, NEW r, Pending(r), Ask(r) \in Asks,
         NEW accepted \in BOOLEAN, Statement(r, accepted),
         used' = used, Mine' \subseteq Mine, accepted => r.key \notin Mine',
         Opened' \subseteq Opened, Asks' \subseteq Asks, Empty', ReqsOK', Distinct'
  PROVE  Past' /\ SavesFit /\ HistoryFits
<1>1. /\ r.key \in Keys /\ r.file \in Files /\ Tag(r.key, 0) \in Tags
      /\ Tag(r.key, 0).of = r.key /\ Tag(r.key, 0).id = 0
  BY TagOK, UndoNat DEF Pending, Tag
<1>2. /\ RowsOK' /\ Refd' \subseteq Refd \cup {r.key}
  BY StatementRows DEF IInv
<1>3. PICK a \in Asks : a = Ask(r)
  OBVIOUS
<1>4. /\ a.key = r.key /\ a.file = r.file /\ a.op = r.op /\ a.rev = r.rev
      /\ a.prev = r.prev
  BY <1>3 DEF Ask
<1>5. a.key \in Mine /\ a.key \in used
  BY AsksHold DEF IInv, Apart
<1>6. \A q \in Asks : q.key = r.key => q = a
  BY <1>4, AsksHold DEF IInv
<1>7. PICK t \in Tags : t = Tag(r.key, 0)
  BY <1>1
<1>8. ~OldTag(t)
  BY <1>1, <1>4, <1>5, <1>7 DEF OldTag
<1>9. CASE ~accepted /\ UNCHANGED rows
  BY <1>9, PastKept DEF rows, IInv
<1>10. CASE r.op = "save" /\ accepted /\ Unchanged(r) /\ UNCHANGED undo
              /\ Replace(r.file, r.key, Tag(r.key, 0))
  <2>1. Exists(r.file) /\ file[r.file] = r.prev
    BY <1>10 DEF Unchanged, Live
  <2>2. /\ \A g \in Files \ {r.file} :
              file'[g] = file[g] /\ versions'[g] = versions[g] /\ rev'[g] = rev[g]
        /\ Exists(r.file)' /\ file'[r.file].key = r.key /\ file'[r.file].tag = t
        /\ \E i \in DOMAIN versions'[r.file] :
              versions'[r.file][i] = [key |-> file[r.file].key, tag |-> file[r.file].tag]
        /\ \A i \in DOMAIN versions'[r.file] :
              \/ versions'[r.file][i].tag = file[r.file].tag
              \/ \E j \in DOMAIN versions[r.file] :
                   versions'[r.file][i].tag = versions[r.file][j].tag
    BY <1>1, <1>7, <1>10, <2>1, ReplacedMore DEF IInv
  <2>3. OldTag(t)'
    <3>1. 0 <= undo'
      BY <1>2 DEF RowsOK
    <3> QED
      BY <1>1, <1>4, <1>5, <1>7, <1>10, <3>1 DEF OldTag
  <2>4. undo' >= undo
    BY <1>10 DEF IInv, RowsOK
  <2>5. Past'
    BY <1>1, <1>2, <1>8, <2>1, <2>2, <2>3, <2>4, PastReplaced DEF IInv
  <2>6. SavesFit
    <3> SUFFICES ASSUME NEW q \in Asks, q.op = "save", q.rev # None,
                        ~Needed(q.key), Needed(q.key)'
                 PROVE  q.rev = rev[q.file]
      BY DEF SavesFit, FitSave
    <3>1. q.key \in Keys
      BY AsksHold DEF IInv
    <3>2. q = a
      BY <1>2, <1>6, <3>1 DEF Refd
    <3>3. ReadAt(q.file, q.prev.tag, q.rev)
      BY DEF Past, Remembered
    <3> QED
      BY <1>4, <2>1, <3>2, <3>3 DEF ReadAt
  <2>7. HistoryFits
    BY <2>2 DEF HistoryFits
  <2> QED
    BY <2>5, <2>6, <2>7
<1>11. CASE /\ r.op = "create" /\ accepted /\ UNCHANGED <<versions, queue, rev, undo>>
            /\ file' = [file EXCEPT ![r.file] = [key |-> r.key, tag |-> Tag(r.key, 0),
                                                 trashed |-> FALSE]]
  <2>1. PICK row : row = [key |-> r.key, tag |-> Tag(r.key, 0), trashed |-> FALSE]
    OBVIOUS
  <2>2. row.tag = t
    BY <1>7, <2>1
  <2>3. file'[r.file] = row /\ \A g \in Files \ {r.file} : file'[g] = file[g]
    BY <1>1, <1>11, <2>1 DEF IInv, RowsOK
  <2>4. /\ ~Exists(r.file) /\ r.file \in used
        /\ \A q \in Asks : q.file = r.file => q = a
        /\ \A o \in Opened : o.file # r.file
    BY <1>3, <1>4, <1>6, <1>11 DEF Past, Unborn
  <2>5. OldTag(t)'
    <3>1. 0 <= undo'
      BY <1>2 DEF RowsOK
    <3> QED
      BY <1>1, <1>4, <1>5, <1>7, <1>11, <3>1 DEF OldTag
  <2>6. \A u : OldTag(u) => OldTag(u)'
    BY <1>11, TagsStayOld DEF IInv, RowsOK
  <2>7. \A g, u, n : g # r.file /\ g \in Files /\ ReadAt(g, u, n) => ReadAt(g, u, n)'
    BY <1>11, <2>3, <2>6 DEF ReadAt, Exists
  <2>8. TagsOld'
    <3>1. ASSUME NEW g \in Files
          PROVE  /\ Exists(g)' => g \in used' /\ \E u : file'[g].tag = u /\ OldTag(u)'
                 /\ \A i \in DOMAIN versions'[g] :
                      \E u : versions'[g][i].tag = u /\ OldTag(u)'
      <4>1. /\ Exists(g) => g \in used /\ OldTag(file[g].tag)
            /\ \A i \in DOMAIN versions[g] : OldTag(versions[g][i].tag)
        BY DEF Past, TagsOld
      <4>2. CASE g = r.file
        BY <1>11, <2>2, <2>3, <2>4, <2>5, <2>6, <4>1, <4>2
      <4>3. CASE g # r.file
        BY <1>11, <2>3, <2>6, <4>1, <4>3 DEF Exists
      <4> QED
        BY <4>2, <4>3
    <3> QED
      BY <3>1 DEF TagsOld
  <2>9. a \notin Asks'
    <3>1. (ReqsOK /\ Distinct)' => KeysHeld'
      BY KeysHold, PTL
    <3>2. \A q \in Asks' : q.key \in Mine'
      BY <3>1 DEF KeysHeld
    <3> QED
      BY <1>4, <1>11, <3>2
  <2>10. /\ \A o \in Opened' : o \in Opened /\ o.file # r.file /\ o.file \in Files
         /\ \A q \in Asks' : q \in Asks /\ q.file # r.file /\ q.file \in Files
    BY <2>4, <2>9, OpenedFiles, AsksHold DEF IInv
  <2>11. Remembered'
    <3>1. /\ \A o \in Opened : ReadAt(o.file, o.tag, o.rev)
          /\ \A q \in Asks : q.op = "save" =>
               /\ q.file \in used /\ OldTag(q.prev.tag)
               /\ q.rev # None => ReadAt(q.file, q.prev.tag, q.rev)
      BY DEF Past, Remembered
    <3> QED
      BY <2>6, <2>7, <2>10, <3>1 DEF Remembered
  <2>12. Unborn'
    BY <2>3, <2>10 DEF Past, Unborn, Exists
  <2>13. SavesFit
    <3> SUFFICES ASSUME NEW q \in Asks, q.op = "save", ~Needed(q.key), Needed(q.key)'
                 PROVE  FALSE
      BY DEF SavesFit, FitSave
    <3>1. q.key \in Keys
      BY AsksHold DEF IInv
    <3> QED
      BY <1>2, <1>4, <1>6, <1>11, <3>1 DEF Refd
  <2>14. HistoryFits
    BY <2>3, <2>4 DEF HistoryFits, Exists
  <2> QED
    BY <2>8, <2>11, <2>12, <2>13, <2>14 DEF Past
<1> QED
  BY <1>9, <1>10, <1>11 DEF Statement

LEMMA PastRestore ==
  ASSUME IInv, Counts, Past, IInv', NEW e \in Editors, NEW i \in 1..Limit,
         RestoreVersion(e, i)
  PROVE  Past' /\ SavesFit /\ HistoryFits
<1>1. PICK f : f = req[e].file
  OBVIOUS
<1>2. /\ req[e].pc = "open" /\ Live(f) /\ undo < MaxUndo
      /\ i \in DOMAIN versions[f]
      /\ IF req[e].tag = file[f].tag
         THEN /\ Replace(f, versions[f][i].key, FreshTag(versions[f][i].tag))
              /\ undo' = undo + 1
         ELSE UNCHANGED rows
      /\ Goto(e, NoReq) /\ late' = late /\ used' = used
  BY <1>1 DEF RestoreVersion
<1>3. f \in Files /\ Exists(f)
  BY <1>1, <1>2 DEF IInv, ReqsOK, Live
<1>4. Opened' \subseteq Opened /\ Asks' \subseteq Asks /\ Empty'
  BY <1>2, NoReqOK, AsksEnd DEF IInv, Past
<1>5. Mine' \subseteq Mine
  BY <1>2, NoReqOK, LetGo DEF IInv
<1>6. CASE UNCHANGED rows
  BY <1>2, <1>4, <1>5, <1>6, PastKept DEF rows, IInv
<1>7. CASE /\ Replace(f, versions[f][i].key, FreshTag(versions[f][i].tag))
           /\ undo' = undo + 1
  <2>1. PICK v : v = versions[f][i]
    OBVIOUS
  <2>2. v \in Contents
    BY <1>2, <1>3, <2>1 DEF IInv, RowsOK
  <2>3. v.key \in Keys /\ v.tag \in Tags /\ v.tag.of \in Keys
    BY <2>2 DEF Contents, Tags
  <2>4. undo + 1 \in 0..MaxUndo /\ undo \in Nat
    BY <1>2, UndoNat DEF IInv, RowsOK
  <2>5. PICK t \in Tags : t = FreshTag(v.tag)
    BY <2>3, <2>4, TagOK DEF FreshTag
  <2>6. t.of = v.tag.of /\ t.id = undo + 1
    BY <2>5 DEF FreshTag, Tag
  <2>7. Replace(f, v.key, t)
    BY <1>7, <2>1, <2>5
  <2>8. /\ \A g \in Files \ {f} :
              file'[g] = file[g] /\ versions'[g] = versions[g] /\ rev'[g] = rev[g]
        /\ Exists(f)' /\ file'[f].key = v.key /\ file'[f].tag = t
        /\ \E j \in DOMAIN versions'[f] :
              versions'[f][j] = [key |-> file[f].key, tag |-> file[f].tag]
        /\ \A j \in DOMAIN versions'[f] :
              \/ versions'[f][j].tag = file[f].tag
              \/ \E h \in DOMAIN versions[f] : versions'[f][j].tag = versions[f][h].tag
    BY <1>3, <2>3, <2>7, ReplacedMore DEF IInv
  <2>9. OldTag(v.tag)
    BY <1>2, <1>3, <2>1 DEF Past, TagsOld
  <2>10. ~OldTag(t)
    BY <2>4, <2>6 DEF OldTag
  <2>11. OldTag(t)'
    BY <1>2, <1>5, <1>7, <2>4, <2>6, <2>9 DEF OldTag
  <2>12. Past'
    BY <1>2, <1>3, <1>4, <1>5, <1>7, <2>4, <2>8, <2>10, <2>11, PastReplaced DEF IInv
  <2>13. SavesFit
    <3> SUFFICES ASSUME NEW q \in Asks, ~Needed(q.key), Needed(q.key)'
                 PROVE  FALSE
      BY DEF SavesFit, FitSave
    <3>1. q.key \in Keys
      BY AsksHold DEF IInv
    <3>2. Refd' \subseteq Refd \cup {v.key}
      BY <1>3, <2>3, <2>7, Replaced DEF IInv, RowsOK
    <3>3. v.key \in Refd
      BY <1>2, <1>3, <2>1, <2>3 DEF Refd, Needed, Kept
    <3> QED
      BY <3>1, <3>2, <3>3 DEF Refd
  <2>14. HistoryFits
    BY <2>8 DEF HistoryFits
  <2> QED
    BY <2>12, <2>13, <2>14
<1> QED
  BY <1>2, <1>6, <1>7

\* A step on the rows that gives nothing a new tag, except where nothing was.
LEMMA PastRows ==
  ASSUME IInv, Past, NEW S \in SUBSET Files,
         \A g \in S : g \notin used,
         \A g \in Files \ S : Exists(g)' => Exists(g) /\ file'[g].tag = file[g].tag,
         \A g \in S : ~Exists(g)' \/ /\ g \in used'
                                     /\ \E u : file'[g].tag = u /\ OldTag(u),
         \A g \in Files : versions'[g] = versions[g] \/ versions'[g] = <<>>,
         Refd' \subseteq Refd, UNCHANGED <<rev, undo, req, late>>, used \subseteq used'
  PROVE  Past' /\ SavesFit /\ HistoryFits
<1>1. Opened' = Opened /\ Asks' = Asks /\ Empty' /\ Mine' = Mine
  BY MineSame DEF Opened, Asks, Waiting, Empty, Past
<1>2. \A u : OldTag(u) => OldTag(u)'
  BY <1>1, TagsStayOld DEF IInv, RowsOK
<1>3. \A g, u, n : g \in Files /\ ReadAt(g, u, n) => ReadAt(g, u, n)'
  BY <1>2 DEF ReadAt
<1>4. TagsOld'
  <2>1. ASSUME NEW g \in Files
        PROVE  /\ Exists(g)' => g \in used' /\ \E u : file'[g].tag = u /\ OldTag(u)'
               /\ \A i \in DOMAIN versions'[g] :
                    \E u : versions'[g][i].tag = u /\ OldTag(u)'
    <3>1. /\ Exists(g) => g \in used /\ OldTag(file[g].tag)
          /\ \A i \in DOMAIN versions[g] : OldTag(versions[g][i].tag)
      BY DEF Past, TagsOld
    <3>2. \A i \in DOMAIN versions'[g] : \E u : versions'[g][i].tag = u /\ OldTag(u)
      <4>1. CASE versions'[g] = versions[g]
        BY <3>1, <4>1
      <4>2. CASE versions'[g] = <<>>
        BY <4>2
      <4> QED
        BY <4>1, <4>2
    <3>3. Exists(g)' => g \in used' /\ \E u : file'[g].tag = u /\ OldTag(u)
      <4>1. CASE g \in S
        BY <4>1
      <4>2. CASE g \notin S
        BY <3>1, <4>2
      <4> QED
        BY <4>1, <4>2
    <3> QED
      BY <1>2, <3>2, <3>3
  <2> QED
    BY <2>1 DEF TagsOld
<1>5. /\ \A o \in Opened : o.file \in Files /\ o.file \in used
      /\ \A q \in Asks : q.file \in Files /\ q.file \in used
  <2>1. /\ \A o \in Opened : o.file \in Files
        /\ \A q \in Asks : q.file \in Files /\ q.op \in {"save", "create"}
    BY OpenedFiles, AsksHold DEF IInv
  <2> QED
    BY <2>1 DEF Past, Remembered, Unborn, ReadAt
<1>6. Remembered'
  BY <1>1, <1>2, <1>3, <1>5 DEF Past, Remembered
<1>7. Unborn'
  BY <1>1, <1>5 DEF Past, Unborn
<1>8. SavesFit
  <2>1. \A q \in Asks : q.key \in Keys
    BY AsksHold DEF IInv
  <2> QED
    BY <2>1 DEF SavesFit, FitSave, Refd
<1>9. HistoryFits
  <2>1. \A g \in S : ~Exists(g)
    BY DEF Past, TagsOld
  <2> QED
    BY <2>1 DEF HistoryFits
<1> QED
  BY <1>1, <1>4, <1>6, <1>7, <1>8, <1>9 DEF Past

\* Copies, trash and purges refer to nothing that was not needed before.
LEMMA FileStepRefd ==
  ASSUME IInv, FileStep
  PROVE  Refd' \subseteq Refd
<1> SUFFICES ASSUME NEW x \in Keys, Needed(x)'
             PROVE  Needed(x)
  BY DEF Refd
<1>1. PICK h \in Files : Exists(h)' /\ (file'[h].key = x \/ x \in Kept(h)')
  BY DEF Needed
<1>2. ASSUME NEW f \in Files, Exists(f)', file'[f] = file[f], Kept(f)' = Kept(f), h = f
      PROVE  Needed(x)
  BY <1>1, <1>2 DEF Needed, Exists
<1>3. ASSUME NEW f \in Files, Trash(f)
      PROVE  Needed(x)
  <2>1. /\ Exists(f) /\ file' = [file EXCEPT ![f].trashed = ~@] /\ versions' = versions
    BY <1>3 DEF Trash
  <2>2. file'[h].key = file[h].key /\ (Exists(h)' => Exists(h))
    <3>1. file[f] \in Rows
      BY <2>1 DEF IInv, RowsOK, Exists
    <3>2. file'[f].key = file[f].key /\ \A g \in Files \ {f} : file'[g] = file[g]
      BY <2>1, <3>1 DEF IInv, RowsOK, Rows
    <3> QED
      BY <2>1, <3>2 DEF Exists
  <2> QED
    BY <1>1, <2>1, <2>2 DEF Needed, Kept
<1>4. ASSUME NEW f \in Files, Purge(f)
      PROVE  Needed(x)
  <2>1. file' = [file EXCEPT ![f] = None] /\ versions' = [versions EXCEPT ![f] = <<>>]
    BY <1>4 DEF Purge
  <2>2. h # f
    BY <1>1, <2>1 DEF IInv, RowsOK, Exists
  <2>3. file'[h] = file[h] /\ versions'[h] = versions[h]
    BY <2>1, <2>2 DEF IInv, RowsOK
  <2> QED
    BY <1>1, <2>3 DEF Needed, Exists, Kept
<1>5. ASSUME NEW f \in Files, NEW g \in Files, CopyDocument(f, g)
      PROVE  Needed(x)
  <2>1. Exists(f) /\ file' = [file EXCEPT ![g] = file[f]] /\ versions' = versions
    BY <1>5 DEF CopyDocument, Live
  <2>2. CASE x \in Kept(h)
    BY <2>2 DEF IInv, RowsOK, Kept, Needed
  <2>3. CASE x \notin Kept(h)
    <3>1. file'[h] = file[h] \/ file'[h] = file[f]
      BY <2>1 DEF IInv, RowsOK
    <3> QED
      BY <1>1, <2>1, <2>3, <3>1 DEF Needed, Exists, Kept
  <2> QED
    BY <2>2, <2>3
<1> QED
  BY <1>3, <1>4, <1>5 DEF FileStep

LEMMA PastFile ==
  ASSUME IInv, Past, FileStep
  PROVE  Past' /\ SavesFit /\ HistoryFits
<1>1. Refd' \subseteq Refd /\ UNCHANGED <<rev, undo, req, late>> /\ used \subseteq used'
  BY FileStepRefd DEF FileStep, Trash, Purge, CopyDocument
<1>2. DOMAIN file = Files /\ DOMAIN versions = Files
  BY DEF IInv, RowsOK
<1>3. ASSUME NEW f \in Files, Trash(f)
      PROVE  Past' /\ SavesFit /\ HistoryFits
  <2>1. /\ Exists(f) /\ file' = [file EXCEPT ![f].trashed = ~@] /\ versions' = versions
    BY <1>3 DEF Trash
  <2>2. file[f] \in Rows
    BY <2>1 DEF IInv, RowsOK, Exists
  <2>3. \A g \in Files : Exists(g)' => Exists(g) /\ file'[g].tag = file[g].tag
    <3>1. file'[f].tag = file[f].tag /\ \A g \in Files \ {f} : file'[g] = file[g]
      BY <2>1, <2>2 DEF IInv, RowsOK, Rows
    <3> QED
      BY <2>1, <3>1 DEF Exists
  <2>4. PICK S \in SUBSET Files : S = {}
    OBVIOUS
  <2> QED
    BY <1>1, <2>1, <2>3, <2>4, PastRows
<1>4. ASSUME NEW f \in Files, Purge(f)
      PROVE  Past' /\ SavesFit /\ HistoryFits
  <2>1. file' = [file EXCEPT ![f] = None] /\ versions' = [versions EXCEPT ![f] = <<>>]
    BY <1>4 DEF Purge
  <2>2. \A g \in Files : Exists(g)' => Exists(g) /\ file'[g].tag = file[g].tag
    BY <1>2, <2>1 DEF Exists
  <2>3. \A g \in Files : versions'[g] = versions[g] \/ versions'[g] = <<>>
    BY <1>2, <2>1
  <2>4. PICK S \in SUBSET Files : S = {}
    OBVIOUS
  <2> QED
    BY <1>1, <2>2, <2>3, <2>4, PastRows
<1>5. ASSUME NEW f \in Files, NEW g \in Files, CopyDocument(f, g)
      PROVE  Past' /\ SavesFit /\ HistoryFits
  <2>1. /\ Exists(f) /\ g \notin used /\ used' = used \cup {g}
        /\ file' = [file EXCEPT ![g] = file[f]] /\ versions' = versions
    BY <1>5 DEF CopyDocument, Live
  <2>2. OldTag(file[f].tag)
    BY <2>1 DEF Past, TagsOld
  <2>3. PICK S \in SUBSET Files : S = {g}
    OBVIOUS
  <2>4. file'[g] = file[f] /\ \A h \in Files \ S : file'[h] = file[h]
    BY <1>2, <2>1, <2>3
  <2>5. \A h \in Files \ S : Exists(h)' => Exists(h) /\ file'[h].tag = file[h].tag
    BY <2>4 DEF Exists
  <2>6. \A h \in S : h \notin used /\ h \in used' /\ \E u : file'[h].tag = u /\ OldTag(u)
    BY <2>1, <2>2, <2>3, <2>4
  <2> QED
    BY <1>1, <2>1, <2>5, <2>6, PastRows
<1> QED
  BY <1>3, <1>4, <1>5 DEF FileStep

LEMMA PastEditor ==
  ASSUME IInv, Counts, Past, IInv', NEW e \in Editors, EditorStep(e)
  PROVE  Past' /\ SavesFit /\ HistoryFits
<1>1. ASSUME NEW f \in Files, NEW k \in Keys, NEW blind \in BOOLEAN, SaveLook(e, f, k, blind)
      PROVE  Past' /\ SavesFit /\ HistoryFits
  <2>1. UNCHANGED <<file, versions, rev, undo>> /\ late' = late
    BY <1>1 DEF SaveLook, rows
  <2>2. CASE blind \/ req[e].tag = file[f].tag
    <3>1. PICK r : r = [NoReq EXCEPT !.op = "save", !.file = f, !.prev = file[f],
                                     !.rev = IF blind THEN None ELSE req[e].rev]
      OBVIOUS
    <3>2. Exists(f) /\ file[f] \in Rows /\ req[e].rev \in Nat \cup {None}
      BY <1>1 DEF SaveLook, IInv, RowsOK, ReqsOK, Reqs, Live, Exists
    <3>3. (IF blind THEN None ELSE req[e].rev) \in Nat \cup {None}
      BY <3>2
    <3>4. /\ r \in Reqs /\ r.file = f /\ r.op = "save" /\ r.prev = file[f]
          /\ r.rev = IF blind THEN None ELSE req[e].rev
      BY <3>1, <3>2, <3>3 DEF NoReq, Reqs
    <3>5. WriteBlob(e, r, k) /\ used' = used \cup {k}
      BY <1>1, <2>2, <3>1 DEF SaveLook
    <3>6. f \in used /\ OldTag(file[f].tag)
      BY <3>2 DEF Past, TagsOld
    <3>7. r.rev # None => ReadAt(f, file[f].tag, r.rev)
      <4> SUFFICES ASSUME r.rev # None
                   PROVE  ReadAt(f, file[f].tag, r.rev)
        OBVIOUS
      <4>1. /\ ~blind /\ req[e].pc = "open" /\ req[e].file = f
            /\ req[e].tag = file[f].tag /\ r.rev = req[e].rev
        BY <1>1, <2>2, <3>4 DEF SaveLook
      <4>2. PICK o : o = [file |-> req[e].file, tag |-> req[e].tag, rev |-> req[e].rev]
        OBVIOUS
      <4>3. o \in Opened
        BY <4>1, <4>2 DEF Opened
      <4>4. ReadAt(o.file, o.tag, o.rev)
        BY <4>3 DEF Past, Remembered
      <4> QED
        BY <4>1, <4>2, <4>4
    <3>8. UNCHANGED rows
      BY <1>1 DEF SaveLook
    <3> QED
      BY <2>1, <3>2, <3>4, <3>5, <3>6, <3>7, <3>8, PastTake
  <2>3. CASE ~(blind \/ req[e].tag = file[f].tag)
    <3>1. Goto(e, NoReq) /\ used' = used
      BY <1>1, <2>3 DEF SaveLook
    <3>2. Opened' \subseteq Opened /\ Asks' \subseteq Asks /\ Empty'
      BY <2>1, <3>1, NoReqOK, AsksEnd DEF IInv, Past
    <3>3. Mine' \subseteq Mine
      BY <2>1, <3>1, NoReqOK, LetGo DEF IInv
    <3> QED
      BY <2>1, <3>1, <3>2, <3>3, PastKept DEF IInv
  <2> QED
    BY <2>2, <2>3
<1>2. ASSUME NEW f \in Files, NEW k \in Keys, CreateDocument(e, f, k)
      PROVE  Past' /\ SavesFit /\ HistoryFits
  <2>1. PICK r : r = [NoReq EXCEPT !.op = "create", !.file = f]
    OBVIOUS
  <2>2. r \in Reqs /\ r.file = f /\ r.op = "create"
    BY <2>1 DEF NoReq, Reqs
  <2>3. /\ WriteBlob(e, r, k) /\ used \cup {k} \subseteq used' /\ f \notin used
        /\ f \in used' /\ UNCHANGED <<rows, late>>
    BY <1>2, <2>1 DEF CreateDocument
  <2> QED
    BY <2>2, <2>3, PastTake
<1>3. CASE Commit(e)
  <2>1. PICK accepted \in BOOLEAN :
          /\ req[e].pc = "commit" /\ Statement(req[e], accepted)
          /\ Goto(e, IF accepted THEN NoReq ELSE [req[e] EXCEPT !.pc = "discard"])
          /\ late' = late /\ used' = used
    BY <1>3 DEF Commit
  <2>2. Pending(req[e])
    BY <2>1 DEF IInv, ReqsOK
  <2>3. Ask(req[e]) \in Asks
    BY <2>2, BlobAssumption DEF Pending, Asks, Waiting
  <2>4. /\ Opened' \subseteq Opened /\ Asks' \subseteq Asks /\ Empty' /\ Mine' \subseteq Mine
        /\ accepted => req[e].key \notin Mine'
    <3>1. CASE accepted
      BY <2>1, <3>1, NoReqOK, AsksEnd, LetGo DEF IInv, Past
    <3>2. CASE ~accepted
      BY <2>1, <2>2, <3>2, AsksGoOn, GoOn DEF IInv, Past
    <3> QED
      BY <3>1, <3>2
  <2> QED
    BY <2>1, <2>2, <2>3, <2>4, PastStatement DEF IInv
<1>4. CASE Discard(e)
  <2>1. UNCHANGED <<file, versions, rev, undo, late, used>> /\ Goto(e, NoReq)
    BY <1>4 DEF Discard, rows
  <2>2. /\ Opened' \subseteq Opened /\ Asks' \subseteq Asks /\ Empty' /\ Mine' \subseteq Mine
    BY <2>1, NoReqOK, AsksEnd, LetGo DEF IInv, Past
  <2> QED
    BY <2>1, <2>2, PastKept DEF IInv
<1> QED
  BY <1>1, <1>2, <1>3, <1>4, PastOpen, PastRestore DEF EditorStep

LEMMA PastFault ==
  ASSUME IInv, Counts, Past, IInv', FaultStep
  PROVE  Past' /\ SavesFit /\ HistoryFits
<1>1. ASSUME NEW e \in Editors, Interrupt(e)
      PROVE  Past' /\ SavesFit /\ HistoryFits
  <2>1. /\ req[e].pc \in {"commit", "discard"} /\ Goto(e, NoReq)
        /\ late' = late \/ late' = late \cup {req[e]}
        /\ UNCHANGED <<file, versions, rev, undo, used>>
    BY <1>1 DEF Interrupt, rows
  <2>2. Opened' \subseteq Opened /\ Asks' \subseteq Asks /\ Empty'
    BY <2>1, AsksLeave DEF IInv, Past
  <2>3. Mine' \subseteq Mine
    <3>1. CASE late' = late
      BY <2>1, <3>1, NoReqOK, LetGo DEF IInv
    <3>2. CASE late' = late \cup {req[e]}
      BY <2>1, <3>2, LeaveBehind DEF IInv, ReqsOK
    <3> QED
      BY <2>1, <3>1, <3>2
  <2> QED
    BY <2>1, <2>2, <2>3, PastKept DEF IInv
<1>2. CASE WorkerFails \/ DeleteFails
  <2>1. UNCHANGED <<file, versions, rev, undo, used, req>>
    BY <1>2 DEF WorkerFails, DeleteFails, rows
  <2>2. \A s \in late' \ late : s.op = "remove"
    BY <1>2 DEF WorkerFails, DeleteFails, NoReq
  <2>3. Opened' \subseteq Opened /\ Asks' \subseteq Asks /\ Empty'
    BY <2>1, <2>2, AsksSame DEF Past
  <2>4. Mine' \subseteq Mine
    BY <2>1, <2>2 DEF Mine, Held
  <2> QED
    BY <2>1, <2>3, <2>4, PastKept DEF IInv
<1>3. CASE Crash
  <2>1. /\ req' = [e \in Editors |-> NoReq] /\ late' = {}
        /\ UNCHANGED <<file, versions, rev, undo, used>>
    BY <1>3 DEF Crash, rows
  <2>2. Opened' = {} /\ Asks' = {} /\ Empty'
    BY <2>1, NoReqOK DEF Opened, Asks, Waiting, Empty
  <2>3. Mine' = {}
    BY <2>1, NoReqOK, BlobAssumption DEF Mine, Held
  <2> QED
    BY <2>1, <2>2, <2>3, PastKept DEF IInv
<1>4. ASSUME NEW s \in late, Land(s)
      PROVE  Past' /\ SavesFit /\ HistoryFits
  <2>1. late' = late \ {s} /\ req' = req /\ used' = used
    BY <1>4 DEF Land
  <2>2. Opened' \subseteq Opened /\ Asks' \subseteq Asks /\ Empty'
    BY <2>1, AsksSame DEF Past
  <2>3. Mine' \subseteq Mine /\ (s.op # "remove" => s.key \notin Mine')
    BY <2>1, Landed DEF IInv
  <2>4. CASE UNCHANGED <<file, versions, rev, undo>>
    BY <2>1, <2>2, <2>3, <2>4, PastKept DEF IInv
  <2>5. ASSUME NEW accepted \in BOOLEAN, s.op # "remove", Statement(s, accepted)
        PROVE  Past' /\ SavesFit /\ HistoryFits
    <3>1. Pending(s)
      BY <2>5 DEF IInv, ReqsOK
    <3>2. Ask(s) \in Asks
      BY <2>5, <3>1, BlobAssumption DEF Pending, Asks, Waiting
    <3> QED
      BY <2>1, <2>2, <2>3, <2>5, <3>1, <3>2, PastStatement DEF IInv
  <2> QED
    BY <1>4, <2>4, <2>5 DEF Land
<1> QED
  BY <1>1, <1>2, <1>3, <1>4 DEF FaultStep

LEMMA PastNext ==
  ASSUME IInv, Counts, Past, [Next]_vars
  PROVE  Past' /\ SavesFit /\ HistoryFits
<1>1. IInv'
  BY IInvNext
<1>2. CASE WorkerStep \/ Collect \/ Age \/ (\E k \in Keys : CollectOne(k)) \/ UNCHANGED vars
  <2>1. UNCHANGED <<file, versions, rev, undo, used, req, late>>
    BY <1>2 DEF WorkerStep, WorkerLoad, WorkerRefs, WorkerNext, WorkerDelete, WorkerRemove,
                Collect, Age, CollectOne, rows, vars
  <2>2. Opened' \subseteq Opened /\ Asks' \subseteq Asks /\ Empty' /\ Mine' = Mine
    BY <2>1, AsksSame, MineSame DEF Past
  <2> QED
    BY <2>1, <2>2, PastKept DEF IInv
<1> QED
  BY <1>1, <1>2, PastEditor, PastFile, PastFault DEF Next

LEMMA InitPast == Init => Past
<1> SUFFICES ASSUME Init
             PROVE  Past
  OBVIOUS
<1>1. Opened = {} /\ Asks = {} /\ Empty
  BY NoReqOK DEF Init, Opened, Asks, Waiting, Empty
<1> QED
  BY <1>1 DEF Init, Past, TagsOld, Remembered, Unborn, Exists

\* What requests remember holds throughout.
THEOREM PastInvariant == Spec => [](IInv /\ Counts /\ Past)
<1>1. IInv /\ Counts /\ Past /\ [Next]_vars => Past'
  BY PastNext
<1> QED
  BY <1>1, InitPast, CountsInvariant, PTL DEF Spec

\* A save that names an entity tag replaces the revision its editor had read,
\* also when its statement lands after its request is gone (file_routes.rs
\* 819-839).
THEOREM NoSaveIsStale == Spec => NoStaleSave
<1>1. IInv /\ Counts /\ Past /\ [Next]_vars =>
        [\A r \in {req[e] : e \in Editors} \cup late :
           (r.op = "save" /\ r.rev # None /\ r.key # None /\ ~Needed(r.key) /\ Needed(r.key)')
             => r.rev = rev[r.file]]_vars
  <2> SUFFICES ASSUME IInv, Counts, Past, [Next]_vars,
                      NEW r \in {req[e] : e \in Editors} \cup late,
                      r.op = "save", r.rev # None, r.key # None,
                      ~Needed(r.key), Needed(r.key)'
               PROVE  r.rev = rev[r.file]
    OBVIOUS
  <2>1. PICK q \in Asks : q = Ask(r)
    BY DEF Asks, Waiting
  <2>2. q.op = r.op /\ q.rev = r.rev /\ q.key = r.key /\ q.file = r.file
    BY <2>1 DEF Ask
  <2>3. FitSave(q)
    BY PastNext DEF SavesFit
  <2> QED
    BY <2>2, <2>3 DEF FitSave
<1> QED
  BY <1>1, PastInvariant, PTL DEF Spec, NoStaleSave

\* What a save or a restore replaces becomes a version that survives the pruning
\* of the same transaction (version_routes.rs 40-46).
THEOREM HistoryIsKept == Spec => HistoryKept
<1>1. IInv /\ Counts /\ Past /\ [Next]_vars =>
        [\A f \in Files :
           (Exists(f) /\ Exists(f)' /\ file'[f].tag # file[f].tag)
             => \E i \in DOMAIN versions'[f] :
                  versions'[f][i] = [key |-> file[f].key, tag |-> file[f].tag]]_vars
  BY PastNext DEF HistoryFits
<1> QED
  BY <1>1, PastInvariant, PTL DEF Spec, HistoryKept

-----------------------------------------------------------------------------
(* Every blob is accounted for: generations and the pass that reads them.  *)

Chosen ==
  worker.todo \cup (IF worker.pc \in {"delete", "remove"} THEN {worker.cur} ELSE {})

WorkerTyped ==
  /\ \A c \in Chosen : c[1] \in Keys /\ c[2] \in Nat
  /\ worker.pc = "idle" => worker.todo = {}

\* Nobody but the pass removes rows, so the generation in a row is at least the
\* one that was loaded; as long as it is that very one, a key that was found
\* referenced still is.
WorkerKnows ==
  /\ \A c \in Chosen : queue[c[1]] # None /\ queue[c[1]] >= c[2]
  /\ \A c, d \in Chosen : c[1] = d[1] => c = d
  /\ worker.pc \in {"delete", "remove"} => worker.cur \notin worker.todo
  /\ worker.pc \in {"next", "delete", "remove"} =>
       \A c \in worker.todo : c[1] \in worker.refs /\ queue[c[1]] = c[2] => Needed(c[1])
  /\ worker.pc = "remove" /\ queue[worker.cur[1]] = worker.cur[2]
       => Needed(worker.cur[1]) \/ worker.cur[1] \notin blobs

Cleaned == \A k \in blobs : Needed(k) \/ queue[k] # None \/ k \in Mine \/ k \in left

Clean == WorkerTyped /\ (overrun \/ (WorkerKnows /\ Cleaned))

LEMMA RestEmpty ==
  ASSUME worker' = Rest
  PROVE  WorkerTyped' /\ WorkerKnows'
<1>1. worker'.pc = "idle" /\ worker'.todo = {}
  BY DEF Rest
<1>2. Chosen' = {}
  BY <1>1 DEF Chosen
<1> QED
  BY <1>1, <1>2 DEF WorkerTyped, WorkerKnows

\* A step that removes no row.
LEMMA KnowsKept ==
  ASSUME Apart, Counts, WorkerTyped, WorkerKnows, QueueGrows, worker' = worker,
         blobs' \cap used \subseteq blobs
  PROVE  WorkerTyped' /\ WorkerKnows'
<1>1. Chosen' = Chosen /\ WorkerTyped'
  BY DEF Chosen, WorkerTyped
<1>2. \A c \in Chosen : c[1] \in Keys /\ c[2] \in Nat /\ c[1] \in used
  <2>1. \A c \in Chosen : c[1] \in Touched
    BY DEF Chosen, Touched
  <2> QED
    BY <2>1 DEF Apart, WorkerTyped
<1>3. \A k \in Keys : queue[k] \in Nat \cup {None} /\ queue'[k] \in Nat \cup {None}
  BY DEF Counts, QueueGrows
<1>4. ASSUME NEW c \in Chosen
      PROVE  /\ queue'[c[1]] # None /\ queue'[c[1]] >= c[2]
             /\ queue'[c[1]] = c[2] => /\ queue[c[1]] = c[2]
                                       /\ Needed(c[1]) => Needed(c[1])'
  <2>1. PICK k \in Keys, g \in Nat : k = c[1] /\ g = c[2]
    BY <1>2
  <2>2. queue[k] \in Nat /\ queue[k] >= g
    BY <1>3, <2>1 DEF WorkerKnows
  <2>3. queue'[k] \in Nat /\ queue'[k] >= queue[k]
    BY <1>3, <2>2, LimitNat DEF QueueGrows
  <2>4. Needed(k) /\ ~Needed(k)' => queue'[k] > queue[k]
    BY <2>2, LimitNat DEF QueueGrows
  <2> QED
    BY <2>1, <2>2, <2>3, <2>4, LimitNat
<1>5. worker.todo \subseteq Chosen
      /\ (worker.pc \in {"delete", "remove"} => worker.cur \in Chosen)
  BY DEF Chosen
<1>6. worker.pc \in {"next", "delete", "remove"} =>
        \A c \in worker.todo : c[1] \in worker.refs /\ queue'[c[1]] = c[2] => Needed(c[1])'
  BY <1>4, <1>5 DEF WorkerKnows
<1>7. worker.pc = "remove" /\ queue'[worker.cur[1]] = worker.cur[2]
        => Needed(worker.cur[1])' \/ worker.cur[1] \notin blobs'
  BY <1>2, <1>4, <1>5 DEF WorkerKnows
<1> QED
  BY <1>1, <1>4, <1>6, <1>7 DEF WorkerKnows

\* ... and lets no key go that nobody needs.
LEMMA CleanKept ==
  ASSUME Apart, Counts, Clean, QueueGrows, worker' = worker \/ worker' = Rest,
         overrun => overrun', blobs' \subseteq Keys,
         \A k \in blobs' : k \in blobs \/ (k \in Mine' /\ k \notin used),
         \A k \in blobs' : k \in Mine => k \in Mine' \/ Needed(k)' \/ k \in left',
         left \cap blobs' \subseteq left'
  PROVE  Clean'
<1>1. WorkerTyped' /\ (WorkerKnows => WorkerKnows')
  <2>1. CASE worker' = Rest
    BY <2>1, RestEmpty
  <2>2. CASE worker' = worker
    <3>1. WorkerTyped'
      BY <2>2 DEF Clean, WorkerTyped, Chosen
    <3> QED
      BY <2>2, <3>1, KnowsKept DEF Clean
  <2> QED
    BY <2>1, <2>2
<1>2. Cleaned => Cleaned'
  BY DEF Cleaned, QueueGrows
<1> QED
  BY <1>1, <1>2 DEF Clean

LEMMA RefdStays ==
  ASSUME Counts, file' = file, versions' = versions, queue' = queue
  PROVE  QueueGrows
  BY RefdSame, QueueStays DEF Counts

\* A request that lets go of its key.
LEMMA MineLeft ==
  ASSUME ReqsOK, NEW e \in Editors, Goto(e, NoReq), late \subseteq late'
  PROVE  Mine \ {req[e].key} \subseteq Mine'
<1>1. req' = [req EXCEPT ![e] = NoReq] /\ req \in [Editors -> Reqs]
  BY DEF Goto, ReqsOK
<1>2. \A d \in Editors \ {e} : req'[d] = req[d]
  BY <1>1
<1> QED
  BY <1>2 DEF Mine, Held

\* A request that has no key.
LEMMA MineStays ==
  ASSUME ReqsOK, NEW e \in Editors, req[e].key = None, NEW r, Goto(e, r), late \subseteq late'
  PROVE  Mine \subseteq Mine'
<1>1. req' = [req EXCEPT ![e] = r] /\ req \in [Editors -> Reqs]
  BY DEF Goto, ReqsOK
<1>2. \A d \in Editors \ {e} : req'[d] = req[d]
  BY <1>1
<1> QED
  BY <1>2, BlobAssumption DEF Mine, Held

LEMMA StatementGrows ==
  ASSUME IInv, Counts, Past, NEW r, Pending(r), Ask(r) \in Asks,
         NEW accepted \in BOOLEAN, Statement(r, accepted)
  PROVE  QueueGrows /\ (accepted => Needed(r.key)')
<1>1. r.file \in Files /\ r.key \in Keys /\ Tag(r.key, 0) \in Tags
  BY TagOK, UndoNat DEF Pending
<1>2. CASE ~accepted /\ UNCHANGED rows
  BY <1>2, RefdStays DEF rows
<1>3. CASE accepted /\ Exists(r.file) /\ Replace(r.file, r.key, Tag(r.key, 0))
  <2>1. QueueGrows /\ Exists(r.file)' /\ file'[r.file].key = r.key
    <3>1. PICK t \in Tags : t = Tag(r.key, 0)
      BY <1>1
    <3>2. PICK f \in Files, k \in Keys : f = r.file /\ k = r.key
      BY <1>1
    <3>3. Replace(f, k, t) /\ Exists(f) /\ RowsOK
      BY <1>3, <3>1, <3>2 DEF IInv
    <3>4. QueueGrows /\ Exists(f)' /\ file'[f].key = k
      BY <3>3, ReplacedMore
    <3> QED
      BY <3>2, <3>4
  <2>2. Needed(r.key)'
    BY <1>1, <2>1 DEF Needed
  <2> QED
    BY <2>1, <2>2
<1>4. CASE /\ r.op = "create" /\ accepted /\ UNCHANGED <<versions, queue, rev, undo>>
           /\ file' = [file EXCEPT ![r.file] = [key |-> r.key, tag |-> Tag(r.key, 0),
                                                trashed |-> FALSE]]
  <2>1. PICK row : row = [key |-> r.key, tag |-> Tag(r.key, 0), trashed |-> FALSE]
    OBVIOUS
  <2>2. row \in Rows /\ row.key = r.key
    BY <1>1, <2>1 DEF Rows
  <2>3. file'[r.file] = row /\ \A g \in Files \ {r.file} : file'[g] = file[g]
    BY <1>1, <1>4, <2>1 DEF IInv, RowsOK
  <2>4. row # None
    BY <2>2, BlobAssumption
  <2>5. ~Exists(r.file)
    BY <1>4 DEF Past, Unborn, Ask
  <2>6. Refd \subseteq Refd'
    <3> SUFFICES ASSUME NEW k \in Keys, Needed(k)
                 PROVE  Needed(k)'
      BY DEF Refd
    <3>1. PICK g \in Files : Exists(g) /\ (file[g].key = k \/ k \in Kept(g))
      BY DEF Needed
    <3>2. file'[g] = file[g] /\ versions'[g] = versions[g]
      BY <1>4, <2>3, <2>5, <3>1
    <3> QED
      BY <3>1, <3>2 DEF Needed, Exists, Kept
  <2>7. QueueGrows
    BY <1>4, <2>6, QueueStays DEF Counts
  <2>8. Needed(r.key)'
    BY <1>1, <2>2, <2>3, <2>4 DEF Needed, Exists
  <2> QED
    BY <2>7, <2>8
<1> QED
  BY <1>2, <1>3, <1>4 DEF Statement, Unchanged, Live

LEMMA CleanEditor ==
  ASSUME IInv, Counts, Past, Clean, IInv', NEW e \in Editors, EditorStep(e)
  PROVE  Clean'
<1>1. /\ blobs' \subseteq Keys /\ Apart /\ ReqsOK
      /\ UNCHANGED <<worker, overrun, left, late>>
  BY DEF IInv, Apart, EditorStep, OpenDocument, CreateDocument, SaveLook, Commit, Discard,
         RestoreVersion, disk, jobs
<1>2. ASSUME NEW f \in Files, OpenDocument(e, f)
      PROVE  Clean'
  <2>1. UNCHANGED <<file, versions, queue, blobs>> /\ req[e].key = None
    BY <1>2 DEF OpenDocument, rows, disk, Past, Empty
  <2>2. Mine \subseteq Mine'
    BY <1>1, <1>2, <2>1, MineStays DEF OpenDocument
  <2> QED
    BY <1>1, <2>1, <2>2, RefdStays, CleanKept
<1>3. ASSUME NEW r, NEW k \in Keys, WriteBlob(e, r, k), UNCHANGED rows, r \in Reqs,
             req[e].key = None
      PROVE  Clean'
  <2>1. PICK q : q = [r EXCEPT !.pc = "commit", !.key = k]
    OBVIOUS
  <2>2. q.key = k /\ Goto(e, q) /\ blobs' = blobs \cup {k} /\ k \notin used
    BY <1>3, <2>1 DEF WriteBlob, Reqs
  <2>3. Mine \subseteq Mine'
    BY <1>1, <1>3, <2>2, MineStays
  <2>4. k \in Mine'
    <3>1. req'[e] = q
      BY <1>1, <2>2 DEF Goto, ReqsOK
    <3> QED
      BY <2>2, <3>1 DEF Mine, Held
  <2> QED
    BY <1>1, <1>3, <2>2, <2>3, <2>4, RefdStays, CleanKept DEF rows
<1>4. ASSUME NEW f \in Files, NEW k \in Keys, CreateDocument(e, f, k)
      PROVE  Clean'
  <2>1. PICK r : r = [NoReq EXCEPT !.op = "create", !.file = f]
    OBVIOUS
  <2>2. r \in Reqs
    BY <2>1 DEF NoReq, Reqs
  <2>3. WriteBlob(e, r, k) /\ UNCHANGED rows /\ req[e].key = None
    BY <1>4, <2>1 DEF CreateDocument, Past, Empty
  <2> QED
    BY <1>3, <2>2, <2>3
<1>5. ASSUME NEW f \in Files, NEW k \in Keys, NEW blind \in BOOLEAN, SaveLook(e, f, k, blind)
      PROVE  Clean'
  <2>1. UNCHANGED rows /\ req[e].key = None
    BY <1>5 DEF SaveLook, Past, Empty
  <2>2. CASE blind \/ req[e].tag = file[f].tag
    <3>1. PICK r : r = [NoReq EXCEPT !.op = "save", !.file = f, !.prev = file[f],
                                     !.rev = IF blind THEN None ELSE req[e].rev]
      OBVIOUS
    <3>2. Exists(f) /\ file[f] \in Rows /\ req[e].rev \in Nat \cup {None}
      BY <1>5 DEF SaveLook, IInv, RowsOK, ReqsOK, Reqs, Live, Exists
    <3>3. (IF blind THEN None ELSE req[e].rev) \in Nat \cup {None}
      BY <3>2
    <3>4. r \in Reqs
      BY <3>1, <3>2, <3>3 DEF NoReq, Reqs
    <3>5. WriteBlob(e, r, k)
      BY <1>5, <2>2, <3>1 DEF SaveLook
    <3> QED
      BY <1>3, <2>1, <3>4, <3>5
  <2>3. CASE ~(blind \/ req[e].tag = file[f].tag)
    <3>1. Goto(e, NoReq) /\ blobs' = blobs
      BY <1>5, <2>3 DEF SaveLook
    <3>2. Mine \subseteq Mine'
      BY <1>1, <2>1, <3>1, MineStays
    <3> QED
      BY <1>1, <2>1, <3>1, <3>2, RefdStays, CleanKept DEF rows
  <2> QED
    BY <2>2, <2>3
<1>6. CASE Commit(e)
  <2>1. PICK r : r = req[e]
    OBVIOUS
  <2>2. PICK accepted \in BOOLEAN :
          /\ req[e].pc = "commit" /\ Statement(r, accepted)
          /\ Goto(e, IF accepted THEN NoReq ELSE [req[e] EXCEPT !.pc = "discard"])
          /\ blobs' = blobs
    BY <1>6, <2>1 DEF Commit, disk
  <2>3. Pending(r)
    BY <2>1, <2>2 DEF IInv, ReqsOK
  <2>4. Ask(r) \in Asks
    BY <2>1, <2>3, BlobAssumption DEF Pending, Asks, Waiting
  <2>5. QueueGrows /\ (accepted => Needed(r.key)')
    BY <2>2, <2>3, <2>4, StatementGrows
  <2>6. ASSUME NEW k \in Mine
        PROVE  k \in Mine' \/ Needed(k)'
    <3>1. CASE accepted
      <4>1. k \in Mine' \/ k = r.key
        BY <1>1, <2>1, <2>2, <3>1, MineLeft
      <4>2. k = r.key => Needed(k)'
        BY <2>5, <3>1
      <4> QED
        BY <4>1, <4>2
    <3>2. CASE ~accepted
      BY <1>1, <2>1, <2>2, <2>3, <3>2, GoOn DEF IInv
    <3> QED
      BY <3>1, <3>2
  <2> QED
    BY <1>1, <2>2, <2>5, <2>6, CleanKept
<1>7. CASE Discard(e)
  <2>1. /\ UNCHANGED <<file, versions, queue>> /\ Goto(e, NoReq)
        /\ blobs' = blobs \ {req[e].key}
    BY <1>7 DEF Discard, rows
  <2>2. Mine \ {req[e].key} \subseteq Mine'
    BY <1>1, <2>1, MineLeft
  <2> QED
    BY <1>1, <2>1, <2>2, RefdStays, CleanKept
<1>8. ASSUME NEW i \in 1..Limit, RestoreVersion(e, i)
      PROVE  Clean'
  <2>1. PICK f : f = req[e].file
    OBVIOUS
  <2>2. /\ req[e].pc = "open" /\ Live(f) /\ undo < MaxUndo
        /\ i \in DOMAIN versions[f]
        /\ IF req[e].tag = file[f].tag
           THEN Replace(f, versions[f][i].key, FreshTag(versions[f][i].tag))
           ELSE UNCHANGED rows
        /\ Goto(e, NoReq) /\ blobs' = blobs
    BY <1>8, <2>1 DEF RestoreVersion, disk
  <2>3. f \in Files /\ Exists(f) /\ req[e].key = None
    BY <2>1, <2>2 DEF IInv, ReqsOK, Live, Past, Empty
  <2>4. Mine \subseteq Mine'
    BY <1>1, <2>2, <2>3, MineStays
  <2>5. QueueGrows
    <3>1. CASE UNCHANGED rows
      BY <3>1, RefdStays DEF rows
    <3>2. CASE Replace(f, versions[f][i].key, FreshTag(versions[f][i].tag))
      <4>1. versions[f][i] \in Contents
        BY <2>2, <2>3 DEF IInv, RowsOK
      <4>2. versions[f][i].key \in Keys /\ versions[f][i].tag.of \in Keys
        BY <4>1 DEF Contents, Tags
      <4>3. undo + 1 \in 0..MaxUndo
        BY <2>2, UndoNat DEF IInv, RowsOK
      <4>4. FreshTag(versions[f][i].tag) \in Tags
        BY <4>2, <4>3, TagOK DEF FreshTag
      <4> QED
        BY <2>3, <3>2, <4>2, <4>4, ReplacedMore DEF IInv
    <3> QED
      BY <2>2, <3>1, <3>2
  <2> QED
    BY <1>1, <2>2, <2>4, <2>5, CleanKept
<1> QED
  BY <1>2, <1>4, <1>5, <1>6, <1>7, <1>8 DEF EditorStep

LEMMA CleanFile ==
  ASSUME IInv, Counts, Past, Clean, IInv', FileStep
  PROVE  Clean'
<1>1. /\ UNCHANGED <<worker, overrun, left, blobs>> /\ Mine' = Mine
      /\ Apart /\ blobs' \subseteq Keys
  <2>1. UNCHANGED <<worker, overrun, left, blobs, req, late>>
    BY DEF FileStep, Trash, Purge, CopyDocument, disk, jobs
  <2> QED
    BY <2>1, MineSame DEF IInv, Apart
<1>2. ASSUME QueueGrows
      PROVE  Clean'
  BY <1>1, <1>2, CleanKept
<1>3. ASSUME NEW f \in Files, Purge(f)
      PROVE  QueueGrows
  BY <1>3, PurgedMore DEF IInv
<1>4. ASSUME NEW f \in Files, Trash(f)
      PROVE  QueueGrows
  <2>1. /\ Exists(f) /\ file' = [file EXCEPT ![f].trashed = ~@]
        /\ versions' = versions /\ queue' = queue
    BY <1>4 DEF Trash
  <2>2. PICK row : row = [file[f] EXCEPT !.trashed = ~@]
    OBVIOUS
  <2>3. row \in Rows /\ row.key = file[f].key /\ row # None
    <3>1. file[f] \in Rows
      BY <2>1 DEF IInv, RowsOK, Exists
    <3>2. row \in Rows /\ row.key = file[f].key
      BY <2>2, <3>1 DEF Rows
    <3> QED
      BY <3>2, BlobAssumption
  <2>4. file'[f] = row /\ \A g \in Files \ {f} : file'[g] = file[g]
    BY <2>1, <2>2 DEF IInv, RowsOK
  <2>5. \A g \in Files : Exists(g) => Exists(g)' /\ file'[g].key = file[g].key
    BY <2>3, <2>4 DEF Exists
  <2>6. Refd \subseteq Refd'
    BY <2>1, <2>5 DEF Refd, Needed, Kept
  <2> QED
    BY <2>1, <2>6, QueueStays DEF Counts
<1>5. ASSUME NEW f \in Files, NEW g \in Files, CopyDocument(f, g)
      PROVE  QueueGrows
  <2>1. /\ g \notin used /\ file' = [file EXCEPT ![g] = file[f]]
        /\ versions' = versions /\ queue' = queue
    BY <1>5 DEF CopyDocument
  <2>2. ~Exists(g)
    BY <2>1 DEF Past, TagsOld
  <2>3. \A h \in Files : Exists(h) => file'[h] = file[h]
    BY <2>1, <2>2 DEF IInv, RowsOK
  <2>4. Refd \subseteq Refd'
    BY <2>1, <2>3 DEF Refd, Needed, Kept, Exists
  <2> QED
    BY <2>1, <2>4, QueueStays DEF Counts
<1> QED
  BY <1>2, <1>3, <1>4, <1>5 DEF FileStep

LEMMA CleanFault ==
  ASSUME IInv, Counts, Past, Clean, IInv', FaultStep
  PROVE  Clean'
<1>1. Apart /\ ReqsOK /\ Distinct /\ blobs' \subseteq Keys
  BY DEF IInv, Apart
<1>2. ASSUME NEW e \in Editors, Interrupt(e)
      PROVE  Clean'
  <2>1. PICK r : r = req[e]
    OBVIOUS
  <2>2. /\ r.pc \in {"commit", "discard"} /\ Goto(e, NoReq)
        /\ late \subseteq late' /\ left \subseteq left'
        /\ late' = late \cup {r} \/ left' = left \cup ({r.key} \cap blobs)
        /\ UNCHANGED <<file, versions, queue, blobs, worker, overrun>>
    BY <1>2, <2>1 DEF Interrupt, rows, jobs
  <2>3. Mine \ {r.key} \subseteq Mine'
    BY <1>1, <2>1, <2>2, MineLeft
  <2>4. late' = late \cup {r} => (r.key \in Mine => r.key \in Mine')
    BY <1>1, <2>1, <2>2 DEF ReqsOK, Pending, Mine, Held
  <2> QED
    BY <1>1, <2>2, <2>3, <2>4, RefdStays, CleanKept
<1>3. CASE WorkerFails
  <2>1. UNCHANGED <<file, versions, queue, blobs, left, overrun, req>> /\ worker' = Rest
          /\ late \subseteq late'
    BY <1>3 DEF WorkerFails, rows, disk, At
  <2>2. Mine \subseteq Mine'
    BY <2>1 DEF Mine, Held
  <2> QED
    BY <1>1, <2>1, <2>2, RefdStays, CleanKept
<1>4. CASE DeleteFails
  <2>1. /\ UNCHANGED <<file, versions, queue, blobs, left, overrun, req, late>>
        /\ worker.pc = "delete"
        /\ worker' = [worker EXCEPT !.pc = "next", !.cur = None]
    BY <1>4 DEF DeleteFails, rows, disk, At
  <2>2. worker'.pc = "next" /\ worker'.todo = worker.todo /\ worker'.refs = worker.refs
    BY <2>1 DEF IInv, WorkerOK
  <2>3. Chosen' = worker.todo /\ worker.todo \subseteq Chosen
    BY <2>2 DEF Chosen
  <2>4. WorkerTyped'
    BY <2>2, <2>3 DEF Clean, WorkerTyped
  <2>5. WorkerKnows => WorkerKnows'
    <3> SUFFICES ASSUME WorkerKnows
                 PROVE  WorkerKnows'
      OBVIOUS
    <3>1. \A c \in worker.todo : c[1] \in worker.refs /\ queue[c[1]] = c[2] => Needed(c[1])
      BY <2>1 DEF WorkerKnows
    <3>2. \A k : Needed(k)' <=> Needed(k)
      BY <2>1 DEF Needed, Exists, Kept
    <3> QED
      BY <2>1, <2>2, <2>3, <3>1, <3>2 DEF WorkerKnows
  <2>6. Cleaned => Cleaned'
    BY <2>1, MineSame DEF Cleaned, Needed, Exists, Kept
  <2> QED
    BY <2>1, <2>4, <2>5, <2>6 DEF Clean
<1>5. CASE Crash
  <2>1. /\ UNCHANGED <<file, versions, queue, blobs, overrun>> /\ worker' = Rest
        /\ left' = left \cup {k \in blobs : Held(k)}
    BY <1>5 DEF Crash, rows
  <2>2. Mine \cap blobs \subseteq left'
    BY <2>1 DEF Mine
  <2> QED
    BY <1>1, <2>1, <2>2, RefdStays, CleanKept
<1>6. ASSUME NEW s \in late, Land(s)
      PROVE  Clean'
  <2>1. late' = late \ {s} /\ UNCHANGED <<blobs, req, worker>>
    BY <1>6 DEF Land, jobs
  <2>2. CASE overrun'
    <3>1. WorkerTyped'
      BY <2>1 DEF Clean, WorkerTyped, Chosen
    <3> QED
      BY <2>2, <3>1 DEF Clean
  <2>3. ASSUME NEW accepted \in BOOLEAN, s.op # "remove", Statement(s, accepted),
               left' = IF accepted THEN left ELSE left \cup {s.key}, overrun' = overrun
        PROVE  Clean'
    <3>1. Pending(s) /\ Ask(s) \in Asks
      BY <1>1, <2>3, BlobAssumption DEF ReqsOK, Pending, Asks, Waiting
    <3>2. QueueGrows /\ (accepted => Needed(s.key)')
      BY <2>3, <3>1, StatementGrows
    <3>3. Mine \ {s.key} \subseteq Mine'
      BY <2>1 DEF Mine, Held
    <3>4. \A k \in blobs' : k \in Mine => k \in Mine' \/ Needed(k)' \/ k \in left'
      BY <2>3, <3>2, <3>3
    <3>5. left \subseteq left'
      BY <2>3
    <3> QED
      BY <1>1, <2>1, <2>3, <3>2, <3>4, <3>5, CleanKept
  <2> QED
    BY <1>6, <2>2, <2>3 DEF Land
<1> QED
  BY <1>2, <1>3, <1>4, <1>5, <1>6 DEF FaultStep

LEMMA CleanWorker ==
  ASSUME IInv, Counts, Clean, WorkerStep
  PROVE  Clean'
<1>1. /\ UNCHANGED <<file, versions, req, late, overrun>> /\ Mine' = Mine
      /\ \A k : Needed(k)' <=> Needed(k)
  <2>1. UNCHANGED <<file, versions, req, late, overrun>>
    BY DEF WorkerStep, WorkerLoad, WorkerRefs, WorkerNext, WorkerDelete, WorkerRemove, rows
  <2> QED
    BY <2>1, MineSame DEF Needed, Exists, Kept
<1>2. worker = [pc |-> worker.pc, todo |-> worker.todo, refs |-> worker.refs,
                cur |-> worker.cur]
  BY DEF IInv, WorkerOK
<1>3. WorkerTyped /\ worker.todo \subseteq Chosen
        /\ (worker.pc \in {"delete", "remove"} => worker.cur \in Chosen)
  BY DEF Clean, Chosen
<1>4. ASSUME UNCHANGED <<queue, blobs, left>>
      PROVE  Cleaned => Cleaned'
  BY <1>1, <1>4 DEF Cleaned
<1>5. CASE WorkerLoad
  <2>1. /\ worker' = [Rest EXCEPT !.pc = "refs",
                        !.todo = {<<k, queue[k]>> : k \in {x \in Keys : queue[x] # None}}]
        /\ UNCHANGED <<queue, blobs, left>>
    BY <1>5 DEF WorkerLoad, At, rows, disk
  <2>2. /\ worker'.pc = "refs"
        /\ worker'.todo = {<<k, queue[k]>> : k \in {x \in Keys : queue[x] # None}}
    BY <2>1 DEF Rest
  <2>3. Chosen' = {<<k, queue[k]>> : k \in {x \in Keys : queue[x] # None}}
    BY <2>2 DEF Chosen
  <2>4. \A k \in Keys : queue[k] # None => queue[k] \in Nat /\ queue[k] >= queue[k]
    BY DEF Counts
  <2>5. WorkerTyped'
    BY <2>2, <2>3, <2>4 DEF WorkerTyped
  <2>6. WorkerKnows'
    BY <2>1, <2>2, <2>3, <2>4 DEF WorkerKnows
  <2> QED
    BY <1>4, <2>1, <2>5, <2>6, <1>1 DEF Clean
<1>6. CASE WorkerRefs
  <2>1. /\ worker.pc = "refs" /\ UNCHANGED <<queue, blobs, left>>
        /\ worker' = [worker EXCEPT !.pc = "next",
                        !.refs = References(Files) \cap {c[1] : c \in worker.todo}]
    BY <1>6 DEF WorkerRefs, At, rows, disk
  <2>2. /\ worker'.pc = "next" /\ worker'.todo = worker.todo
        /\ worker'.refs = References(Files) \cap {c[1] : c \in worker.todo}
    BY <1>2, <2>1
  <2>3. Chosen' = worker.todo
    BY <2>2 DEF Chosen
  <2>4. WorkerTyped'
    BY <1>3, <2>2, <2>3 DEF WorkerTyped
  <2>5. \A c \in worker.todo : c[1] \in worker'.refs => Needed(c[1])
    <3>1. \A c \in worker.todo : c[1] \in Keys
      BY <1>3 DEF WorkerTyped
    <3> QED
      BY <2>2, <3>1, ReferencesAll DEF Refd
  <2>6. WorkerKnows => WorkerKnows'
    BY <1>1, <1>3, <2>1, <2>2, <2>3, <2>5 DEF WorkerKnows
  <2> QED
    BY <1>1, <1>4, <2>1, <2>4, <2>6 DEF Clean
<1>7. CASE WorkerNext
  <2>1. worker.pc = "next" /\ UNCHANGED <<queue, blobs, left>>
    BY <1>7 DEF WorkerNext, rows, disk
  <2>2. CASE worker' = Rest
    BY <1>1, <1>4, <2>1, <2>2, RestEmpty DEF Clean
  <2>3. ASSUME NEW c \in worker.todo, NEW live,
               live = (c[1] \in worker.refs \/ c[1] \in References(Files)),
               worker' = [worker EXCEPT !.pc = IF live THEN "remove" ELSE "delete",
                                        !.cur = c, !.todo = @ \ {c}]
        PROVE  Clean'
    <3>1. /\ worker'.pc = IF live THEN "remove" ELSE "delete"
          /\ worker'.cur = c /\ worker'.todo = worker.todo \ {c}
          /\ worker'.refs = worker.refs
      BY <1>2, <2>3
    <3>2. Chosen' = worker.todo
      BY <3>1 DEF Chosen
    <3>3. WorkerTyped'
      BY <1>3, <3>1, <3>2 DEF WorkerTyped
    <3>4. c[1] \in Keys /\ (c[1] \in References(Files) => Needed(c[1]))
      <4>1. c[1] \in Keys
        BY <1>3 DEF WorkerTyped
      <4> QED
        BY <4>1, ReferencesAll DEF Refd
    <3>5. WorkerKnows => WorkerKnows'
      <4> SUFFICES ASSUME WorkerKnows
                   PROVE  WorkerKnows'
        OBVIOUS
      <4>1. \A d \in worker.todo : queue[d[1]] # None /\ queue[d[1]] >= d[2]
        BY <1>3 DEF WorkerKnows
      <4>2. \A d, x \in worker.todo : d[1] = x[1] => d = x
        BY <1>3 DEF WorkerKnows
      <4>3. \A d \in worker.todo : d[1] \in worker.refs /\ queue[d[1]] = d[2] => Needed(d[1])
        BY <2>1 DEF WorkerKnows
      <4>4. live => (queue[c[1]] = c[2] => Needed(c[1]))
        BY <2>3, <3>4, <4>3
      <4>5. worker'.cur \notin worker'.todo
        BY <3>1
      <4>6. worker'.pc = "remove" /\ queue[c[1]] = c[2] => Needed(c[1])'
        BY <1>1, <3>1, <4>4
      <4>7. \A d \in worker'.todo :
              d[1] \in worker'.refs /\ queue[d[1]] = d[2] => Needed(d[1])'
        BY <1>1, <3>1, <4>3
      <4> QED
        BY <2>1, <3>1, <3>2, <4>1, <4>2, <4>5, <4>6, <4>7 DEF WorkerKnows
    <3> QED
      BY <1>1, <1>4, <2>1, <3>3, <3>5 DEF Clean
  <2> QED
    BY <1>7, <2>2, <2>3 DEF WorkerNext, At
<1>8. CASE WorkerDelete
  <2>1. PICK k : k = worker.cur[1]
    OBVIOUS
  <2>2. /\ worker.pc = "delete" /\ blobs' = blobs \ {k} /\ left' = left \ {k}
        /\ worker' = [worker EXCEPT !.pc = "remove"] /\ queue' = queue
    BY <1>8, <2>1 DEF WorkerDelete, At, rows
  <2>3. /\ worker'.pc = "remove" /\ worker'.todo = worker.todo /\ worker'.cur = worker.cur
        /\ worker'.refs = worker.refs
    BY <1>2, <2>2
  <2>4. Chosen' = Chosen
    BY <2>2, <2>3 DEF Chosen
  <2>5. WorkerTyped'
    BY <1>3, <2>3, <2>4 DEF WorkerTyped
  <2>6. WorkerKnows => WorkerKnows'
    BY <1>1, <2>1, <2>2, <2>3, <2>4 DEF WorkerKnows
  <2>7. Cleaned => Cleaned'
    BY <1>1, <2>2 DEF Cleaned
  <2> QED
    BY <1>1, <2>5, <2>6, <2>7 DEF Clean
<1>9. CASE WorkerRemove
  <2>1. PICK k \in Keys, g \in Nat : k = worker.cur[1] /\ g = worker.cur[2]
    BY <1>3, <1>9 DEF WorkerRemove, WorkerTyped
  <2>2. /\ worker.pc = "remove" /\ UNCHANGED <<blobs, left>>
        /\ queue' = Removed(k, g)
        /\ worker' = [worker EXCEPT !.pc = "next", !.cur = None]
    BY <1>9, <2>1 DEF WorkerRemove, At, disk
  <2>3. /\ worker'.pc = "next" /\ worker'.todo = worker.todo /\ worker'.refs = worker.refs
    BY <1>2, <2>2
  <2>4. Chosen' = worker.todo
    BY <2>3 DEF Chosen
  <2>5. WorkerTyped'
    BY <1>3, <2>3, <2>4 DEF WorkerTyped
  <2>6. /\ \A x \in Keys \ {k} : queue'[x] = queue[x]
        /\ queue[k] # g => queue'[k] = queue[k]
    BY <2>2 DEF Removed, Counts
  <2>7. WorkerKnows => WorkerKnows'
    <3> SUFFICES ASSUME WorkerKnows
                 PROVE  WorkerKnows'
      OBVIOUS
    <3>1. \A c \in worker.todo : c[1] \in Keys /\ c[1] # k
      <4>1. \A c \in worker.todo : c # worker.cur /\ c \in Chosen /\ worker.cur \in Chosen
        BY <1>3, <2>2 DEF WorkerKnows
      <4> QED
        BY <1>3, <2>1, <4>1 DEF WorkerKnows, WorkerTyped
    <3>2. \A c \in worker.todo : queue'[c[1]] = queue[c[1]]
      BY <2>6, <3>1
    <3> QED
      BY <1>1, <1>3, <2>2, <2>3, <2>4, <3>2 DEF WorkerKnows
  <2>8. WorkerKnows /\ Cleaned => Cleaned'
    <3> SUFFICES ASSUME WorkerKnows, Cleaned, NEW x \in blobs
                 PROVE  Needed(x) \/ queue'[x] # None \/ x \in Mine \/ x \in left
      BY <1>1, <2>2 DEF Cleaned
    <3>1. x \in Keys
      BY DEF IInv, Apart
    <3>2. CASE x # k \/ queue[k] # g
      BY <2>6, <3>1, <3>2 DEF Cleaned
    <3>3. CASE x = k /\ queue[k] = g
      BY <2>1, <2>2, <3>3 DEF WorkerKnows
    <3> QED
      BY <3>2, <3>3
  <2> QED
    BY <1>1, <2>5, <2>7, <2>8 DEF Clean
<1> QED
  BY <1>5, <1>6, <1>7, <1>8, <1>9 DEF WorkerStep

LEMMA CleanNext ==
  ASSUME IInv, Counts, Past, Clean, [Next]_vars
  PROVE  Clean'
<1>1. IInv'
  BY IInvNext
<1>2. ASSUME UNCHANGED <<file, versions, queue, req, late, worker, overrun>>,
             blobs' \subseteq blobs, left \cap blobs' \subseteq left'
      PROVE  Clean'
  <2>1. Mine' = Mine /\ Apart /\ blobs' \subseteq Keys
    BY <1>2, MineSame DEF IInv, Apart
  <2> QED
    BY <1>2, <2>1, RefdStays, CleanKept
<1>3. CASE Collect
  BY <1>2, <1>3 DEF Collect, rows, disk
<1>4. CASE Age
  BY <1>2, <1>4 DEF Age, rows, jobs
<1>5. ASSUME NEW k \in Keys, CollectOne(k)
      PROVE  Clean'
  BY <1>2, <1>5 DEF CollectOne, rows
<1>6. CASE UNCHANGED vars
  BY <1>2, <1>6 DEF vars
<1> QED
  BY <1>1, <1>3, <1>4, <1>5, <1>6, CleanEditor, CleanFile, CleanFault, CleanWorker DEF Next

\* Every blob is accounted for throughout, unless a pass was overrun.
THEOREM CleanInvariant == Spec => [](IInv /\ Counts /\ Past /\ Clean)
<1>1. Init => Clean
  <2> SUFFICES ASSUME Init
               PROVE  Clean
    OBVIOUS
  <2>1. Chosen = {}
    BY DEF Init, Rest, Chosen
  <2> QED
    BY <2>1 DEF Init, Rest, Clean, WorkerTyped, WorkerKnows, Cleaned
<1>2. IInv /\ Counts /\ Past /\ Clean /\ [Next]_vars => Clean'
  BY CleanNext
<1> QED
  BY <1>1, <1>2, PastInvariant, PTL DEF Spec

\* A blob that nothing refers to is queued, in the hands of a request or left to
\* the collector, until a statement of a pass that timed out removes a row
\* (maintenance.rs 954-969).
THEOREM CleanupIsQueued == Spec => []CleanupQueued
<1>1. IInv /\ Clean => CleanupQueued
  BY DEF IInv, Apart, Clean, Cleaned, CleanupQueued, Mine
<1> QED
  BY <1>1, CleanInvariant, PTL
=============================================================================

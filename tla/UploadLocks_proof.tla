-------------------------- MODULE UploadLocks_proof --------------------------
(***************************************************************************)
(* The locks of a session exclude what they should, for any number of      *)
(* requests, parts, slots, lock objects and cancelled requests: permits    *)
(* are accounted for by the guards that requests hold, and the guards of   *)
(* one name are all of one lock object, although objects come and go.  And *)
(* the order in which requests take them lets no circle of waiting arise,  *)
(* but the one that a one-block PUT to /data closes.                       *)
(***************************************************************************)
EXTENDS UploadLocks, FiniteSetTheorems, SequenceTheorems, TLAPS

Shape ==
  /\ kind \in [Requests -> Kinds \cup {None}] /\ part \in [Requests -> Parts]
  /\ granted \in [Requests -> Seq(Locks)] /\ waits \in [Requests -> Locks \cup {None}]
  /\ queue \in [Locks -> Seq(Requests)] /\ free \in [Locks -> Nat]
  /\ entry \in [Names -> Versions] /\ cancels \in 0..MaxCancels

\* A slot that is free holds nothing and waits for nothing.
IdleOK == \A i \in Requests : kind[i] = None => granted[i] = <<>> /\ waits[i] = None

Stands(q, i) == \E k \in DOMAIN q : q[k] = i

\* Who waits for a lock is in its queue.
Queued ==
  \A i \in Requests, lock \in Locks : waits[i] = lock => Stands(queue[lock], i)

\* The lock that is used under a name is the one the map knows.
Current ==
  \A i \in Requests, lock \in Locks : Uses(i, lock) => lock[2] = entry[lock[1]]

\* The guards of a lock, and those that have it for themselves.
Holds(lock) ==
  {h \in Requests \X (Nat \ {0}) :
     h[2] \in DOMAIN granted[h[1]] /\ granted[h[1]][h[2]] = lock}
Writer(i, lock) == lock[1] = "session" /\ kind[i] \in Lifecycle

Shared(lock) ==
  /\ \A h \in Holds(lock) : ~Writer(h[1], lock)
  /\ free[lock] + Cardinality(Holds(lock)) = Permits(lock[1])

Owned(lock) ==
  \E h \in Holds(lock) : Holds(lock) = {h} /\ Writer(h[1], lock) /\ free[lock] = 0

Accounted ==
  \A lock \in Locks : IsFiniteSet(Holds(lock)) /\ (Shared(lock) \/ Owned(lock))

IInv == Shape /\ IdleOK /\ Queued /\ Current /\ Accounted

-----------------------------------------------------------------------------
(* Constants and sequences.                                                *)

LEMMA Constants ==
  ASSUME NEW i \in Requests
  PROVE  /\ MaxReads \in Nat \ {0}
         /\ \A name : Permits(name) \in Nat \ {0}
         /\ \A j, name : Asked(j, name) \in {1, MaxReads}
<1>1. Cardinality(Requests) \in Nat /\ Cardinality(Requests) # 0
  BY LocksAssumption, FS_EmptySet, FS_CardinalityType
<1>2. MaxReads \in Nat \ {0}
  BY <1>1 DEF MaxReads
<1> QED
  BY <1>2, LocksAssumption DEF Permits, Asked

LEMMA PlanTyped ==
  ASSUME NEW i \in Requests, kind[i] \in AllKinds, part[i] \in Parts
  PROVE  Plan(i) \in Seq(Names)
<1>1. {"session", "data", "slots", First, part[i]} \subseteq Names
  BY LocksAssumption DEF Names
<1>2. /\ << "session", "data" >> \in Seq(Names) /\ << "slots" >> \in Seq(Names)
      /\ << "session", part[i] >> \in Seq(Names) /\ << "session", First >> \in Seq(Names)
      /\ << "slots", "session" >> \in Seq(Names) /\ << "session", "slots" >> \in Seq(Names)
      /\ << "session" >> \in Seq(Names)
  BY <1>1
<1>3. /\ << "session", "data" >> \o << "slots" >> \in Seq(Names)
      /\ << "session", part[i] >> \o << "slots" >> \in Seq(Names)
      /\ << "session", "data" >> \o << "session", First >> \in Seq(Names)
  BY <1>2, ConcatProperties
<1>4. (<< "session", "data" >> \o << "session", First >>) \o << "slots" >> \in Seq(Names)
  BY <1>2, <1>3, ConcatProperties
<1>5. << "session", "data" >> \o (<< "session", First >> \o << "slots" >>) \in Seq(Names)
  BY <1>2, ConcatProperties
<1>6. CASE kind[i] = "data"
  BY <1>3, <1>6 DEF Plan, LockPart
<1>7. CASE kind[i] = "part"
  BY <1>3, <1>7 DEF Plan, LockPart
<1>8. CASE kind[i] = "one_block"
  BY <1>4, <1>5, <1>8 DEF Plan, LockPart
<1>9. CASE kind[i] = "finish"
  BY <1>2, <1>9 DEF Plan
<1>10. CASE kind[i] = "abort"
  BY <1>2, <1>10 DEF Plan
<1> QED
  BY <1>6, <1>7, <1>8, <1>9, <1>10 DEF AllKinds

LEMMA WithoutKeeps ==
  ASSUME NEW q \in Seq(Requests), NEW i
  PROVE  /\ Without(q, i) \in Seq(Requests)
         /\ \A j : j # i /\ Stands(q, j) => Stands(Without(q, i), j)
<1>1. CASE ~\E k \in DOMAIN q : q[k] = i
  BY <1>1 DEF Without
<1>2. CASE \E k \in DOMAIN q : q[k] = i
  <2>1. PICK m : m = CHOOSE k \in DOMAIN q : q[k] = i
    OBVIOUS
  <2>2. m \in 1..Len(q) /\ q[m] = i /\ Len(q) \in Nat
    BY <1>2, <2>1, LenProperties
  <2>3. PICK a : a = SubSeq(q, 1, m - 1)
    OBVIOUS
  <2>4. PICK b : b = SubSeq(q, m + 1, Len(q))
    OBVIOUS
  <2>5. PICK r : r = Without(q, i)
    OBVIOUS
  <2>6. r = a \o b
    BY <1>2, <2>1, <2>3, <2>4, <2>5 DEF Without
  <2>7. \A k \in 1..Len(q) : q[k] \in Requests
    BY LenProperties
  <2>8. a \in Seq(Requests) /\ Len(a) = m - 1 /\ \A k \in 1..(m - 1) : a[k] = q[k]
    BY <2>2, <2>3, <2>7, SubSeqProperties
  <2>9. /\ b \in Seq(Requests) /\ Len(b) = Len(q) - m
        /\ \A k \in 1..(Len(q) - m) : b[k] = q[m + k]
    BY <2>2, <2>4, <2>7, SubSeqProperties
  <2>10. /\ r \in Seq(Requests) /\ Len(r) = Len(q) - 1
         /\ \A k \in 1..(Len(q) - 1) : r[k] = IF k <= m - 1 THEN q[k] ELSE q[k + 1]
    <3>1. /\ a \o b \in Seq(Requests) /\ Len(a \o b) = Len(a) + Len(b)
          /\ \A k \in 1..(Len(a) + Len(b)) :
               (a \o b)[k] = IF k <= Len(a) THEN a[k] ELSE b[k - Len(a)]
      BY <2>8, <2>9, ConcatProperties
    <3>2. Len(a) = m - 1 /\ Len(b) = Len(q) - m /\ Len(a) + Len(b) = Len(q) - 1
      BY <2>2, <2>8, <2>9
    <3>3. /\ r \in Seq(Requests) /\ Len(r) = Len(q) - 1
          /\ \A k \in 1..(Len(q) - 1) :
               r[k] = IF k <= m - 1 THEN a[k] ELSE b[k - (m - 1)]
      BY <2>6, <3>1, <3>2
    <3>4. ASSUME NEW k \in 1..(Len(q) - 1)
          PROVE  r[k] = IF k <= m - 1 THEN q[k] ELSE q[k + 1]
      <4>1. CASE k <= m - 1
        BY <2>2, <2>8, <3>3, <4>1
      <4>2. CASE k > m - 1
        <5>1. k - (m - 1) \in 1..(Len(q) - m) /\ m + (k - (m - 1)) = k + 1
          BY <2>2, <4>2
        <5>2. b[k - (m - 1)] = q[m + (k - (m - 1))]
          BY <2>9, <5>1
        <5> QED  BY <2>2, <3>3, <4>2, <5>1, <5>2
      <4> QED  BY <2>2, <4>1, <4>2
    <3> QED  BY <3>3, <3>4
  <2>11. ASSUME NEW j, j # i, NEW k \in 1..Len(q), q[k] = j
         PROVE  \E n \in 1..Len(r) : r[n] = j
    <3>1. CASE k < m
      BY <2>2, <2>10, <2>11, <3>1
    <3>2. CASE k > m
      <4>1. k - 1 \in 1..(Len(q) - 1) /\ r[k - 1] = q[k]
        BY <2>2, <2>10, <3>2
      <4> QED  BY <2>2, <2>10, <2>11, <4>1
    <3> QED  BY <2>2, <2>11, <3>1, <3>2
  <2>12. DOMAIN q = 1..Len(q) /\ DOMAIN r = 1..Len(r)
    BY <2>10, LenProperties
  <2>13. ASSUME NEW j, j # i, Stands(q, j)  PROVE Stands(r, j)
    BY <2>11, <2>12, <2>13 DEF Stands
  <2> QED  BY <2>5, <2>10, <2>13
<1> QED
  BY <1>1, <1>2

-----------------------------------------------------------------------------
(* Nobody's guards change.                                                 *)

LEMMA AccountedStays ==
  ASSUME Accounted, UNCHANGED <<granted, free>>,
         \A i, k : k \in DOMAIN granted[i] => kind'[i] = kind[i]
  PROVE  Accounted'
<1>1. ASSUME NEW lock \in Locks
      PROVE  IsFiniteSet(Holds(lock))' /\ (Shared(lock) \/ Owned(lock))'
  <2>1. Holds(lock)' = Holds(lock) /\ free'[lock] = free[lock]
    BY DEF Holds
  <2>2. \A h \in Holds(lock) : kind'[h[1]] = kind[h[1]]
    BY DEF Holds
  <2>3. \A h \in Holds(lock) : Writer(h[1], lock)' <=> Writer(h[1], lock)
    BY <2>2 DEF Writer
  <2>4. IsFiniteSet(Holds(lock)) /\ (Shared(lock) \/ Owned(lock))
    BY DEF Accounted
  <2>5. CASE Shared(lock)
    BY <2>1, <2>3, <2>4, <2>5 DEF Shared
  <2>6. CASE Owned(lock)
    BY <2>1, <2>3, <2>4, <2>6 DEF Owned
  <2> QED  BY <2>4, <2>5, <2>6
<1> QED
  BY <1>1 DEF Accounted

LEMMA BeginKeeps ==
  ASSUME IInv, NEW i \in Requests, NEW k \in Kinds, NEW p \in Parts, Begin(i, k, p)
  PROVE  IInv'
<1>1. Shape'
  BY DEF IInv, Shape, Begin
<1>2. granted[i] = <<>> /\ waits[i] = None
  BY DEF IInv, IdleOK, Begin
<1>3. IdleOK'
  BY <1>2 DEF IInv, IdleOK, Begin, Shape
<1>4. Queued'
  BY DEF IInv, Queued, Begin
<1>5. Current'
  BY DEF IInv, Current, Uses, Begin
<1>6. Accounted'
  <2>1. \A j, n : n \in DOMAIN granted[j] => kind'[j] = kind[j]
    BY <1>2 DEF IInv, Begin, Shape
  <2> QED  BY <2>1, AccountedStays DEF IInv, Begin
<1> QED
  BY <1>1, <1>3, <1>4, <1>5, <1>6 DEF IInv

LEMMA AskKeeps ==
  ASSUME IInv, NEW i \in Requests, Ask(i)
  PROVE  IInv'
<1>1. PICK name : name = Step(i)
  OBVIOUS
<1>2. PICK v : v = IF name = "slots" THEN entry[name] ELSE LookUp(name)
  OBVIOUS
<1>3. PICK l : l = <<name, v>>
  OBVIOUS
<1>4. /\ entry' = [entry EXCEPT ![name] = v]
      /\ waits' = [waits EXCEPT ![i] = l]
      /\ queue' = [queue EXCEPT ![l] = Append(@, i)]
      /\ UNCHANGED <<kind, part, granted, free, cancels>>
      /\ kind[i] # None /\ waits[i] = None /\ Len(granted[i]) < Len(Plan(i))
  BY <1>1, <1>2, <1>3 DEF Ask, Running
<1>5. name \in Names
  <2>1. kind[i] \in AllKinds /\ part[i] \in Parts
    BY <1>4, LocksAssumption DEF IInv, Shape
  <2>2. Plan(i) \in Seq(Names) /\ granted[i] \in Seq(Locks)
    BY <2>1, PlanTyped DEF IInv, Shape
  <2>3. Len(granted[i]) + 1 \in 1..Len(Plan(i))
    BY <1>4, <2>2, LenProperties
  <2> QED  BY <1>1, <2>2, <2>3, ElementOfSeq DEF Step
\* Either the entry is used and kept, or no lock of that name is in use.
<1>6. /\ v \in Versions
      /\ \/ v = entry[name]
         \/ \A j \in Requests, lock \in Locks : Uses(j, lock) => lock[1] # name
  <2>1. entry[name] \in Versions
    BY <1>5 DEF IInv, Shape
  <2>2. CASE v = entry[name]
    BY <2>1, <2>2
  <2>3. CASE ~InUse(<<name, entry[name]>>) /\ v = NewLock(name)
    <3>1. ASSUME NEW j \in Requests, NEW lock \in Locks, Uses(j, lock), lock[1] = name
          PROVE  FALSE
      <4>1. lock = <<name, entry[name]>>
        BY <3>1 DEF IInv, Current, Locks
      <4> QED  BY <2>3, <3>1, <4>1 DEF InUse
    <3>2. \A w \in Versions : ~InUse(<<name, w>>)
      <4> SUFFICES ASSUME NEW w \in Versions, NEW j \in Requests, Uses(j, <<name, w>>)
                   PROVE  FALSE
        BY DEF InUse
      <4>1. <<name, w>> \in Locks
        BY <1>5 DEF Locks
      <4> QED  BY <3>1, <4>1
    <3>3. v \in Versions
      BY <2>3, <3>2, LocksAssumption DEF NewLock
    <3> QED  BY <3>1, <3>3
  <2> QED  BY <1>2, <2>2, <2>3 DEF LookUp
<1>7. l \in Locks /\ l[1] = name /\ l[2] = v
  BY <1>3, <1>5, <1>6 DEF Locks
<1>8. PICK q : q = Append(queue[l], i)
  OBVIOUS
<1>9. queue' = [queue EXCEPT ![l] = q] /\ queue[l] \in Seq(Requests)
  BY <1>4, <1>7, <1>8 DEF IInv, Shape
<1>10. /\ q \in Seq(Requests) /\ Len(q) = Len(queue[l]) + 1 /\ q[Len(q)] = i
       /\ \A k \in 1..Len(queue[l]) : q[k] = queue[l][k]
  BY <1>8, <1>9, AppendProperties
<1>11. Shape'
  BY <1>4, <1>5, <1>6, <1>7, <1>9, <1>10 DEF IInv, Shape
<1>12. IdleOK'
  BY <1>4 DEF IInv, IdleOK, Shape
<1>13. Queued'
  <2>1. DOMAIN q = 1..Len(q) /\ DOMAIN queue[l] = 1..Len(queue[l]) /\ Len(queue[l]) \in Nat
    BY <1>9, <1>10, LenProperties
  <2>2. ASSUME NEW j \in Requests, NEW lock \in Locks, waits'[j] = lock
        PROVE  \E k \in DOMAIN queue'[lock] : queue'[lock][k] = j
    <3>1. CASE j = i
      <4>1. lock = l
        BY <1>4, <2>2, <3>1 DEF IInv, Shape
      <4>2. Len(q) \in DOMAIN q
        BY <1>10, <2>1
      <4> QED  BY <1>7, <1>9, <1>10, <3>1, <4>1, <4>2 DEF IInv, Shape
    <3>2. CASE j # i
      <4>1. waits[j] = lock
        BY <1>4, <2>2, <3>2 DEF IInv, Shape
      <4>2. PICK k \in DOMAIN queue[lock] : queue[lock][k] = j
        BY <4>1 DEF IInv, Queued, Stands
      <4>3. CASE lock = l
        <5>1. k \in DOMAIN q /\ q[k] = j
          BY <1>10, <2>1, <4>2, <4>3
        <5> QED  BY <1>7, <1>9, <4>3, <5>1 DEF IInv, Shape
      <4>4. CASE lock # l
        BY <1>9, <4>2, <4>4 DEF IInv, Shape
      <4> QED  BY <4>3, <4>4
    <3> QED  BY <3>1, <3>2
  <2> QED  BY <2>2 DEF Queued, Stands
<1>14. Current'
  <2>1. ASSUME NEW j \in Requests, NEW lock \in Locks, Uses(j, lock)'
        PROVE  lock[2] = entry'[lock[1]]
    <3>1. CASE lock = l
      BY <1>4, <1>5, <1>7, <3>1 DEF IInv, Shape
    <3>2. CASE lock # l
      <4>1. Uses(j, lock)
        BY <1>4, <2>1, <3>2 DEF Uses, IInv, Shape
      <4>2. lock[2] = entry[lock[1]] /\ lock[1] \in Names
        BY <4>1 DEF IInv, Current, Locks
      <4>3. lock[1] = name => v = entry[name]
        BY <1>6, <4>1
      <4> QED  BY <1>4, <1>5, <4>2, <4>3 DEF IInv, Shape
    <3> QED  BY <3>1, <3>2
  <2> QED  BY <2>1 DEF Current
<1>15. Accounted'
  BY <1>4, AccountedStays DEF IInv
<1> QED
  BY <1>11, <1>12, <1>13, <1>14, <1>15 DEF IInv

-----------------------------------------------------------------------------
(* A lock is granted.                                                      *)

LEMMA GrantKeeps ==
  ASSUME IInv, NEW i \in Requests, Grant(i)
  PROVE  IInv'
<1>1. PICK l : l = waits[i]
  OBVIOUS
<1>2. PICK n : n = Asked(i, l[1])
  OBVIOUS
<1>3. /\ l \in Locks /\ Head(queue[l]) = i /\ free[l] >= n
      /\ free' = [free EXCEPT ![l] = @ - n]
      /\ queue' = [queue EXCEPT ![l] = Tail(@)]
      /\ granted' = [granted EXCEPT ![i] = Append(@, l)]
      /\ waits' = [waits EXCEPT ![i] = None]
      /\ UNCHANGED <<kind, part, entry, cancels>>
  BY <1>1, <1>2 DEF Grant, IInv, Shape
<1>4. n \in {1, MaxReads} /\ MaxReads \in Nat \ {0} /\ free[l] \in Nat
  BY <1>2, <1>3, Constants DEF IInv, Shape
<1>5. queue[l] \in Seq(Requests) /\ queue[l] # <<>>
  <2>1. \E k \in DOMAIN queue[l] : queue[l][k] = i
    BY <1>1, <1>3 DEF IInv, Queued, Stands
  <2>2. queue[l] \in Seq(Requests)
    BY <1>3 DEF IInv, Shape
  <2> QED  BY <2>1, <2>2
<1>6. PICK q : q = Tail(queue[l])
  OBVIOUS
<1>7. /\ q \in Seq(Requests) /\ Len(q) = Len(queue[l]) - 1
      /\ \A k \in 1..Len(q) : q[k] = queue[l][k + 1]
  BY <1>5, <1>6, HeadTailProperties
<1>8. PICK g : g = Append(granted[i], l)
  OBVIOUS
<1>9. granted[i] \in Seq(Locks)
  BY DEF IInv, Shape
<1>10. /\ g \in Seq(Locks) /\ Len(g) = Len(granted[i]) + 1 /\ g[Len(g)] = l
       /\ \A k \in 1..Len(granted[i]) : g[k] = granted[i][k]
  BY <1>3, <1>8, <1>9, AppendProperties
<1>11. granted' = [granted EXCEPT ![i] = g] /\ queue' = [queue EXCEPT ![l] = q]
  BY <1>3, <1>6, <1>8 DEF IInv, Shape
<1>12. /\ DOMAIN g = 1..Len(g) /\ DOMAIN granted[i] = 1..Len(granted[i])
       /\ Len(granted[i]) \in Nat /\ Len(g) \in Nat
  BY <1>9, <1>10, LenProperties
<1>13. Shape'
  <2>1. free[l] - n \in Nat
    BY <1>3, <1>4
  <2>2. free' \in [Locks -> Nat]
    BY <1>3, <2>1 DEF IInv, Shape
  <2>3. granted' \in [Requests -> Seq(Locks)] /\ queue' \in [Locks -> Seq(Requests)]
    BY <1>7, <1>10, <1>11 DEF IInv, Shape
  <2>4. waits' \in [Requests -> Locks \cup {None}]
    BY <1>3 DEF IInv, Shape
  <2> QED  BY <1>3, <2>2, <2>3, <2>4 DEF IInv, Shape
<1>14. IdleOK'
  <2>1. kind[i] # None
    BY <1>1, <1>3, LocksAssumption DEF IInv, IdleOK
  <2> QED  BY <1>3, <2>1 DEF IInv, IdleOK, Shape
<1>15. Queued'
  <2>1. DOMAIN q = 1..Len(q) /\ DOMAIN queue[l] = 1..Len(queue[l]) /\ Len(queue[l]) \in Nat
    BY <1>5, <1>7, LenProperties
  <2>2. queue[l][1] = i
    BY <1>3, <1>5
  <2>3. ASSUME NEW j \in Requests, NEW lock \in Locks, waits'[j] = lock
        PROVE  \E k \in DOMAIN queue'[lock] : queue'[lock][k] = j
    <3>1. j # i /\ waits[j] = lock
      BY <1>3, <2>3, LocksAssumption DEF IInv, Shape
    <3>2. PICK k \in DOMAIN queue[lock] : queue[lock][k] = j
      BY <3>1 DEF IInv, Queued, Stands
    <3>3. CASE lock = l
      <4>1. k # 1 /\ k - 1 \in 1..Len(q) /\ q[k - 1] = j
        BY <1>7, <2>1, <2>2, <3>1, <3>2, <3>3
      <4> QED  BY <1>3, <1>11, <2>1, <3>3, <4>1 DEF IInv, Shape
    <3>4. CASE lock # l
      BY <1>11, <3>2, <3>4 DEF IInv, Shape
    <3> QED  BY <3>3, <3>4
  <2> QED  BY <2>3 DEF Queued, Stands
<1>16. Current'
  <2>1. ASSUME NEW j \in Requests, NEW lock \in Locks, Uses(j, lock)'
        PROVE  Uses(j, lock)
    <3>1. CASE j = i
      <4>1. waits'[i] # lock
        BY <1>3, LocksAssumption DEF IInv, Shape
      <4>2. PICK k \in DOMAIN granted'[i] : granted'[i][k] = lock
        BY <2>1, <3>1, <4>1 DEF Uses
      <4>3. k \in 1..Len(g) /\ g[k] = lock
        BY <1>11, <1>12, <4>2 DEF IInv, Shape
      <4>4. CASE k = Len(g)
        BY <1>1, <1>10, <3>1, <4>3, <4>4 DEF Uses
      <4>5. CASE k # Len(g)
        BY <1>10, <1>12, <3>1, <4>3, <4>5 DEF Uses
      <4> QED  BY <4>4, <4>5
    <3>2. CASE j # i
      BY <1>3, <2>1, <3>2 DEF Uses, IInv, Shape
    <3> QED  BY <3>1, <3>2
  <2> QED  BY <1>3, <2>1 DEF IInv, Current
<1>17. Accounted'
  <2>1. PICK h : h = <<i, Len(g)>>
    OBVIOUS
  <2>2. ASSUME NEW lock \in Locks
        PROVE  Holds(lock)' = IF lock = l THEN Holds(lock) \cup {h} ELSE Holds(lock)
    <3>1. \A j \in Requests : granted'[j] = IF j = i THEN g ELSE granted[j]
      BY <1>11 DEF IInv, Shape
    <3>2. h \in Requests \X (Nat \ {0}) /\ h[1] = i /\ h[2] = Len(g)
      BY <1>10, <1>12, <2>1
    <3>3. ASSUME NEW j \in Requests, NEW k \in Nat \ {0}
          PROVE  <<j, k>> \in Holds(lock)' <=>
                   (<<j, k>> \in Holds(lock) \/ (lock = l /\ <<j, k>> = h))
      <4>1. <<j, k>> \in Holds(lock)' <=> (k \in DOMAIN granted'[j] /\ granted'[j][k] = lock)
        BY DEF Holds
      <4>2. <<j, k>> \in Holds(lock) <=> (k \in DOMAIN granted[j] /\ granted[j][k] = lock)
        BY DEF Holds
      <4>3. CASE j # i
        BY <2>1, <3>1, <4>1, <4>2, <4>3
      <4>4. CASE j = i /\ k = Len(g)
        BY <1>10, <1>12, <2>1, <3>1, <4>1, <4>2, <4>4
      <4>5. CASE j = i /\ k # Len(g)
        <5>1. k \in DOMAIN g <=> k \in DOMAIN granted[i]
          BY <1>10, <1>12, <4>5
        <5>2. k \in DOMAIN granted[i] => g[k] = granted[i][k]
          BY <1>10, <1>12
        <5> QED  BY <2>1, <3>1, <4>1, <4>2, <4>5, <5>1, <5>2
      <4> QED  BY <4>3, <4>4, <4>5
    <3>4. Holds(lock)' \subseteq Requests \X (Nat \ {0}) /\ Holds(lock) \subseteq Requests \X (Nat \ {0})
      BY DEF Holds
    <3>5. \A x \in Requests \X (Nat \ {0}) :
            x \in Holds(lock)' <=> (x \in Holds(lock) \/ (lock = l /\ x = h))
      BY <3>3
    <3> QED  BY <3>2, <3>4, <3>5
  <2>3. h \notin Holds(l)
    BY <1>10, <1>12, <2>1 DEF Holds
  <2>4. ASSUME NEW lock \in Locks, lock # l
        PROVE  IsFiniteSet(Holds(lock))' /\ (Shared(lock) \/ Owned(lock))'
    <3>1. Holds(lock)' = Holds(lock) /\ free'[lock] = free[lock]
      BY <1>3, <2>2, <2>4 DEF IInv, Shape
    <3>2. \A j : Writer(j, lock)' <=> Writer(j, lock)
      BY <1>3 DEF Writer
    <3>3. IsFiniteSet(Holds(lock)) /\ (Shared(lock) \/ Owned(lock))
      BY DEF IInv, Accounted
    <3>4. CASE Shared(lock)
      BY <3>1, <3>2, <3>3, <3>4 DEF Shared
    <3>5. CASE Owned(lock)
      BY <3>1, <3>2, <3>3, <3>5 DEF Owned
    <3> QED  BY <3>3, <3>4, <3>5
  <2>5. IsFiniteSet(Holds(l))' /\ (Shared(l) \/ Owned(l))'
    <3>1. PICK H : H = Holds(l)
      OBVIOUS
    <3>2. IsFiniteSet(H) /\ Cardinality(H) \in Nat
      BY <1>3, <3>1, FS_CardinalityType DEF IInv, Accounted
    <3>3. IsFiniteSet(H \cup {h}) /\ Cardinality(H \cup {h}) = Cardinality(H) + 1
      BY <2>3, <3>1, <3>2, FS_AddElement
    <3>4. Holds(l)' = H \cup {h}
      BY <1>3, <2>2, <3>1
    <3>5. free'[l] = free[l] - n
      BY <1>3 DEF IInv, Shape
    <3>6. ~Owned(l)
      BY <1>3, <1>4 DEF Owned
    <3>7. Shared(l)
      BY <1>3, <3>6 DEF IInv, Accounted
    <3>8. free[l] + Cardinality(H) = Permits(l[1]) /\ \A x \in H : ~Writer(x[1], l)
      BY <3>1, <3>7 DEF Shared
    <3>9. \A j : Writer(j, l)' <=> Writer(j, l)
      BY <1>3 DEF Writer
    <3>10. CASE Writer(i, l)
      <4>1. n = MaxReads /\ Permits(l[1]) = MaxReads
        BY <1>2, <3>10 DEF Asked, Writer, Permits
      <4>2. Cardinality(H) = 0 /\ free[l] - n = 0
        BY <1>3, <1>4, <3>2, <3>8, <4>1
      <4>3. H = {}
        BY <3>2, <4>2, FS_EmptySet
      <4>4. Holds(l)' = {h} /\ h[1] = i
        BY <2>1, <3>4, <4>3
      <4>5. Owned(l)'
        BY <3>5, <3>9, <3>10, <4>2, <4>4 DEF Owned
      <4> QED  BY <3>3, <3>4, <4>5
    <3>11. CASE ~Writer(i, l)
      <4>1. n = 1
        BY <1>2, <3>11 DEF Asked, Writer
      <4>2. free'[l] + Cardinality(H \cup {h}) = Permits(l[1])
        BY <1>4, <3>2, <3>3, <3>5, <3>8, <4>1
      <4>3. \A x \in H \cup {h} : ~Writer(x[1], l)'
        BY <2>1, <3>8, <3>9, <3>11
      <4>4. Shared(l)'
        BY <3>4, <4>2, <4>3 DEF Shared
      <4> QED  BY <3>3, <3>4, <4>4
    <3> QED  BY <3>10, <3>11
  <2> QED  BY <2>4, <2>5 DEF Accounted
<1> QED
  BY <1>13, <1>14, <1>15, <1>16, <1>17 DEF IInv

-----------------------------------------------------------------------------
(* A handler ends, or is dropped.                                          *)

\* The guards that i has of one lock, counted as the permits they return.
LEMMA GuardsOf ==
  ASSUME Shape, NEW i \in Requests, NEW lock \in Locks,
         IsFiniteSet(Holds(lock)), Shared(lock) \/ Owned(lock)
  PROVE  LET Own == {i} \X (Nat \ {0}) IN
         /\ Granted(i, lock) \in Nat
         /\ Holds(lock) \cap Own = {} => Granted(i, lock) = 0
         /\ Shared(lock) => Granted(i, lock) = Cardinality(Holds(lock) \cap Own)
         /\ Owned(lock) /\ Holds(lock) \cap Own # {} => Granted(i, lock) = MaxReads
<1>1. PICK K : K = {k \in DOMAIN granted[i] : granted[i][k] = lock}
  OBVIOUS
<1>2. PICK A : A = Asked(i, lock[1])
  OBVIOUS
<1>3. PICK P : P = Holds(lock) \cap ({i} \X (Nat \ {0}))
  OBVIOUS
<1>4. Granted(i, lock) = A * Cardinality(K)
  BY <1>1, <1>2 DEF Granted
<1>5. DOMAIN granted[i] = 1..Len(granted[i]) /\ Len(granted[i]) \in Nat
  BY LenProperties DEF Shape
<1>6. IsFiniteSet(K) /\ Cardinality(K) \in Nat
  <2>1. PICK n \in Nat : DOMAIN granted[i] = 1..n
    BY <1>5
  <2>2. K \in SUBSET (1..n)
    BY <1>1, <2>1
  <2>3. 1 \in Int /\ n \in Int
    OBVIOUS
  <2>4. IsFiniteSet(1..n)
    BY <2>3, FS_Interval
  <2>5. IsFiniteSet(K)
    BY <2>2, <2>4, FS_Subset
  <2> QED  BY <2>5, FS_CardinalityType
<1>7. P = {i} \X K
  <2>1. K \subseteq Nat \ {0}
    BY <1>1, <1>5
  <2>2. ASSUME NEW k \in Nat \ {0}
        PROVE  <<i, k>> \in P <=> k \in K
    BY <1>1, <1>3 DEF Holds
  <2>3. P \subseteq {i} \X (Nat \ {0}) /\ {i} \X K \subseteq {i} \X (Nat \ {0})
    BY <1>3, <2>1
  <2>4. \A x \in {i} \X (Nat \ {0}) : x \in P <=> x \in {i} \X K
    BY <2>2
  <2> QED  BY <2>3, <2>4
<1>8. Cardinality(P) = Cardinality(K)
  <2>1. IsFiniteSet({i}) /\ Cardinality({i}) = 1
    BY FS_Singleton
  <2>2. Cardinality(P) = 1 * Cardinality(K)
    BY <1>6, <1>7, <2>1, FS_Product
  <2> QED  BY <1>6, <2>2
<1>9. A \in {1, MaxReads} /\ MaxReads \in Nat
  BY <1>2, Constants
<1>10. P = {} => Granted(i, lock) = 0
  <2>1. ASSUME P = {}  PROVE Cardinality(K) = 0
    <3>1. ASSUME NEW k \in K  PROVE FALSE
      <4>1. <<i, k>> \in {i} \X K
        OBVIOUS
      <4> QED  BY <1>7, <2>1, <4>1
    <3> QED  BY <3>1, FS_EmptySet
  <2> QED  BY <1>4, <1>9, <2>1
<1>11. ASSUME Shared(lock)  PROVE Granted(i, lock) = Cardinality(P)
  <2>1. CASE P = {}
    BY <1>8, <1>10, <2>1, FS_EmptySet
  <2>2. CASE P # {}
    <3>1. PICK x \in Holds(lock) : x[1] = i
      BY <1>3, <2>2
    <3>2. ~Writer(i, lock)
      BY <1>11, <3>1 DEF Shared
    <3>3. A = 1
      BY <1>2, <3>2 DEF Writer, Asked
    <3> QED  BY <1>4, <1>6, <1>8, <3>3
  <2> QED  BY <2>1, <2>2
<1>12. ASSUME Owned(lock), P # {}  PROVE Granted(i, lock) = MaxReads
  <2>1. PICK h \in Holds(lock) : Holds(lock) = {h} /\ Writer(h[1], lock)
    BY <1>12 DEF Owned
  <2>2. P = {h} /\ h[1] = i
    BY <1>3, <1>12, <2>1
  <2>3. Cardinality(P) = 1
    BY <2>2, FS_Singleton
  <2>4. A = MaxReads
    BY <1>2, <2>1, <2>2 DEF Writer, Asked
  <2>5. A * 1 = A
    BY <1>9
  <2> QED  BY <1>4, <1>8, <2>3, <2>4, <2>5
<1>13. Granted(i, lock) \in Nat
  <2>1. CASE Shared(lock)
    BY <1>6, <1>8, <1>11, <2>1
  <2>2. CASE Owned(lock)
    BY <1>9, <1>10, <1>12, <2>2
  <2> QED  BY <2>1, <2>2
<1> QED
  BY <1>3, <1>10, <1>11, <1>12, <1>13

LEMMA ReleaseKeeps ==
  ASSUME IInv, NEW i \in Requests, Release(i), UNCHANGED entry, cancels' \in 0..MaxCancels
  PROVE  IInv'
<1>1. /\ kind' = [kind EXCEPT ![i] = None] /\ part' = [part EXCEPT ![i] = First]
      /\ granted' = [granted EXCEPT ![i] = <<>>] /\ waits' = [waits EXCEPT ![i] = None]
      /\ free' = [lock \in Locks |-> free[lock] + Granted(i, lock)]
      /\ queue' = [lock \in Locks |-> Without(queue[lock], i)]
  BY DEF Release
<1>2. ASSUME NEW lock \in Locks
      PROVE  /\ Granted(i, lock) \in Nat
             /\ IsFiniteSet(Holds(lock)) /\ (Shared(lock) \/ Owned(lock))
  BY GuardsOf DEF IInv, Accounted
<1>3. Shape'
  <2>1. free' \in [Locks -> Nat]
    BY <1>1, <1>2 DEF IInv, Shape
  <2>2. queue' \in [Locks -> Seq(Requests)]
    BY <1>1, WithoutKeeps DEF IInv, Shape
  <2>3. granted' \in [Requests -> Seq(Locks)]
    BY <1>1, EmptySeq DEF IInv, Shape
  <2>4. part' \in [Requests -> Parts] /\ kind' \in [Requests -> Kinds \cup {None}]
    BY <1>1, LocksAssumption DEF IInv, Shape
  <2>5. waits' \in [Requests -> Locks \cup {None}]
    BY <1>1 DEF IInv, Shape
  <2> QED  BY <2>1, <2>2, <2>3, <2>4, <2>5 DEF IInv, Shape
<1>4. IdleOK'
  BY <1>1 DEF IInv, IdleOK, Shape
<1>5. Queued'
  <2>1. ASSUME NEW j \in Requests, NEW lock \in Locks, waits'[j] = lock
        PROVE  Stands(queue'[lock], j)
    <3>1. j # i /\ waits[j] = lock
      BY <1>1, <2>1, LocksAssumption DEF IInv, Shape
    <3>2. Stands(queue[lock], j)
      BY <3>1 DEF IInv, Queued
    <3>3. queue[lock] \in Seq(Requests) /\ queue'[lock] = Without(queue[lock], i)
      BY <1>1 DEF IInv, Shape
    <3>4. Stands(Without(queue[lock], i), j)
      BY <3>1, <3>2, <3>3, WithoutKeeps
    <3> QED  BY <3>3, <3>4
  <2> QED  BY <2>1 DEF Queued
<1>6. Current'
  <2>1. ASSUME NEW j \in Requests, NEW lock \in Locks, Uses(j, lock)'
        PROVE  Uses(j, lock)
    <3>1. j # i
      BY <1>1, <2>1, LocksAssumption DEF Uses, IInv, Shape
    <3> QED  BY <1>1, <2>1, <3>1 DEF Uses, IInv, Shape
  <2> QED  BY <2>1 DEF IInv, Current
<1>7. Accounted'
  <2>1. ASSUME NEW lock \in Locks
        PROVE  IsFiniteSet(Holds(lock))' /\ (Shared(lock) \/ Owned(lock))'
    <3>1. PICK H : H = Holds(lock)
      OBVIOUS
    <3>2. PICK Own : Own = {i} \X (Nat \ {0})
      OBVIOUS
    <3>3. Holds(lock)' = H \ Own
      <4>1. ASSUME NEW j \in Requests, NEW k \in Nat \ {0}
            PROVE  <<j, k>> \in Holds(lock)' <=> <<j, k>> \in H \ Own
        <5>1. granted'[j] = IF j = i THEN <<>> ELSE granted[j]
          BY <1>1 DEF IInv, Shape
        <5>2. <<j, k>> \in Own <=> j = i
          BY <3>2
        <5> QED  BY <3>1, <5>1, <5>2 DEF Holds
      <4>2. /\ Holds(lock)' \subseteq Requests \X (Nat \ {0})
            /\ H \ Own \subseteq Requests \X (Nat \ {0})
        BY <3>1 DEF Holds
      <4>3. \A x \in Requests \X (Nat \ {0}) : x \in Holds(lock)' <=> x \in H \ Own
        BY <4>1
      <4> QED  BY <4>2, <4>3
    <3>4. free'[lock] = free[lock] + Granted(i, lock) /\ free[lock] \in Nat
      BY <1>1 DEF IInv, Shape
    <3>5. /\ IsFiniteSet(H) /\ Cardinality(H) \in Nat
          /\ IsFiniteSet(H \ Own)
          /\ Cardinality(H \ Own) = Cardinality(H) - Cardinality(H \cap Own)
      BY <1>2, <3>1, FS_Difference, FS_CardinalityType
    <3>6. /\ Granted(i, lock) \in Nat
          /\ H \cap Own = {} => Granted(i, lock) = 0
          /\ Shared(lock) => Granted(i, lock) = Cardinality(H \cap Own)
          /\ Owned(lock) /\ H \cap Own # {} => Granted(i, lock) = MaxReads
      BY <1>2, <3>1, <3>2, GuardsOf DEF IInv
    <3>7. \A x \in H \ Own : Writer(x[1], lock)' <=> Writer(x[1], lock)
      <4>1. \A x \in H \ Own : x[1] \in Requests /\ x[1] # i
        BY <3>1, <3>2 DEF Holds
      <4> QED  BY <1>1, <4>1 DEF Writer, IInv, Shape
    <3>8. CASE Shared(lock)
      <4>1. free[lock] + Cardinality(H) = Permits(lock[1]) /\ \A x \in H : ~Writer(x[1], lock)
        BY <3>1, <3>8 DEF Shared
      <4>2. free'[lock] + Cardinality(H \ Own) = Permits(lock[1])
        BY <3>4, <3>5, <3>6, <3>8, <4>1
      <4>3. Shared(lock)'
        BY <3>3, <3>7, <4>1, <4>2 DEF Shared
      <4> QED  BY <3>3, <3>5, <4>3
    <3>9. CASE Owned(lock) /\ H \cap Own = {}
      <4>1. H \ Own = H /\ free'[lock] = free[lock]
        BY <3>4, <3>6, <3>9
      <4>2. Owned(lock)'
        BY <3>1, <3>3, <3>7, <3>9, <4>1 DEF Owned
      <4> QED  BY <3>3, <3>5, <4>2
    <3>10. CASE Owned(lock) /\ H \cap Own # {}
      <4>1. PICK h \in H : H = {h} /\ Writer(h[1], lock) /\ free[lock] = 0
        BY <3>1, <3>10 DEF Owned
      <4>2. H \ Own = {} /\ Cardinality(H \ Own) = 0
        BY <3>10, <4>1, FS_EmptySet
      <4>3. Permits(lock[1]) = MaxReads /\ MaxReads \in Nat
        BY <4>1, Constants DEF Writer, Permits
      <4>4. free'[lock] + Cardinality(H \ Own) = Permits(lock[1])
        BY <3>4, <3>6, <3>10, <4>1, <4>2, <4>3
      <4>5. Shared(lock)'
        BY <3>3, <4>2, <4>4 DEF Shared
      <4> QED  BY <3>3, <3>5, <4>5
    <3> QED  BY <1>2, <3>8, <3>9, <3>10
  <2> QED  BY <2>1 DEF Accounted
<1> QED
  BY <1>3, <1>4, <1>5, <1>6, <1>7 DEF IInv

-----------------------------------------------------------------------------
(* The theorems.                                                           *)

LEMMA InitHolds == Init => IInv
<1> SUFFICES ASSUME Init PROVE IInv
  OBVIOUS
<1>1. \A name : Permits(name) \in Nat
  <2>1. MaxReads \in Nat
    BY LocksAssumption, FS_CardinalityType DEF MaxReads
  <2> QED  BY <2>1, LocksAssumption DEF Permits
<1>2. Shape
  <2>1. free \in [Locks -> Nat]
    BY <1>1 DEF Init
  <2>2. granted \in [Requests -> Seq(Locks)] /\ queue \in [Locks -> Seq(Requests)]
    BY EmptySeq DEF Init
  <2>3. (CHOOSE v \in Versions : TRUE) \in Versions
    BY LocksAssumption
  <2>4. entry \in [Names -> Versions]
    BY <2>3 DEF Init
  <2>5. /\ kind \in [Requests -> Kinds \cup {None}] /\ part \in [Requests -> Parts]
        /\ waits \in [Requests -> Locks \cup {None}] /\ cancels \in 0..MaxCancels
    BY LocksAssumption DEF Init
  <2> QED  BY <2>1, <2>2, <2>4, <2>5 DEF Shape
<1>3. IdleOK
  BY DEF Init, IdleOK
<1>4. Queued
  BY LocksAssumption DEF Init, Queued
<1>5. Current
  BY LocksAssumption DEF Init, Current, Uses
<1>6. Accounted
  <2>1. ASSUME NEW lock \in Locks
        PROVE  IsFiniteSet(Holds(lock)) /\ Shared(lock)
    <3>1. Holds(lock) = {}
      BY DEF Init, Holds
    <3>2. IsFiniteSet(Holds(lock)) /\ Cardinality(Holds(lock)) = 0
      BY <3>1, FS_EmptySet
    <3>3. free[lock] = Permits(lock[1])
      BY DEF Init
    <3> QED  BY <1>1, <3>1, <3>2, <3>3 DEF Shared
  <2> QED  BY <2>1 DEF Accounted
<1> QED
  BY <1>2, <1>3, <1>4, <1>5, <1>6 DEF IInv

LEMMA StepHolds == IInv /\ [Next]_vars => IInv'
<1> SUFFICES ASSUME IInv, [Next]_vars PROVE IInv'
  OBVIOUS
<1>1. CASE UNCHANGED vars
  <2>1. UNCHANGED <<kind, part, granted, waits, free, queue, entry, cancels>>
    BY <1>1 DEF vars
  <2>2. Accounted'
    BY <2>1, AccountedStays DEF IInv
  <2>3. Current' /\ Queued' /\ IdleOK'
    BY <2>1 DEF IInv, Current, Uses, Queued, IdleOK
  <2>4. Shape'
    BY <2>1 DEF IInv, Shape
  <2> QED  BY <2>2, <2>3, <2>4 DEF IInv
<1>2. ASSUME NEW i \in Requests, Return(i)  PROVE IInv'
  <2>1. Release(i) /\ UNCHANGED entry /\ cancels' \in 0..MaxCancels
    BY <1>2 DEF Return, IInv, Shape
  <2> QED  BY <2>1, ReleaseKeeps
<1>3. ASSUME NEW i \in Requests, Cancel(i)  PROVE IInv'
  <2>1. Release(i) /\ UNCHANGED entry /\ cancels' \in 0..MaxCancels
    BY <1>3, LocksAssumption DEF Cancel, IInv, Shape
  <2> QED  BY <2>1, ReleaseKeeps
<1> QED
  BY <1>1, <1>2, <1>3, BeginKeeps, AskKeeps, GrantKeeps DEF Next

THEOREM LocksInvariant == Spec => []IInv
<1> QED
  BY InitHolds, StepHolds, PTL DEF Spec

\* Every variable keeps its type and no semaphore is overdrawn or overfilled, for
\* any number of requests, parts and slots.
THEOREM LocksTyped == Spec => []TypeOK
<1>1. IInv => TypeOK
  <2> SUFFICES ASSUME IInv PROVE TypeOK
    OBVIOUS
  <2>1. ASSUME NEW lock \in Locks
        PROVE  free[lock] \in 0..Permits(lock[1])
    <3>1. free[lock] \in Nat /\ Cardinality(Holds(lock)) \in Nat
      BY FS_CardinalityType DEF IInv, Shape, Accounted
    <3>2. CASE Shared(lock)
      <4>1. free[lock] + Cardinality(Holds(lock)) = Permits(lock[1])
        BY <3>2 DEF Shared
      <4> QED  BY <3>1, <4>1
    <3>3. CASE Owned(lock)
      <4>1. PICK h \in Holds(lock) : free[lock] = 0
        BY <3>3 DEF Owned
      <4>2. h[1] \in Requests
        BY DEF Holds
      <4> QED  BY <4>1, <4>2, Constants
    <3> QED  BY <3>2, <3>3 DEF IInv, Accounted
  <2>2. /\ kind \in [Requests -> Kinds \cup {None}] /\ part \in [Requests -> Parts]
        /\ \A i \in Requests : granted[i] \in Seq(Locks) /\ waits[i] \in Locks \cup {None}
        /\ \A lock \in Locks : queue[lock] \in Seq(Requests)
        /\ entry \in [Names -> Versions] /\ cancels \in 0..MaxCancels
    BY DEF IInv, Shape
  <2> QED  BY <2>1, <2>2 DEF TypeOK
<1> QED
  BY <1>1, LocksInvariant, PTL

\* Completion and abort exclude all part writers and each other, and each part has
\* one writer (state.rs:31), for any number of requests, while the maps forget locks
\* and requests are dropped in the queues.
THEOREM LocksExclusive == Spec => []Exclusive
<1>1. IInv => Exclusive
  <2> SUFFICES ASSUME IInv, NEW i \in Requests, NEW j \in Requests, i # j,
                      Has(i, "session"), Has(j, "session")
               PROVE  /\ {kind[i], kind[j]} \cap Lifecycle = {}
                      /\ \A name \in Names \ {"session", "slots"} : ~(Has(i, name) /\ Has(j, name))
    BY DEF Exclusive
  \* Guards of two requests under one name are of one lock.
  <2>1. ASSUME NEW name \in Names, Has(i, name), Has(j, name)
        PROVE  \E lock \in Locks : \E g, h \in Holds(lock) :
                 lock[1] = name /\ g[1] = i /\ h[1] = j
    <3>1. PICK k \in DOMAIN granted[i] : granted[i][k][1] = name
      BY <2>1 DEF Has
    <3>2. PICK n \in DOMAIN granted[j] : granted[j][n][1] = name
      BY <2>1 DEF Has
    <3>3. granted[i] \in Seq(Locks) /\ granted[j] \in Seq(Locks)
      BY DEF IInv, Shape
    <3>4. /\ granted[i][k] \in Locks /\ granted[j][n] \in Locks
          /\ k \in Nat \ {0} /\ n \in Nat \ {0}
      BY <3>1, <3>2, <3>3, LenProperties, ElementOfSeq
    <3>5. granted[i][k][2] = entry[name] /\ granted[j][n][2] = entry[name]
      BY <3>1, <3>2, <3>4 DEF IInv, Current, Uses
    <3>6. granted[i][k] = granted[j][n]
      BY <3>1, <3>2, <3>4, <3>5 DEF Locks
    <3>7. PICK lock \in Locks : lock = granted[i][k]
      BY <3>4
    <3>8. <<i, k>> \in Holds(lock) /\ <<j, n>> \in Holds(lock)
      BY <3>1, <3>2, <3>4, <3>6, <3>7 DEF Holds
    <3> QED  BY <3>1, <3>7, <3>8
  <2>2. ASSUME NEW lock \in Locks, NEW g \in Holds(lock), NEW h \in Holds(lock),
               g[1] = i, h[1] = j
        PROVE  Shared(lock) /\ Cardinality(Holds(lock)) >= 2 /\ Cardinality(Holds(lock)) \in Nat
    <3>1. g # h
      BY <2>2
    <3>2. Shared(lock)
      BY <3>1 DEF IInv, Accounted, Owned
    <3>3. IsFiniteSet(Holds(lock)) /\ Cardinality(Holds(lock)) \in Nat
      BY FS_CardinalityType DEF IInv, Accounted
    <3>4. Cardinality(Holds(lock)) # 0
      BY <3>3, FS_EmptySet
    <3>5. Cardinality(Holds(lock)) # 1
      BY <3>1, <3>3, FS_Singleton
    <3> QED  BY <3>2, <3>3, <3>4, <3>5
  <2>3. {kind[i], kind[j]} \cap Lifecycle = {}
    <3>1. PICK lock \in Locks : \E g, h \in Holds(lock) :
            lock[1] = "session" /\ g[1] = i /\ h[1] = j
      BY <2>1 DEF Names
    <3>2. ~Writer(i, lock) /\ ~Writer(j, lock)
      BY <2>2, <3>1 DEF Shared
    <3> QED  BY <3>1, <3>2 DEF Writer
  <2>4. ASSUME NEW name \in Names \ {"session", "slots"}, Has(i, name), Has(j, name)
        PROVE  FALSE
    <3>1. PICK lock \in Locks : \E g, h \in Holds(lock) :
            lock[1] = name /\ g[1] = i /\ h[1] = j
      BY <2>1, <2>4
    <3>2. free[lock] + Cardinality(Holds(lock)) = Permits(lock[1]) /\ free[lock] \in Nat
      BY <2>2, <3>1 DEF Shared, IInv, Shape
    <3>3. Permits(lock[1]) = 1
      BY <3>1 DEF Permits
    <3> QED  BY <2>2, <3>1, <3>2, <3>3
  <2> QED  BY <2>3, <2>4
<1> QED
  BY <1>1, LocksInvariant, PTL

-----------------------------------------------------------------------------
(* Nobody stands still.  Locks are granted in the order of the plans, and  *)
(* who stands in a queue waits there, once.  So of the requests that wait, *)
(* those at the end of the order are waited for by the others, and wait    *)
(* for nobody.                                                             *)

Ordered ==
  \A i \in Requests : kind[i] # None =>
    /\ \A k \in DOMAIN granted[i] : granted[i][k][1] = Plan(i)[k]
    /\ waits[i] # None =>
         Len(granted[i]) < Len(Plan(i)) /\ waits[i][1] = Plan(i)[Len(granted[i]) + 1]

Lined(q, lock) ==
  \A k \in DOMAIN q : /\ waits[q[k]] = lock
                      /\ \A m \in DOMAIN q : q[m] = q[k] => m = k

LinesInv == Ordered /\ \A lock \in Locks : Lined(queue[lock], lock)

LEMMA PlanIs ==
  ASSUME NEW i \in Requests, kind[i] \in AllKinds, part[i] \in Parts
  PROVE  /\ Plan(i) \in Seq(Names)
         /\ kind[i] \in {"data", "part"} =>
              /\ Len(Plan(i)) = 3 /\ Plan(i)[1] = "session" /\ Plan(i)[3] = "slots"
              /\ Plan(i)[2] = IF kind[i] = "data" THEN "data" ELSE part[i]
         /\ kind[i] = "one_block" =>
              /\ Len(Plan(i)) = 5 /\ Plan(i)[1] = "session" /\ Plan(i)[2] = "data"
              /\ Plan(i)[3] = "session" /\ Plan(i)[4] = First /\ Plan(i)[5] = "slots"
         /\ kind[i] = "finish" =>
              Len(Plan(i)) = 2 /\ Plan(i)[1] = "session" /\ Plan(i)[2] = "slots"
         /\ kind[i] = "abort" => Len(Plan(i)) = 1 /\ Plan(i)[1] = "session"
<1>1. {"session", "data", "slots", First, part[i]} \subseteq Names
  BY LocksAssumption DEF Names
<1>2. ASSUME NEW a \in Names, NEW b \in Names, NEW c \in Names
      PROVE  /\ << a, b >> \o << c >> \in Seq(Names) /\ Len(<< a, b >> \o << c >>) = 3
             /\ (<< a, b >> \o << c >>)[1] = a /\ (<< a, b >> \o << c >>)[2] = b
             /\ (<< a, b >> \o << c >>)[3] = c
  <2>1. << a, b >> \in Seq(Names) /\ << c >> \in Seq(Names)
    OBVIOUS
  <2>2. Len(<< a, b >>) = 2 /\ Len(<< c >>) = 1 /\ << a, b >>[1] = a /\ << a, b >>[2] = b /\ << c >>[1] = c
    OBVIOUS
  <2> QED  BY <2>1, <2>2, ConcatProperties
<1>3. CASE kind[i] = "data"
  BY <1>1, <1>2, <1>3 DEF Plan, LockPart
<1>4. CASE kind[i] = "part"
  BY <1>1, <1>2, <1>4 DEF Plan, LockPart
<1>5. CASE kind[i] = "one_block"
  <2> DEFINE a == << "session", "data" >>
             b == << "session", First >> \o << "slots" >>
  <2>1. a \in Seq(Names) /\ Len(a) = 2 /\ a[1] = "session" /\ a[2] = "data"
    BY <1>1
  <2>2. /\ b \in Seq(Names) /\ Len(b) = 3
        /\ b[1] = "session" /\ b[2] = First /\ b[3] = "slots"
    BY <1>1, <1>2
  <2>3. Plan(i) = a \o b
    BY <1>5 DEF Plan, LockPart
  <2> HIDE DEF a, b
  <2>4. /\ a \o b \in Seq(Names) /\ Len(a \o b) = Len(a) + Len(b)
        /\ \A k \in 1..(Len(a) + Len(b)) :
             (a \o b)[k] = IF k <= Len(a) THEN a[k] ELSE b[k - Len(a)]
    BY <2>1, <2>2, ConcatProperties
  <2>5. PICK c : c = a \o b
    OBVIOUS
  <2>6. /\ c \in Seq(Names) /\ Len(c) = 5
        /\ \A k \in 1..5 : c[k] = IF k <= 2 THEN a[k] ELSE b[k - 2]
    BY <2>1, <2>2, <2>4, <2>5
  <2>7. /\ c[1] = a[1] /\ c[2] = a[2] /\ c[3] = b[1] /\ c[4] = b[2] /\ c[5] = b[3]
    BY <2>6
  <2> QED  BY <1>5, <2>1, <2>2, <2>3, <2>5, <2>6, <2>7
<1>6. CASE kind[i] = "finish"
  BY <1>1, <1>6 DEF Plan
<1>7. CASE kind[i] = "abort"
  BY <1>1, <1>7 DEF Plan
<1> QED
  BY <1>3, <1>4, <1>5, <1>6, <1>7 DEF AllKinds

\* A sequence without its m-th element.
LEMMA Shortened ==
  ASSUME NEW q \in Seq(Requests), NEW m \in 1..Len(q)
  PROVE  LET r == SubSeq(q, 1, m - 1) \o SubSeq(q, m + 1, Len(q))
         IN  /\ DOMAIN r = 1..(Len(q) - 1)
             /\ \A k \in 1..(Len(q) - 1) : r[k] = IF k <= m - 1 THEN q[k] ELSE q[k + 1]
<1>1. PICK a : a = SubSeq(q, 1, m - 1)
  OBVIOUS
<1>2. PICK b : b = SubSeq(q, m + 1, Len(q))
  OBVIOUS
<1>3. PICK r : r = a \o b
  OBVIOUS
<1>4. Len(q) \in Nat /\ \A k \in 1..Len(q) : q[k] \in Requests
  BY LenProperties
<1>5. a \in Seq(Requests) /\ Len(a) = m - 1 /\ \A k \in 1..(m - 1) : a[k] = q[k]
  BY <1>1, <1>4, SubSeqProperties
<1>6. /\ b \in Seq(Requests) /\ Len(b) = Len(q) - m
      /\ \A k \in 1..(Len(q) - m) : b[k] = q[m + k]
  BY <1>2, <1>4, SubSeqProperties
<1>7. /\ r \in Seq(Requests) /\ Len(r) = Len(a) + Len(b)
      /\ \A k \in 1..(Len(a) + Len(b)) : r[k] = IF k <= Len(a) THEN a[k] ELSE b[k - Len(a)]
  BY <1>3, <1>5, <1>6, ConcatProperties
<1>8. Len(r) = Len(q) - 1
  BY <1>4, <1>5, <1>6, <1>7
<1>9. DOMAIN r = 1..(Len(q) - 1)
  BY <1>7, <1>8, LenProperties
<1>10. ASSUME NEW k \in 1..(Len(q) - 1)
       PROVE  r[k] = IF k <= m - 1 THEN q[k] ELSE q[k + 1]
  <2>1. CASE k <= m - 1
    <3>1. k \in 1..(m - 1) /\ k \in 1..(Len(a) + Len(b)) /\ k <= Len(a)
      BY <1>4, <1>5, <1>6, <2>1
    <3>2. r[k] = a[k]
      BY <1>7, <3>1
    <3>3. a[k] = q[k]
      BY <1>5, <3>1
    <3> QED  BY <2>1, <3>2, <3>3
  <2>2. CASE k > m - 1
    <3>1. k - (m - 1) \in 1..(Len(q) - m) /\ m + (k - (m - 1)) = k + 1
      BY <1>4, <2>2
    <3>2. b[k - (m - 1)] = q[m + (k - (m - 1))]
      BY <1>6, <3>1
    <3>3. k \in 1..(Len(a) + Len(b)) /\ ~(k <= Len(a)) /\ k - Len(a) = k - (m - 1)
      BY <1>4, <1>5, <1>6, <2>2
    <3>4. r[k] = b[k - (m - 1)]
      BY <1>7, <3>3
    <3> QED  BY <1>4, <2>2, <3>1, <3>2, <3>4
  <2> QED  BY <1>4, <2>1, <2>2
<1> QED
  BY <1>1, <1>2, <1>3, <1>9, <1>10

\* Leaving a queue in which one stands once, and changes nobody else's place.
LEMMA WithoutLined ==
  ASSUME NEW q \in Seq(Requests), NEW i \in Requests,
         \A k, m \in DOMAIN q : q[m] = q[k] => m = k
  PROVE  LET r == Without(q, i)
         IN  /\ \A k \in DOMAIN r : r[k] # i /\ \E m \in DOMAIN q : q[m] = r[k]
             /\ \A k, m \in DOMAIN r : r[m] = r[k] => m = k
<1>1. PICK r : r = Without(q, i)
  OBVIOUS
<1>2. CASE ~\E k \in DOMAIN q : q[k] = i
  BY <1>2 DEF Without
<1>3. CASE \E k \in DOMAIN q : q[k] = i
  <2>1. PICK m : m = CHOOSE k \in DOMAIN q : q[k] = i
    OBVIOUS
  <2>2. m \in 1..Len(q) /\ q[m] = i /\ Len(q) \in Nat /\ DOMAIN q = 1..Len(q)
    BY <1>3, <2>1, LenProperties
  <2>3. r = SubSeq(q, 1, m - 1) \o SubSeq(q, m + 1, Len(q))
    BY <1>1, <1>3, <2>1 DEF Without
  <2>4. /\ DOMAIN r = 1..(Len(q) - 1)
        /\ \A k \in 1..(Len(q) - 1) : r[k] = IF k <= m - 1 THEN q[k] ELSE q[k + 1]
    BY <2>2, <2>3, Shortened
  <2>5. PICK place : place = [k \in 1..(Len(q) - 1) |-> IF k <= m - 1 THEN k ELSE k + 1]
    OBVIOUS
  <2>6. /\ \A k \in 1..(Len(q) - 1) : /\ r[k] = q[place[k]]
                                      /\ place[k] \in 1..Len(q) /\ place[k] # m
        /\ \A k, n \in 1..(Len(q) - 1) : place[k] = place[n] => k = n
    BY <2>2, <2>4, <2>5
  <2>7. \A k \in 1..(Len(q) - 1) : place[k] \in DOMAIN q /\ r[k] = q[place[k]] /\ place[k] # m
    BY <2>2, <2>6
  <2>8. ASSUME NEW k \in DOMAIN r
        PROVE  r[k] # i /\ \E n \in DOMAIN q : q[n] = r[k]
    <3>1. place[k] \in DOMAIN q /\ r[k] = q[place[k]] /\ place[k] # m
      BY <2>4, <2>7
    <3>2. q[place[k]] # q[m]
      BY <2>2, <3>1
    <3> QED  BY <2>2, <3>1, <3>2
  <2>9. ASSUME NEW k \in DOMAIN r, NEW n \in DOMAIN r, r[n] = r[k]
        PROVE  n = k
    <3>1. place[k] \in DOMAIN q /\ place[n] \in DOMAIN q /\ q[place[n]] = q[place[k]]
      BY <2>4, <2>7, <2>9
    <3>2. place[n] = place[k]
      BY <3>1
    <3> QED  BY <2>4, <2>6, <3>2
  <2> QED  BY <1>1, <2>8, <2>9
<1> QED
  BY <1>2, <1>3

LEMMA LinesStep ==
  ASSUME IInv, LinesInv, [Next]_vars
  PROVE  LinesInv'
<1> DEFINE Line(j) ==
      /\ \A n \in DOMAIN granted[j] : granted[j][n][1] = Plan(j)[n]
      /\ waits[j] # None =>
           Len(granted[j]) < Len(Plan(j)) /\ waits[j][1] = Plan(j)[Len(granted[j]) + 1]
<1>1. Ordered <=> \A j \in Requests : kind[j] # None => Line(j)
  BY DEF Ordered
<1>2. Ordered' <=> \A j \in Requests : kind'[j] # None => Line(j)'
  BY DEF Ordered
<1>3. ASSUME NEW j \in Requests, UNCHANGED <<kind[j], part[j], granted[j], waits[j]>>, Line(j)
      PROVE  Line(j)'
  <2>1. Plan(j)' = Plan(j)
    BY <1>3 DEF Plan
  <2> QED  BY <1>3, <2>1
<1>4. CASE UNCHANGED vars
  <2>1. Ordered'
    BY <1>1, <1>2, <1>3, <1>4 DEF vars, LinesInv
  <2> QED  BY <1>4, <2>1 DEF vars, LinesInv, Lined
<1>5. ASSUME NEW i \in Requests, NEW k \in Kinds, NEW p \in Parts, Begin(i, k, p)
      PROVE  LinesInv'
  <2>1. /\ granted[i] = <<>> /\ waits[i] = None /\ UNCHANGED <<granted, waits, queue>>
        /\ kind' = [kind EXCEPT ![i] = k] /\ part' = [part EXCEPT ![i] = p]
    BY <1>5 DEF Begin, IInv, IdleOK
  <2>2. Line(i)'
    BY <2>1
  <2>3. \A j \in Requests : j # i => kind'[j] = kind[j] /\ part'[j] = part[j]
    BY <2>1 DEF IInv, Shape
  <2> HIDE DEF Line
  <2>4. Ordered'
    BY <1>1, <1>2, <1>3, <2>1, <2>2, <2>3 DEF LinesInv
  <2> QED  BY <2>1, <2>4 DEF LinesInv, Lined
<1>6. ASSUME NEW i \in Requests, Ask(i)
      PROVE  LinesInv'
  <2>1. PICK l : /\ waits' = [waits EXCEPT ![i] = l] /\ l[1] = Step(i)
                 /\ queue' = [queue EXCEPT ![l] = Append(@, i)]
    <3>1. PICK name : name = Step(i)
      OBVIOUS
    <3>2. PICK v : v = IF name = "slots" THEN entry[name] ELSE LookUp(name)
      OBVIOUS
    <3>3. PICK l : l = <<name, v>>
      OBVIOUS
    <3>4. /\ waits' = [waits EXCEPT ![i] = l] /\ queue' = [queue EXCEPT ![l] = Append(@, i)]
      BY <1>6, <3>1, <3>2, <3>3 DEF Ask
    <3> QED  BY <3>1, <3>3, <3>4
  <2>2. /\ UNCHANGED <<kind, part, granted>> /\ kind[i] # None /\ waits[i] = None
        /\ Len(granted[i]) < Len(Plan(i))
    BY <1>6 DEF Ask, Running
  <2>3. \A j \in Requests : waits'[j] = IF j = i THEN l ELSE waits[j]
    BY <2>1 DEF IInv, Shape
  <2>4. Line(i)'
    <3>1. Plan(i)' = Plan(i) /\ waits'[i] = l
      BY <2>2, <2>3 DEF Plan
    <3>2. Line(i)
      BY <1>1, <2>2 DEF LinesInv
    <3> QED  BY <2>1, <2>2, <3>1, <3>2 DEF Step
  <2> HIDE DEF Line
  <2>5. Ordered'
    BY <1>1, <1>2, <1>3, <2>2, <2>3, <2>4 DEF LinesInv
  <2>6. ASSUME NEW lock \in Locks  PROVE Lined(queue[lock], lock)'
    <3>1. queue[lock] \in Seq(Requests) /\ Lined(queue[lock], lock)
      BY DEF IInv, Shape, LinesInv
    <3>2. \A k \in DOMAIN queue[lock] : queue[lock][k] \in Requests /\ queue[lock][k] # i
      <4>1. \A k \in DOMAIN queue[lock] : queue[lock][k] \in Requests
        BY <3>1, LenProperties
      <4> QED  BY <2>2, <3>1, <4>1, LocksAssumption DEF Lined
    <3>3. CASE lock # l
      <4>1. queue'[lock] = queue[lock]
        BY <2>1, <3>3 DEF IInv, Shape
      <4> QED  BY <2>3, <3>1, <3>2, <4>1 DEF Lined
    <3>4. CASE lock = l
      <4>1. PICK q : q = Append(queue[lock], i)
        OBVIOUS
      <4>2. queue'[lock] = q
        BY <2>1, <3>4, <4>1 DEF IInv, Shape
      <4>3. /\ DOMAIN q = 1..(Len(queue[lock]) + 1) /\ q[Len(queue[lock]) + 1] = i
            /\ \A k \in 1..Len(queue[lock]) : q[k] = queue[lock][k]
            /\ DOMAIN queue[lock] = 1..Len(queue[lock]) /\ Len(queue[lock]) \in Nat
        BY <3>1, <4>1, AppendProperties, LenProperties
      <4>4. \A k \in 1..Len(queue[lock]) : waits'[q[k]] = lock /\ q[k] # i
        BY <2>3, <3>1, <3>2, <4>3 DEF Lined
      <4>5. waits'[i] = lock
        BY <2>3, <3>4
      <4>6. ASSUME NEW k \in DOMAIN q
            PROVE  waits'[q[k]] = lock /\ \A m \in DOMAIN q : q[m] = q[k] => m = k
        BY <3>1, <4>3, <4>4, <4>5 DEF Lined
      <4> QED  BY <4>2, <4>6 DEF Lined
    <3> QED  BY <3>3, <3>4
  <2> QED  BY <2>5, <2>6 DEF LinesInv
<1>7. ASSUME NEW i \in Requests, Grant(i)
      PROVE  LinesInv'
  <2>1. PICK l : l = waits[i]
    OBVIOUS
  <2>2. /\ l \in Locks /\ Head(queue[l]) = i /\ l # None
        /\ queue' = [queue EXCEPT ![l] = Tail(@)]
        /\ granted' = [granted EXCEPT ![i] = Append(@, l)]
        /\ waits' = [waits EXCEPT ![i] = None]
        /\ UNCHANGED <<kind, part>>
    BY <1>7, <2>1 DEF Grant, IInv, Shape
  <2>3. kind[i] # None /\ Line(i) /\ granted[i] \in Seq(Locks) /\ Plan(i)' = Plan(i)
    BY <1>1, <2>1, <2>2 DEF LinesInv, IInv, IdleOK, Shape, Plan
  <2>4. Line(i)'
    <3>1. PICK g : g = Append(granted[i], l)
      OBVIOUS
    <3>2. granted'[i] = g /\ waits'[i] = None
      BY <2>2, <3>1 DEF IInv, Shape
    <3>3. /\ DOMAIN g = 1..(Len(granted[i]) + 1) /\ g[Len(granted[i]) + 1] = l
          /\ \A k \in 1..Len(granted[i]) : g[k] = granted[i][k]
          /\ DOMAIN granted[i] = 1..Len(granted[i]) /\ Len(granted[i]) \in Nat
      BY <2>2, <2>3, <3>1, AppendProperties, LenProperties
    <3>4. ASSUME NEW n \in DOMAIN g  PROVE g[n][1] = Plan(i)[n]
      BY <2>1, <2>2, <2>3, <3>3
    <3> QED  BY <2>3, <3>2, <3>4
  <2>5. \A j \in Requests : j # i => granted'[j] = granted[j] /\ waits'[j] = waits[j]
    BY <2>2 DEF IInv, Shape
  <2> HIDE DEF Line
  <2>6. Ordered'
    BY <1>1, <1>2, <1>3, <2>2, <2>4, <2>5 DEF LinesInv
  <2>7. ASSUME NEW lock \in Locks  PROVE Lined(queue[lock], lock)'
    <3>1. queue[lock] \in Seq(Requests) /\ Lined(queue[lock], lock)
      BY DEF IInv, Shape, LinesInv
    <3>2. \A k \in DOMAIN queue[lock] : queue[lock][k] \in Requests
      BY <3>1, LenProperties
    <3>3. CASE lock # l
      <4>1. queue'[lock] = queue[lock]
        BY <2>2, <3>3 DEF IInv, Shape
      <4>2. \A k \in DOMAIN queue[lock] : queue[lock][k] # i
        BY <2>1, <3>1, <3>3 DEF Lined
      <4> QED  BY <2>5, <3>1, <3>2, <4>1, <4>2 DEF Lined
    <3>4. CASE lock = l
      <4>1. PICK q : q = Tail(queue[lock])
        OBVIOUS
      <4>2. queue'[lock] = q
        BY <2>2, <3>4, <4>1 DEF IInv, Shape
      <4>3. queue[lock] # <<>>
        BY <2>1, <3>4 DEF IInv, Queued, Stands
      <4>4. /\ q \in Seq(Requests) /\ Len(q) = Len(queue[lock]) - 1
            /\ \A k \in 1..Len(q) : q[k] = queue[lock][k + 1]
            /\ queue[lock][1] = i
        BY <2>2, <3>1, <3>4, <4>1, <4>3, HeadTailProperties
      <4>5. /\ DOMAIN q = 1..Len(q) /\ Len(q) \in Nat
            /\ DOMAIN queue[lock] = 1..Len(queue[lock]) /\ Len(queue[lock]) \in Nat
        BY <3>1, <4>4, LenProperties
      <4>6. \A k \in 1..Len(q) : q[k] # i /\ q[k] \in Requests /\ waits[q[k]] = lock
        BY <3>1, <3>2, <4>4, <4>5 DEF Lined
      <4>7. \A k, m \in 1..Len(q) : q[m] = q[k] => m = k
        <5> SUFFICES ASSUME NEW k \in 1..Len(q), NEW m \in 1..Len(q), q[m] = q[k]  PROVE m = k
          OBVIOUS
        <5>1. k + 1 \in DOMAIN queue[lock] /\ m + 1 \in DOMAIN queue[lock]
          BY <4>4, <4>5
        <5>2. k + 1 = m + 1
          BY <3>1, <4>4, <5>1 DEF Lined
        <5> QED  BY <4>5, <5>2
      <4> QED  BY <2>5, <4>2, <4>5, <4>6, <4>7 DEF Lined
    <3> QED  BY <3>3, <3>4
  <2> QED  BY <2>6, <2>7 DEF LinesInv
<1>8. ASSUME NEW i \in Requests, Return(i) \/ Cancel(i)
      PROVE  LinesInv'
  <2>1. /\ kind' = [kind EXCEPT ![i] = None] /\ part' = [part EXCEPT ![i] = First]
        /\ granted' = [granted EXCEPT ![i] = <<>>] /\ waits' = [waits EXCEPT ![i] = None]
        /\ queue' = [lock \in Locks |-> Without(queue[lock], i)]
    BY <1>8 DEF Return, Cancel, Release
  <2>2. /\ kind'[i] = None
        /\ \A j \in Requests : j # i => UNCHANGED <<kind[j], part[j], granted[j], waits[j]>>
    BY <2>1 DEF IInv, Shape
  <2> HIDE DEF Line
  <2>3. Ordered'
    BY <1>1, <1>2, <1>3, <2>2 DEF LinesInv
  <2>4. ASSUME NEW lock \in Locks  PROVE Lined(queue[lock], lock)'
    <3>1. PICK q : q = queue[lock]
      OBVIOUS
    <3>2. q \in Seq(Requests) /\ Lined(q, lock)
      BY <3>1 DEF IInv, Shape, LinesInv
    <3>3. PICK r : r = Without(q, i)
      OBVIOUS
    <3>4. /\ \A k \in DOMAIN r : r[k] # i /\ \E m \in DOMAIN q : q[m] = r[k]
          /\ \A k, m \in DOMAIN r : r[m] = r[k] => m = k
      BY <3>2, <3>3, WithoutLined DEF Lined
    <3>5. \A k \in DOMAIN q : q[k] \in Requests
      BY <3>2, LenProperties
    <3>6. queue'[lock] = r
      BY <2>1, <3>1, <3>3
    <3> QED  BY <2>2, <3>2, <3>4, <3>5, <3>6 DEF Lined
  <2> QED  BY <2>3, <2>4 DEF LinesInv
<1> QED
  BY <1>4, <1>5, <1>6, <1>7, <1>8 DEF Next

LEMMA InitLines == Init => LinesInv
  BY DEF Init, LinesInv, Ordered, Lined

-----------------------------------------------------------------------------
(* The end of the order.                                                   *)

\* Nobody under way can go on.
Still == \A i \in Requests : ~CanMove(i)

\* Who is under way waits, for the next of its plan.
LEMMA AllWait ==
  ASSUME IInv, Ordered, Still, NEW i \in Requests, kind[i] # None
  PROVE  /\ kind[i] \in AllKinds /\ waits[i] \in Locks
         /\ Len(granted[i]) \in Nat /\ DOMAIN granted[i] = 1..Len(granted[i])
         /\ \A k \in DOMAIN granted[i] : granted[i][k] \in Locks /\ granted[i][k][1] = Plan(i)[k]
         /\ Len(granted[i]) < Len(Plan(i))
         /\ waits[i][1] = Plan(i)[Len(granted[i]) + 1]
         /\ waits[i] = << waits[i][1], entry[waits[i][1]] >>
<1>1. waits[i] # None
  BY DEF Still, CanMove, Running
<1>2. /\ waits[i] \in Locks /\ kind[i] \in AllKinds /\ granted[i] \in Seq(Locks)
  BY <1>1, LocksAssumption DEF IInv, Shape
<1>3. /\ DOMAIN granted[i] = 1..Len(granted[i]) /\ Len(granted[i]) \in Nat
      /\ \A k \in DOMAIN granted[i] : granted[i][k] \in Locks
  BY <1>2, LenProperties
<1>4. waits[i][2] = entry[waits[i][1]]
  BY <1>2 DEF IInv, Current, Uses
<1>5. waits[i] = << waits[i][1], waits[i][2] >>
  BY <1>2 DEF Locks
<1>6. /\ \A k \in DOMAIN granted[i] : granted[i][k][1] = Plan(i)[k]
      /\ Len(granted[i]) < Len(Plan(i)) /\ waits[i][1] = Plan(i)[Len(granted[i]) + 1]
  BY <1>1 DEF Ordered
<1> QED  BY <1>2, <1>3, <1>4, <1>5, <1>6

\* A lock that is waited for has a first waiter, for whom there are not enough permits.
LEMMA FirstWaiter ==
  ASSUME IInv, LinesInv, Still, NEW i \in Requests, waits[i] # None
  PROVE  \E h \in Requests :
           /\ kind[h] # None /\ waits[h] = waits[i] /\ Head(queue[waits[i]]) = h
           /\ free[waits[i]] < Asked(h, waits[i][1])
<1>1. PICK lock \in Locks : lock = waits[i]
  BY DEF IInv, Shape
<1>2. PICK q : q = queue[lock]
  OBVIOUS
<1>3. q \in Seq(Requests) /\ Stands(q, i) /\ Lined(q, lock)
  BY <1>1, <1>2 DEF IInv, Shape, Queued, LinesInv
<1>4. 1 \in DOMAIN q /\ q[1] \in Requests /\ Head(q) = q[1]
  <2>1. DOMAIN q = 1..Len(q) /\ Len(q) \in Nat /\ \A k \in DOMAIN q : q[k] \in Requests
    BY <1>3, LenProperties
  <2>2. q # <<>>
    BY <1>3 DEF Stands
  <2> QED  BY <1>3, <2>1, <2>2, HeadTailProperties DEF Stands
<1>5. waits[q[1]] = lock
  BY <1>3, <1>4 DEF Lined
<1>6. kind[q[1]] # None
  BY <1>1, <1>4, <1>5 DEF IInv, IdleOK
<1>7. ~(free[lock] >= Asked(q[1], lock[1]))
  BY <1>1, <1>2, <1>4, <1>5 DEF Still, CanMove
<1>8. free[lock] \in Nat /\ Asked(q[1], lock[1]) \in Nat
  <2>1. Asked(q[1], lock[1]) \in Nat
    BY Constants
  <2> QED  BY <2>1 DEF IInv, Shape
<1> QED  BY <1>1, <1>2, <1>4, <1>5, <1>6, <1>7, <1>8

\* A semaphore that lacks permits has a holder.
LEMMA HasHolder ==
  ASSUME IInv, NEW lock \in Locks, NEW i \in Requests, free[lock] < Asked(i, lock[1])
  PROVE  \E j \in Requests : \E k \in DOMAIN granted[j] : granted[j][k] = lock
<1>1. Asked(i, lock[1]) <= Permits(lock[1])
  BY Constants DEF Asked, Permits
<1>2. free[lock] \in Nat /\ Permits(lock[1]) \in Nat
  BY Constants DEF IInv, Shape
<1>3. Holds(lock) # {}
  <2>1. CASE Owned(lock)
    BY <2>1 DEF Owned
  <2>2. CASE Shared(lock)
    <3>1. free[lock] + Cardinality(Holds(lock)) = Permits(lock[1])
      BY <2>2 DEF Shared
    <3>2. Asked(i, lock[1]) \in Nat
      BY Constants
    <3>3. Cardinality(Holds(lock)) # 0
      BY <1>1, <1>2, <3>1, <3>2
    <3> QED  BY <3>3, FS_EmptySet
  <2> QED  BY <2>1, <2>2 DEF IInv, Accounted
<1> QED
  BY <1>3 DEF Holds

\* Who waits for a lock waits for a request that holds it and waits itself, for a
\* later name of its plan.
LEMMA WaitsForAnother ==
  ASSUME IInv, LinesInv, Still, NEW i \in Requests, waits[i] # None
  PROVE  \E j \in Requests : \E k \in DOMAIN granted[j] :
           kind[j] # None /\ Plan(j)[k] = waits[i][1]
<1>1. PICK h \in Requests : waits[h] = waits[i] /\ free[waits[i]] < Asked(h, waits[i][1])
  BY FirstWaiter
<1>2. waits[i] \in Locks
  BY DEF IInv, Shape
<1>3. PICK j \in Requests : \E k \in DOMAIN granted[j] : granted[j][k] = waits[i]
  BY <1>1, <1>2, HasHolder
<1>4. PICK k \in DOMAIN granted[j] : granted[j][k] = waits[i]
  BY <1>3
<1>5. kind[j] # None
  BY <1>4 DEF IInv, IdleOK
<1>6. granted[j][k][1] = Plan(j)[k]
  BY <1>4, <1>5 DEF LinesInv, Ordered
<1> QED  BY <1>4, <1>5, <1>6

\* Where a request under way stands in its plan, by what it holds and waits for.
LEMMA Standing ==
  ASSUME IInv, Ordered, Still, NEW i \in Requests, kind[i] # None
  PROVE  LET n    == Len(granted[i])
             name == waits[i][1]
         IN  /\ n \in Nat /\ DOMAIN granted[i] = 1..n
             /\ kind[i] \in {"data", "part"} =>
                  /\ n \in 0..2 /\ Plan(i)[1] = "session"
                  /\ n = 0 => name = "session"
                  /\ n = 1 => name \in {"data"} \cup Parts
                  /\ n = 2 => name = "slots"
                  /\ kind[i] = "data" => Plan(i)[2] = "data"
                  /\ kind[i] = "part" => Plan(i)[2] \in Parts
             /\ kind[i] = "one_block" =>
                  /\ n \in 0..4 /\ Plan(i)[1] = "session" /\ Plan(i)[2] = "data"
                  /\ Plan(i)[3] = "session" /\ Plan(i)[4] \in Parts
                  /\ n \in {0, 2} => name = "session"
                  /\ n = 1 => name = "data"
                  /\ n = 3 => name \in Parts
                  /\ n = 4 => name = "slots"
             /\ kind[i] = "finish" =>
                  /\ n \in 0..1 /\ Plan(i)[1] = "session"
                  /\ n = 0 => name = "session"
                  /\ n = 1 => name = "slots"
             /\ kind[i] = "abort" => n = 0 /\ name = "session"
<1>1. /\ kind[i] \in AllKinds /\ Len(granted[i]) \in Nat
      /\ DOMAIN granted[i] = 1..Len(granted[i]) /\ Len(granted[i]) < Len(Plan(i))
      /\ waits[i][1] = Plan(i)[Len(granted[i]) + 1]
  BY AllWait
<1>2. part[i] \in Parts /\ First \in Parts
  BY LocksAssumption DEF IInv, Shape
<1>3. PICK n \in Nat : n = Len(granted[i])
  BY <1>1
<1>4. PICK name : name = waits[i][1]
  OBVIOUS
<1>5. PICK plan : plan = Plan(i)
  OBVIOUS
<1>6. n < Len(plan) /\ name = plan[n + 1]
  BY <1>1, <1>3, <1>4, <1>5
<1>7. CASE kind[i] \in {"data", "part"}
  <2>1. /\ Len(plan) = 3 /\ plan[1] = "session" /\ plan[3] = "slots"
        /\ plan[2] = IF kind[i] = "data" THEN "data" ELSE part[i]
    BY <1>1, <1>2, <1>5, <1>7, PlanIs
  <2>2. n \in 0..2
    BY <1>6, <2>1
  <2>3. (n = 0 => name = "session") /\ (n = 1 => name = plan[2]) /\ (n = 2 => name = "slots")
    BY <1>6, <2>1
  <2> QED  BY <1>1, <1>2, <1>3, <1>4, <1>5, <1>7, <2>1, <2>2, <2>3
<1>8. CASE kind[i] = "one_block"
  <2>1. /\ Len(plan) = 5 /\ plan[1] = "session" /\ plan[2] = "data"
        /\ plan[3] = "session" /\ plan[4] = First /\ plan[5] = "slots"
    BY <1>1, <1>2, <1>5, <1>8, PlanIs
  <2>2. n \in 0..4
    BY <1>6, <2>1
  <2>3. /\ n \in {0, 2} => name = "session"
        /\ n = 1 => name = "data"
        /\ n = 3 => name = First
        /\ n = 4 => name = "slots"
    BY <1>6, <2>1
  <2> QED  BY <1>1, <1>2, <1>3, <1>4, <1>5, <1>8, <2>1, <2>2, <2>3
<1>9. CASE kind[i] = "finish"
  <2>1. Len(plan) = 2 /\ plan[1] = "session" /\ plan[2] = "slots"
    BY <1>1, <1>2, <1>5, <1>9, PlanIs
  <2>2. n \in 0..1
    BY <1>6, <2>1
  <2>3. (n = 0 => name = "session") /\ (n = 1 => name = "slots")
    BY <1>6, <2>1
  <2> QED  BY <1>1, <1>3, <1>4, <1>5, <1>9, <2>1, <2>2, <2>3
<1>10. CASE kind[i] = "abort"
  <2>1. Len(plan) = 1 /\ plan[1] = "session"
    BY <1>1, <1>2, <1>5, <1>10, PlanIs
  <2>2. n = 0 /\ name = "session"
    BY <1>6, <2>1
  <2> QED  BY <1>1, <1>3, <1>4, <1>10, <2>2
<1> QED
  BY <1>1, <1>7, <1>8, <1>9, <1>10 DEF AllKinds

\* When nobody can go on, nobody waits for an I/O slot or for a numbered part, and who
\* waits for the data mutex waits for a one-block PUT about to lock the session again.
LEMMA OnlySession ==
  ASSUME IInv, LinesInv, Still, NEW i \in Requests, waits[i] # None
  PROVE  /\ waits[i][1] \in {"session", "data"}
         /\ waits[i][1] = "data" =>
              \E o \in Requests : kind[o] = "one_block" /\ Len(granted[o]) = 2
<1> DEFINE Apart == Parts \cap {"session", "data", "slots"} = {}
<1>1. Apart
  BY LocksAssumption
<1>2. ASSUME NEW j \in Requests, waits[j] # None
      PROVE  waits[j][1] # "slots"
  <2>1. PICK m \in Requests : \E k \in DOMAIN granted[m] :
          kind[m] # None /\ Plan(m)[k] = waits[j][1]
    BY <1>2, WaitsForAnother
  <2>2. PICK k \in DOMAIN granted[m] : kind[m] # None /\ Plan(m)[k] = waits[j][1]
    BY <2>1
  <2>3. kind[m] \in AllKinds
    BY <2>2, AllWait DEF LinesInv
  <2> QED  BY <1>1, <2>2, <2>3, Standing DEF LinesInv, AllKinds
<1>3. ASSUME NEW j \in Requests, waits[j] # None
      PROVE  waits[j][1] \notin Parts
  <2>1. PICK m \in Requests : \E k \in DOMAIN granted[m] :
          kind[m] # None /\ Plan(m)[k] = waits[j][1]
    BY <1>3, WaitsForAnother
  <2>2. PICK k \in DOMAIN granted[m] : kind[m] # None /\ Plan(m)[k] = waits[j][1]
    BY <2>1
  <2>3. kind[m] \in AllKinds /\ waits[m] # None
    BY <2>2, AllWait, LocksAssumption DEF LinesInv
  <2>4. waits[m][1] # "slots"
    BY <1>2, <2>3
  <2> QED  BY <1>1, <2>2, <2>3, <2>4, Standing DEF LinesInv, AllKinds
<1>4. waits[i][1] \in {"session", "data"}
  <2>1. waits[i] \in Locks
    BY DEF IInv, Shape
  <2>2. waits[i][1] \in Names
    BY <2>1 DEF Locks
  <2> QED  BY <1>2, <1>3, <2>2 DEF Names
<1>5. ASSUME waits[i][1] = "data"
      PROVE  \E o \in Requests : kind[o] = "one_block" /\ Len(granted[o]) = 2
  <2>1. PICK m \in Requests : \E k \in DOMAIN granted[m] :
          kind[m] # None /\ Plan(m)[k] = "data"
    BY <1>5, WaitsForAnother
  <2>2. PICK k \in DOMAIN granted[m] : kind[m] # None /\ Plan(m)[k] = "data"
    BY <2>1
  <2>3. kind[m] \in AllKinds /\ waits[m] # None
    BY <2>2, AllWait, LocksAssumption DEF LinesInv
  <2>4. waits[m][1] # "slots" /\ waits[m][1] \notin Parts
    BY <1>2, <1>3, <2>3
  <2>5. kind[m] = "one_block" /\ Len(granted[m]) = 2
    BY <1>1, <2>2, <2>3, <2>4, Standing DEF LinesInv, AllKinds
  <2> QED  BY <2>5
<1> QED
  BY <1>4, <1>5

\* When nobody can go on, a one-block PUT holds the data mutex and waits for the session.
LEMMA OneBlockWaits ==
  ASSUME IInv, LinesInv, Still, NEW i \in Requests, NEW k \in DOMAIN granted[i],
         waits[i] # None, Plan(i)[k] = "session"
  PROVE  \E o \in Requests : kind[o] = "one_block" /\ Len(granted[o]) = 2
<1>1. kind[i] # None
  BY DEF IInv, IdleOK
<1>2. kind[i] \in AllKinds
  BY <1>1, AllWait DEF LinesInv
<1>3. waits[i][1] \in {"session", "data"}
  BY OnlySession
<1>4. CASE waits[i][1] = "data"
  BY <1>4, OnlySession
<1>5. CASE waits[i][1] = "session"
  <2>1. kind[i] = "one_block" /\ Len(granted[i]) = 2
    BY <1>1, <1>2, <1>5, Standing, LocksAssumption DEF LinesInv, AllKinds
  <2> QED  BY <2>1
<1> QED
  BY <1>3, <1>4, <1>5

\* A writer of the session that waits, waits for it: it holds nothing yet.
LEMMA WriterHoldsNothing ==
  ASSUME IInv, LinesInv, Still, NEW i \in Requests, kind[i] \in Lifecycle
  PROVE  DOMAIN granted[i] = {}
<1>1. kind[i] # None
  BY LocksAssumption DEF Lifecycle, AllKinds
<1>2. waits[i] # None
  BY <1>1, AllWait, LocksAssumption DEF LinesInv
<1>3. waits[i][1] # "slots"
  BY <1>2, OnlySession
<1> QED
  BY <1>1, <1>3, Standing DEF LinesInv, Lifecycle

\* Readers that wait leave permits of the session: each holds at most two, and the
\* first waiter at most one.
LEMMA ReadersLeavePermits ==
  ASSUME IInv, LinesInv, Still, NEW h \in Requests, waits[h] # None,
         waits[h][1] = "session"
  PROVE  free[waits[h]] # 0
<1>1. PICK lock \in Locks : lock = waits[h]
  BY DEF IInv, Shape
<1>2. CASE Owned(lock)
  <2>1. PICK g \in Holds(lock) : Writer(g[1], lock)
    BY <1>2 DEF Owned
  <2>2. g[1] \in Requests /\ g[2] \in DOMAIN granted[g[1]] /\ kind[g[1]] \in Lifecycle
    BY <2>1 DEF Holds, Writer
  <2> QED  BY <2>2, WriterHoldsNothing
<1>3. CASE Shared(lock)
  <2> DEFINE P == Requests \X {1, 3}
             Q == P \ {<< h, 3 >>}
  <2>1. Holds(lock) \subseteq Q
    <3> SUFFICES ASSUME NEW g \in Holds(lock)  PROVE g \in Q
      OBVIOUS
    <3>1. PICK j \in Requests, k \in Nat \ {0} : g = << j, k >>
      BY DEF Holds
    <3>2. k \in DOMAIN granted[j] /\ granted[j][k] = lock
      BY <3>1 DEF Holds
    <3>3. kind[j] # None
      BY <3>2 DEF IInv, IdleOK
    <3>4. kind[j] \in AllKinds /\ Plan(j)[k] = "session"
      <4>1. granted[j][k][1] = Plan(j)[k]
        BY <3>2, <3>3, AllWait DEF LinesInv
      <4> QED  BY <1>1, <3>2, <3>3, <4>1, AllWait DEF LinesInv
    <3>5. k \in {1, 3}
      BY <3>2, <3>3, <3>4, Standing, LocksAssumption DEF LinesInv, AllKinds
    <3>6. CASE j # h
      BY <3>1, <3>5, <3>6
    <3>7. CASE j = h
      <4>1. k # 3
        BY <3>2, <3>3, <3>4, <3>7, Standing, LocksAssumption DEF LinesInv, AllKinds
      <4> QED  BY <3>1, <3>5, <4>1
    <3> QED  BY <3>6, <3>7
  <2>2. IsFiniteSet({1, 3}) /\ Cardinality({1, 3}) = 2
    <3>1. IsFiniteSet({1}) /\ Cardinality({1}) = 1
      BY FS_Singleton
    <3>2. {1, 3} = {1} \cup {3} /\ 3 \notin {1}
      OBVIOUS
    <3> QED  BY <3>1, <3>2, FS_AddElement
  <2>3. IsFiniteSet(P) /\ Cardinality(P) = Cardinality(Requests) * 2
    BY <2>2, LocksAssumption, FS_Product
  <2>4. << h, 3 >> \in P
    OBVIOUS
  <2> HIDE DEF P
  <2>5. IsFiniteSet(Q) /\ Cardinality(Q) = Cardinality(P) - 1
    BY <2>3, <2>4, FS_RemoveElement
  <2> HIDE DEF Q
  <2>6. Cardinality(Holds(lock)) <= Cardinality(Q)
    BY <2>1, <2>5, FS_Subset
  <2>7. /\ Cardinality(Requests) \in Nat /\ Cardinality(Holds(lock)) \in Nat
        /\ Cardinality(Q) \in Nat
    BY <2>5, LocksAssumption, FS_CardinalityType DEF IInv, Accounted
  <2>8. free[lock] + Cardinality(Holds(lock)) = 2 * Cardinality(Requests)
    BY <1>1, <1>3 DEF Shared, Permits, MaxReads
  <2> QED  BY <1>1, <2>3, <2>5, <2>6, <2>7, <2>8
<1> QED
  BY <1>2, <1>3 DEF IInv, Accounted

LEMMA NobodyStandsStill ==
  ASSUME IInv, LinesInv  PROVE NoStandstill
<1> SUFFICES ASSUME NEW i \in Requests, kind[i] # None, Still
             PROVE  Entangled
  BY DEF NoStandstill, Still
<1>1. waits[i] # None
  BY AllWait, LocksAssumption DEF LinesInv
\* Somebody waits for the session's lock.
<1>2. PICK s \in Requests : waits[s] # None /\ waits[s][1] = "session"
  <2>1. CASE waits[i][1] = "session"
    BY <1>1, <2>1
  <2>2. CASE waits[i][1] = "data"
    <3>1. PICK o \in Requests : kind[o] = "one_block" /\ Len(granted[o]) = 2
      BY <1>1, <2>2, OnlySession
    <3>2. kind[o] # None
      BY <3>1, LocksAssumption DEF AllKinds
    <3>3. waits[o] # None /\ waits[o][1] = "session"
      BY <3>1, <3>2, AllWait, Standing, LocksAssumption DEF LinesInv
    <3> QED  BY <3>3
  <2> QED  BY <1>1, <2>1, <2>2, OnlySession
\* The first in that queue is a completion or an abort ...
<1>3. PICK h \in Requests :
        /\ kind[h] # None /\ waits[h] = waits[s] /\ Head(queue[waits[s]]) = h
        /\ free[waits[s]] < Asked(h, waits[s][1])
  BY <1>2, FirstWaiter
<1>4. waits[s] \in Locks /\ free[waits[s]] \in Nat
  BY <1>2 DEF IInv, Shape
<1>5. kind[h] \in Lifecycle
  <2>1. free[waits[s]] # 0
    BY <1>2, <1>3, ReadersLeavePermits
  <2> QED  BY <1>3, <1>4, <2>1 DEF Asked
\* ... and a reader that has the lock is, or waits for, a one-block PUT.
<1>6. PICK j \in Requests : \E k \in DOMAIN granted[j] :
        kind[j] # None /\ Plan(j)[k] = "session"
  BY <1>2, WaitsForAnother
<1>7. waits[j] # None
  BY <1>6, AllWait, LocksAssumption DEF LinesInv
<1>8. PICK o \in Requests : kind[o] = "one_block" /\ Len(granted[o]) = 2
  BY <1>6, <1>7, OneBlockWaits
<1>9. kind[o] # None
  BY <1>8, LocksAssumption DEF AllKinds
<1>10. waits[o] # None /\ waits[o][1] = "session" /\ waits[o] = << waits[o][1], entry[waits[o][1]] >>
  BY <1>8, <1>9, AllWait, Standing, LocksAssumption DEF LinesInv
<1>11. waits[s] = << waits[s][1], entry[waits[s][1]] >>
  <2>1. kind[s] # None
    BY <1>2 DEF IInv, IdleOK
  <2> QED  BY <2>1, AllWait DEF LinesInv
<1>12. waits[o] = waits[s]
  BY <1>2, <1>10, <1>11
<1> QED
  BY <1>3, <1>5, <1>8, <1>10, <1>12 DEF Entangled

\* Of the requests under way one can always go on (the order in which the handlers of
\* upload_routes.rs take the locks of state.rs:31), unless a one-block PUT is entangled
\* with a completion or an abort: for any number of requests, parts and slots, while the
\* maps forget locks and requests are dropped in the queues.
THEOREM LocksNeverStandStill == Spec => []NoStandstill
<1>1. Init => LinesInv
  BY InitLines
<1>2. IInv /\ LinesInv /\ [Next]_vars => LinesInv'
  BY LinesStep
<1>3. IInv /\ LinesInv => NoStandstill
  BY NobodyStandsStill
<1> QED
  BY <1>1, <1>2, <1>3, LocksInvariant, PTL DEF Spec
==============================================================================

---------------------------- MODULE FileTree_proof ----------------------------
(***************************************************************************)
(* What the tree promises, for any number of ids, names and requests: that *)
(* a request whose check was overtaken puts no more than its own item out  *)
(* of place; what is deleted; what the triggers count until then; and its  *)
(* types.                                                                  *)
(***************************************************************************)
EXTENDS FileTree, FiniteSetTheorems, TLAPS

\* A row in the trash, unless it is one of X: the item that was trashed, detached and
\* knowing where it was, or one below it that was trashed with it.
TrashShape(r, X) ==
  \A n \in Trashed(r) \ X :
    \/ r[n].troot = n /\ r[n].parent = None /\ r[n].restore # None
    \/ /\ r[n].troot # n
       /\ r[n].parent \in Trashed(r)
       /\ r[r[n].parent].troot = r[n].troot

RootKept(r) ==
  Root \in Live(r) /\ r[Root].parent = None /\ r[Root].ready = TRUE

InPlace(r, X) == \A n \in Live(r) \ ({Root} \cup X) : r[n].parent \in LiveDirs(r)

\* A tree in which no row but those of X is out of place.
Sound(r, X) ==
  r \in Table /\ RootKept(r) /\ InPlace(r, X) /\ TrashShape(r, X) /\ Acyclic(r, X)

Good(r) == Sound(r, {})

JobsOK ==
  /\ job \in [Handlers -> Jobs]
  /\ \A h \in Handlers :
       /\ job[h].op \in {"trash", "drop", "restore", "purge"} => job[h].node \in Nodes \ {Root}
       /\ job[h].op \in {"create", "restore"} => job[h].parent \in Dirs

TreeOK == Sound(row, stale) /\ Present(row) \subseteq used

IInv == stale \subseteq Nodes /\ JobsOK /\ TreeOK

-----------------------------------------------------------------------------
(* Descendants.                                                            *)

\* A set of rows that has x and whatever is right below one of its own.
Closed(r, R, x, S) == x \in S /\ \A m \in R : r[m].parent \in S => m \in S

Holders(r, R) == {r[m].parent : m \in R} \cap R
Whole(r, R, x) ==
  {D \in SUBSET Holders(r, R) :
     \A d \in Holders(r, R) : d = x \/ r[d].parent \in D => d \in D}

LEMMA BelowMembers ==
  ASSUME NEW r, NEW R, NEW x
  PROVE  Below(r, R, x) =
           {n \in R : x \in R /\ (n = x \/ \A D \in Whole(r, R, x) : r[n].parent \in D)}
  BY DEF Below, Whole, Holders

LEMMA BelowClosed ==
  ASSUME NEW r, NEW R, NEW x \in R
  PROVE  /\ x \in Below(r, R, x) /\ Below(r, R, x) \subseteq R
         /\ \A m \in R : r[m].parent \in Below(r, R, x) => m \in Below(r, R, x)
<1>1. x \in Below(r, R, x) /\ Below(r, R, x) \subseteq R
  BY BelowMembers
<1>2. ASSUME NEW m \in R, r[m].parent \in Below(r, R, x), NEW D \in Whole(r, R, x)
      PROVE  r[m].parent \in D
  <2>1. PICK d : d = r[m].parent
    OBVIOUS
  <2>2. d \in Holders(r, R)
    BY <1>1, <1>2, <2>1 DEF Holders
  <2>3. d = x \/ r[d].parent \in D
    BY <1>2, <2>1, BelowMembers
  <2> QED
    BY <1>2, <2>1, <2>2, <2>3 DEF Whole
<1> QED
  BY <1>1, <1>2, BelowMembers

LEMMA BelowInside ==
  ASSUME NEW r, NEW R, NEW x
  PROVE  Below(r, R, x) \subseteq R /\ (x \notin R => Below(r, R, x) = {})
  BY BelowMembers

LEMMA BelowLeast ==
  ASSUME NEW r, NEW R, NEW x, NEW S \in SUBSET R, Closed(r, R, x, S)
  PROVE  Below(r, R, x) \subseteq S
<1>1. S \cap Holders(r, R) \in Whole(r, R, x)
  BY DEF Closed, Holders, Whole
<1> QED
  BY <1>1, BelowMembers DEF Closed

\* Whatever is below x, and is not x, is right below something below x.
LEMMA BelowParent ==
  ASSUME NEW r, NEW R, NEW x, NEW m \in Below(r, R, x), m # x
  PROVE  r[m].parent \in Below(r, R, x)
<1> DEFINE B == Below(r, R, x)
           S == {y \in B : y = x \/ r[y].parent \in B}
<1>1. x \in R
  BY BelowMembers
<1>2. B \subseteq R /\ x \in B /\ \A y \in R : r[y].parent \in B => y \in B
  BY <1>1, BelowClosed
<1>3. S \in SUBSET R /\ Closed(r, R, x, S)
  BY <1>2 DEF Closed
<1>4. B \subseteq S
  <2> HIDE DEF S, B
  <2> QED
    BY <1>3, BelowLeast DEF B
<1> QED
  BY <1>4

-----------------------------------------------------------------------------
(* Tables that stay sound.                                                 *)

LEMMA ParentKept ==
  ASSUME NEW r, NEW X, Sound(r, X), NEW m \in Present(r) \ X
  PROVE  r[m].parent \in Present(r) \cup {None}
<1>1. CASE m = Root
  BY <1>1 DEF Sound, RootKept
<1>2. CASE m \in Live(r) \ {Root}
  BY <1>2 DEF Sound, InPlace, LiveDirs, Live
<1>3. CASE m \in Trashed(r)
  BY <1>3 DEF Sound, TrashShape, Trashed
<1> QED
  BY <1>1, <1>2, <1>3 DEF Live, Trashed

LEMMA SoundMore ==
  ASSUME NEW r, NEW X, NEW Y, X \subseteq Y, Sound(r, X)
  PROVE  Sound(r, Y)
BY DEF Sound, InPlace, TrashShape, Acyclic

\* What is in the trash has everything below it in the trash.
LEMMA TrashClosed ==
  ASSUME NEW r, NEW X, Sound(r, X), NEW m \in Present(r) \ X, r[m].parent \in Trashed(r)
  PROVE  /\ m \in Trashed(r) /\ r[m].troot # m
         /\ r[m].troot = r[r[m].parent].troot
<1> USE TreeAssumption
<1>1. m \in Trashed(r)
  <2>1. SUFFICES ASSUME m \in Live(r) PROVE FALSE
    BY DEF Live, Trashed
  <2>2. m # Root
    BY DEF Sound, RootKept, Trashed, Present, Nodes
  <2> QED
    BY <2>1, <2>2 DEF Sound, InPlace, LiveDirs, Live, Trashed
<1>2. r[m].parent # None
  BY DEF Trashed, Present, Nodes
<1> QED
  BY <1>1, <1>2 DEF Sound, TrashShape

\* An item in its place is no exception.
LEMMA Settled ==
  ASSUME NEW q, NEW X, NEW n \in Live(q), Sound(q, X \cup {n}),
         q[n].parent \in LiveDirs(q), Acyclic(q, X)
  PROVE  Sound(q, X)
<1>1. InPlace(q, X)
  BY DEF Sound, InPlace
<1>2. TrashShape(q, X)
  BY DEF Sound, TrashShape, Live, Trashed
<1> QED
  BY <1>1, <1>2 DEF Sound

\* A row is written that stays in the trash or out of it.
LEMMA StraySound ==
  ASSUME NEW r, NEW X, Sound(r, X), NEW n \in Present(r), n # Root,
         NEW x \in Rows, x.troot = r[n].troot
  PROVE  /\ Sound([r EXCEPT ![n] = x], X \cup {n})
         /\ Present([r EXCEPT ![n] = x]) = Present(r)
         /\ Live([r EXCEPT ![n] = x]) = Live(r)
<1> USE TreeAssumption
<1> DEFINE q == [r EXCEPT ![n] = x]
           Y == X \cup {n}
<1>1. n \in Nodes /\ x # None /\ r \in Table
  BY DEF Present, Sound
<1>2. q \in Table /\ q[n] = x /\ \A m \in Nodes \ {n} : q[m] = r[m]
  BY <1>1 DEF Table
<1> HIDE DEF q
<1>3. Present(q) = Present(r)
  BY <1>1, <1>2 DEF Present
<1>4. \A m \in Present(r) : q[m].troot = r[m].troot /\ (m # n => q[m] = r[m])
  BY <1>2 DEF Present
<1>5. /\ Live(q) = Live(r) /\ Trashed(q) = Trashed(r) /\ LiveDirs(q) = LiveDirs(r)
      /\ Live(r) \subseteq Present(r) /\ Trashed(r) \subseteq Present(r)
  BY <1>3, <1>4 DEF Live, Trashed, LiveDirs
<1>6. RootKept(q)
  BY <1>4, <1>5 DEF Sound, RootKept
<1>7. InPlace(q, Y)
  BY <1>4, <1>5 DEF Sound, InPlace
<1>8. TrashShape(q, Y)
  BY <1>4, <1>5 DEF Sound, TrashShape
<1>9. Acyclic(q, Y)
  BY <1>3, <1>4 DEF Sound, Acyclic
<1> QED
  BY <1>2, <1>3, <1>5, <1>6, <1>7, <1>8, <1>9 DEF Sound, q

\* Only names, sizes and the like change.
LEMMA SameShape ==
  ASSUME NEW r, NEW q \in Table, NEW X, Sound(r, X), q[Root].ready = TRUE,
         \A n \in Nodes : q[n] = None <=> r[n] = None,
         \A n \in Present(r) : /\ q[n].parent = r[n].parent
                               /\ q[n].troot = r[n].troot
                               /\ q[n].restore = r[n].restore
  PROVE  Sound(q, X)
<1>1. /\ Present(q) = Present(r) /\ Live(q) = Live(r) /\ Trashed(q) = Trashed(r)
      /\ LiveDirs(q) = LiveDirs(r)
  BY DEF Present, Live, Trashed, LiveDirs
<1>2. Root \in Present(r) /\ Live(r) \subseteq Present(r) /\ Trashed(r) \subseteq Present(r)
  BY DEF Sound, RootKept, Live, Trashed
<1>3. RootKept(q) /\ InPlace(q, X)
  BY <1>1, <1>2 DEF Sound, RootKept, InPlace
<1>4. TrashShape(q, X)
  BY <1>1, <1>2 DEF Sound, TrashShape
<1>5. Acyclic(q, X)
  BY <1>1 DEF Sound, Acyclic
<1> QED
  BY <1>3, <1>4, <1>5 DEF Sound

\* A new row: it is out of place at most itself, and not in a live directory.
LEMMA InsertSound ==
  ASSUME NEW r, NEW X, Sound(r, X), NEW x \in Nodes, r[x] = None, NEW p \in Dirs,
         NEW name \in Names, NEW ok \in BOOLEAN
  PROVE  /\ Sound([r EXCEPT ![x] = NewRow(p, name, ok)], X \cup {x})
         /\ p \in LiveDirs(r) => Sound([r EXCEPT ![x] = NewRow(p, name, ok)], X)
<1> USE TreeAssumption
<1> DEFINE q == [r EXCEPT ![x] = NewRow(p, name, ok)]
           Y == X \cup {x}
<1>1. r \in Table /\ Root \in Present(r) /\ x # Root
  BY DEF Sound, RootKept, Live, Present
<1>2. q \in Table /\ q[x] = NewRow(p, name, ok) /\ q[x] # None
      /\ \A n \in Nodes \ {x} : q[n] = r[n]
  <2>1. NewRow(p, name, ok) \in Rows
    BY DEF NewRow, Rows
  <2> QED
    BY <1>1, <2>1 DEF Table
<1> HIDE DEF q
<1>3. /\ Present(q) = Present(r) \cup {x} /\ Live(q) = Live(r) \cup {x}
      /\ Trashed(q) = Trashed(r) /\ LiveDirs(r) \subseteq LiveDirs(q)
  <2>1. Present(q) = Present(r) \cup {x}
    BY <1>2 DEF Present
  <2>2. q[x].troot = None /\ x \notin Present(r)
    BY <1>2 DEF NewRow, Present
  <2> QED
    BY <1>2, <2>1, <2>2 DEF Live, Trashed, LiveDirs, Present
<1>4. \A n \in Present(r) : q[n] = r[n] /\ n # x
  BY <1>2 DEF Present
<1>5. Live(r) \subseteq Present(r) /\ Trashed(r) \subseteq Present(r)
  BY DEF Live, Trashed
<1>6. RootKept(q)
  BY <1>1, <1>3, <1>4 DEF Sound, RootKept
<1>7. InPlace(q, Y)
  BY <1>3, <1>4, <1>5 DEF Sound, InPlace
<1>8. TrashShape(q, Y)
  BY <1>3, <1>4, <1>5 DEF Sound, TrashShape
<1>9. Acyclic(q, Y)
  <2>1. SUFFICES ASSUME NEW S \in SUBSET (Present(q) \ Y), S # {}
                 PROVE  \E n \in S : q[n].parent \notin S
    BY DEF Acyclic
  <2>2. S \in SUBSET (Present(r) \ X)
    BY <2>1, <1>3
  <2> QED
    BY <2>1, <2>2, <1>4 DEF Sound, Acyclic
<1>10. Sound(q, Y)
  BY <1>2, <1>6, <1>7, <1>8, <1>9 DEF Sound
<1>11. ASSUME p \in LiveDirs(r)
       PROVE  Sound(q, X)
  <2>1. q[x].parent = p /\ p # x /\ p \in LiveDirs(q) /\ p \in Present(r)
    BY <1>2, <1>3, <1>4, <1>5, <1>11 DEF NewRow, LiveDirs
  <2>2. Acyclic(q, X)
    <3>1. SUFFICES ASSUME NEW S \in SUBSET (Present(q) \ X), S # {},
                          \A n \in S : q[n].parent \in S
                   PROVE  FALSE
      BY DEF Acyclic
    <3>2. S \ {x} # {} /\ S \ {x} \in SUBSET (Present(r) \ X)
      BY <1>3, <2>1, <3>1
    <3>3. PICK n \in S \ {x} : r[n].parent \notin S \ {x}
      BY <3>2 DEF Sound, Acyclic
    <3>4. n \in Present(r) \ X /\ r[n].parent = x
      BY <3>1, <3>2, <3>3, <1>4
    <3>5. r[n].parent \in Present(r) \cup {None}
      BY <3>4, ParentKept
    <3> QED
      BY <3>4, <3>5 DEF Present, Nodes
  <2>3. x \in Live(q)
    BY <1>3
  <2> QED
    BY <1>10, <2>1, <2>2, <2>3, Settled
<1> QED
  BY <1>10, <1>11 DEF q

\* Rows go, and nothing that stays hangs below them.
LEMMA ErasedSound ==
  ASSUME NEW r, NEW X, Sound(r, X), NEW S \in SUBSET Nodes, Root \notin S,
         \A m \in Present(r) : r[m].parent \in S => m \in S
  PROVE  Sound(Erased(r, S), X)
<1> USE TreeAssumption
<1> DEFINE q == Erased(r, S)
<1>1. q \in Table /\ \A n \in Nodes \ S : q[n] = r[n]
  BY DEF Erased, Table, Sound
<1>2. /\ Present(q) = Present(r) \ S /\ Live(q) = Live(r) \ S
      /\ Trashed(q) = Trashed(r) \ S /\ LiveDirs(q) = LiveDirs(r) \ S
  BY DEF Erased, Present, Live, Trashed, LiveDirs
<1>3. \A n \in Present(q) : q[n] = r[n] /\ r[n].parent \notin S
  BY <1>1, <1>2 DEF Present
<1>4. Live(q) \subseteq Present(q) /\ Trashed(q) \subseteq Present(q)
  BY DEF Live, Trashed
<1>5. RootKept(q)
  BY <1>2, <1>3, <1>4 DEF Sound, RootKept
<1>6. InPlace(q, X)
  BY <1>2, <1>3, <1>4 DEF Sound, InPlace
<1>7. TrashShape(q, X)
  <2>1. SUFFICES ASSUME NEW n \in Trashed(q) \ X
                 PROVE \/ q[n].troot = n /\ q[n].parent = None /\ q[n].restore # None
                       \/ /\ q[n].troot # n /\ q[n].parent \in Trashed(q)
                          /\ q[q[n].parent].troot = q[n].troot
    BY DEF TrashShape
  <2>2. n \in Trashed(r) \ X /\ q[n] = r[n] /\ r[n].parent \notin S
    BY <1>2, <1>3, <1>4
  <2>3. CASE r[n].parent \in Trashed(r) /\ r[n].troot # n
    <3>1. r[n].parent \in Trashed(q) /\ q[r[n].parent] = r[r[n].parent]
      BY <2>2, <2>3, <1>2, <1>3, <1>4
    <3>2. r[r[n].parent].troot = r[n].troot
      BY <2>2, <2>3 DEF Sound, TrashShape
    <3> QED
      BY <2>2, <2>3, <3>1, <3>2
  <2> QED
    BY <2>2, <2>3 DEF Sound, TrashShape
<1>8. Acyclic(q, X)
  BY <1>2, <1>3 DEF Sound, Acyclic
<1> QED
  BY <1>1, <1>5, <1>6, <1>7, <1>8 DEF Sound

\* Rows with one hung elsewhere, but not below itself, are still without a cycle.
LEMMA MovedAcyclic ==
  ASSUME NEW r, NEW X, Acyclic(r, X), NEW n \in Present(r), NEW p,
         p \notin Below(r, Present(r), n),
         NEW q, Present(q) = Present(r), q[n].parent = p,
         \A m \in Present(r) \ {n} : q[m].parent = r[m].parent
  PROVE  Acyclic(q, X)
<1> DEFINE B == Below(r, Present(r), n)
<1>1. SUFFICES ASSUME NEW S \in SUBSET (Present(r) \ X), S # {}
               PROVE \E m \in S : q[m].parent \notin S
  BY DEF Acyclic
<1>2. CASE n \notin S
  BY <1>1, <1>2 DEF Acyclic
<1>3. CASE n \in S /\ p \notin S
  BY <1>3
<1>4. CASE n \in S /\ p \in S
  <2>1. S \ B # {} /\ S \ B \in SUBSET (Present(r) \ X)
    BY <1>4
  <2>2. PICK m \in S \ B : r[m].parent \notin S \ B
    BY <2>1 DEF Acyclic
  <2>3. m # n /\ r[m].parent \notin B
    BY <2>1, <2>2, BelowClosed
  <2> QED
    BY <2>2, <2>3
<1> QED
  BY <1>2, <1>3, <1>4

\* A file has nothing below it.
LEMMA FileBelow ==
  ASSUME NEW r \in Table, NEW n \in Files, n \in Present(r)
  PROVE  Below(r, Present(r), n) \subseteq {n}
<1> USE TreeAssumption
<1>1. \A m \in Present(r) : r[m].parent \in Dirs \cup {None}
  BY DEF Table, Rows, Present
<1>2. Closed(r, Present(r), n, {n})
  BY <1>1 DEF Closed
<1> QED
  BY <1>2, BelowLeast

\* A row hung elsewhere, otherwise as it was.
LEMMA MovedRow ==
  ASSUME NEW r \in Table, NEW n \in Present(r), NEW p \in Dirs
  PROVE  \E x \in Rows : /\ Moved(r, n, p) = [r EXCEPT ![n] = x]
                         /\ x.parent = p /\ x.troot = r[n].troot
<1>1. r[n] \in Rows
  BY TreeAssumption DEF Present, Table
<1>2. PICK x : x = [r[n] EXCEPT !.parent = p]
  OBVIOUS
<1>3. x \in Rows /\ x.parent = p /\ x.troot = r[n].troot
  BY <1>1, <1>2 DEF Rows
<1>4. Moved(r, n, p) = [r EXCEPT ![n] = x]
  BY <1>2 DEF Moved
<1> QED
  BY <1>3, <1>4

LEMMA MovedSound ==
  ASSUME NEW r, NEW X, Sound(r, X), NEW n \in Live(r) \ {Root}, NEW p \in LiveDirs(r),
         p \notin Below(r, Present(r), n)
  PROVE  Sound(Moved(r, n, p), X)
<1>1. n \in Nodes /\ n \in Present(r) /\ p \in Dirs /\ r \in Table
  BY DEF Sound, Live, Present, LiveDirs
<1>2. PICK x \in Rows : /\ Moved(r, n, p) = [r EXCEPT ![n] = x]
                        /\ x.parent = p /\ x.troot = r[n].troot
  BY <1>1, MovedRow
<1>3. PICK q : q = [r EXCEPT ![n] = x]
  OBVIOUS
<1>4. Sound(q, X \cup {n}) /\ Present(q) = Present(r) /\ Live(q) = Live(r)
  BY <1>1, <1>2, <1>3, StraySound
<1>5. q[n].parent = p /\ \A m \in Present(r) \ {n} : q[m].parent = r[m].parent
  BY <1>1, <1>2, <1>3 DEF Table, Present
<1>6. Acyclic(q, X)
  BY <1>1, <1>4, <1>5, MovedAcyclic DEF Sound
<1>7. n \in Live(q) /\ q[n].parent \in LiveDirs(q)
  BY <1>4, <1>5 DEF LiveDirs
<1> QED
  BY <1>2, <1>3, <1>4, <1>6, <1>7, Settled

\* What was trashed with an item comes back.
LEMMA ClearedRows ==
  ASSUME NEW s \in Table, NEW n \in Nodes, NEW T,
         T = {m \in Trashed(s) : s[m].troot = n}
  PROVE  /\ Cleared(s, n) \in Table
         /\ \A m \in Nodes \ T : Cleared(s, n)[m] = s[m]
         /\ \A m \in T : Cleared(s, n)[m].parent = s[m].parent
         /\ Present(Cleared(s, n)) = Present(s)
         /\ Live(Cleared(s, n)) = Live(s) \cup T
         /\ Trashed(Cleared(s, n)) = Trashed(s) \ T
<1> USE TreeAssumption
<1> DEFINE q == Cleared(s, n)
<1>1. T \subseteq Present(s) /\ T \subseteq Nodes /\ T \cap Live(s) = {}
  BY DEF Trashed, Present, Live
<1>2. q = [m \in Nodes |-> IF m \in T THEN [s[m] EXCEPT !.troot = None, !.restore = None]
                           ELSE s[m]]
  BY DEF Cleared
<1> HIDE DEF q
<1>3. \A m \in T : q[m] \in Rows /\ q[m].troot = None /\ q[m].parent = s[m].parent
  <2>1. SUFFICES ASSUME NEW m \in T
                 PROVE  q[m] \in Rows /\ q[m].troot = None /\ q[m].parent = s[m].parent
    OBVIOUS
  <2>2. PICK x \in Rows : x = s[m]
    BY <1>1 DEF Table, Present
  <2>3. q[m] = [x EXCEPT !.troot = None, !.restore = None]
    BY <1>1, <1>2, <2>2
  <2> QED
    BY <2>2, <2>3 DEF Rows
<1>4. \A m \in Nodes \ T : q[m] = s[m]
  BY <1>2
<1>5. q \in Table
  <2>1. \A m \in Nodes : q[m] \in Rows \cup {None}
    BY <1>3, <1>4 DEF Table
  <2>2. q = [m \in Nodes |-> q[m]]
    BY <1>2
  <2> QED
    BY <2>1, <2>2 DEF Table
<1>6. Present(q) = Present(s)
  BY <1>1, <1>3, <1>4 DEF Present
<1>7. Live(q) = Live(s) \cup T
  BY <1>1, <1>3, <1>4, <1>6 DEF Live, Trashed, Present
<1>8. Trashed(q) = Trashed(s) \ T
  BY <1>1, <1>3, <1>4, <1>6 DEF Trashed, Present
<1> QED
  BY <1>3, <1>4, <1>5, <1>6, <1>7, <1>8 DEF q

\* Nothing but the item itself is out of place for it.
LEMMA ClearedSound ==
  ASSUME NEW s, NEW X, Sound(s, X), NEW n \in Nodes, n \in X
  PROVE  Sound(Cleared(s, n), X)
<1> USE TreeAssumption
<1>1. PICK q, T : q = Cleared(s, n) /\ T = {m \in Trashed(s) : s[m].troot = n}
  OBVIOUS
<1>2. /\ q \in Table /\ Present(q) = Present(s)
      /\ Live(q) = Live(s) \cup T /\ Trashed(q) = Trashed(s) \ T
      /\ \A m \in Nodes \ T : q[m] = s[m]
      /\ \A m \in T : q[m].parent = s[m].parent
  <2>1. s \in Table
    BY DEF Sound
  <2> QED
    BY <1>1, <2>1, ClearedRows
<1>3. \A m \in Live(s) : m \in Nodes /\ m \notin T
  BY <1>1 DEF Live, Trashed, Present
<1>4. \A m \in Trashed(q) : m \in Trashed(s) /\ q[m] = s[m] /\ s[m].troot # n
  BY <1>1, <1>2 DEF Trashed, Present
<1>5. RootKept(q)
  BY <1>2, <1>3 DEF Sound, RootKept
<1>6. InPlace(q, X)
  <2>1. SUFFICES ASSUME NEW m \in Live(q) \ ({Root} \cup X)
                 PROVE  q[m].parent \in LiveDirs(q)
    BY DEF InPlace
  <2>2. CASE m \in Live(s)
    BY <2>1, <2>2, <1>2, <1>3 DEF Sound, InPlace, LiveDirs
  <2>3. CASE m \in T
    <3>1. s[m].parent \in T /\ m \in Nodes /\ s[m] \in Rows
      BY <1>1, <2>1, <2>3 DEF Sound, TrashShape, Trashed, Present, Table
    <3>2. s[m].parent \in Dirs
      BY <1>1, <3>1 DEF Rows, Trashed, Present, Nodes
    <3> QED
      BY <1>2, <2>3, <3>1, <3>2 DEF LiveDirs
  <2> QED
    BY <2>1, <2>2, <2>3, <1>2
<1>7. TrashShape(q, X)
  <2>1. SUFFICES ASSUME NEW m \in Trashed(q) \ X
                 PROVE \/ q[m].troot = m /\ q[m].parent = None /\ q[m].restore # None
                       \/ /\ q[m].troot # m /\ q[m].parent \in Trashed(q)
                          /\ q[q[m].parent].troot = q[m].troot
    BY DEF TrashShape
  <2>2. m \in Trashed(s) \ X /\ q[m] = s[m] /\ s[m].troot # n
    BY <1>4
  <2>3. CASE s[m].troot # m /\ s[m].parent \in Trashed(s)
    <3>1. s[s[m].parent].troot = s[m].troot
      BY <2>2, <2>3 DEF Sound, TrashShape
    <3>2. s[m].parent \in Trashed(q) /\ q[s[m].parent] = s[s[m].parent]
      BY <1>1, <1>2, <2>2, <2>3, <3>1 DEF Trashed, Present
    <3> QED
      BY <2>2, <2>3, <3>1, <3>2
  <2> QED
    BY <2>2, <2>3 DEF Sound, TrashShape
<1>8. Acyclic(q, X)
  BY <1>1, <1>2 DEF Sound, Acyclic, Present
<1> QED
  BY <1>1, <1>2, <1>5, <1>6, <1>7, <1>8 DEF Sound

\* A restore, whatever it had found: the item may be out of place, and is not when it
\* was listed and its directory is live.
LEMMA RestoredSound ==
  ASSUME NEW r, NEW X, Sound(r, X), NEW n \in Present(r), n # Root, NEW p \in Dirs
  PROVE  /\ Sound(Restored(r, n, p), X \cup {n})
         /\ Present(Restored(r, n, p)) = Present(r)
         /\ n \in Listed(r) /\ p \in LiveDirs(r) => Sound(Restored(r, n, p), X)
<1> USE TreeAssumption
<1>1. n \in Nodes /\ r \in Table /\ n # None
  BY DEF Sound, Present, Nodes
<1>2. PICK x \in Rows : /\ Moved(r, n, p) = [r EXCEPT ![n] = x]
                        /\ x.parent = p /\ x.troot = r[n].troot
  BY <1>1, MovedRow
<1>3. PICK s : s = [r EXCEPT ![n] = x]
  OBVIOUS
<1>4. PICK q, T : q = Cleared(s, n) /\ T = {m \in Trashed(s) : s[m].troot = n}
  OBVIOUS
<1>5. Sound(s, X \cup {n}) /\ Present(s) = Present(r) /\ Live(s) = Live(r)
  BY <1>2, <1>3, StraySound
<1>6. s[n] = x /\ \A m \in Nodes \ {n} : s[m] = r[m]
  BY <1>1, <1>3 DEF Table
<1>7. /\ q \in Table /\ Present(q) = Present(s)
      /\ Live(q) = Live(s) \cup T
      /\ \A m \in Nodes \ T : q[m] = s[m]
      /\ \A m \in T : q[m].parent = s[m].parent
  <2>1. s \in Table
    BY <1>5 DEF Sound
  <2> QED
    BY <1>1, <1>4, <2>1, ClearedRows
<1>8. Sound(q, X \cup {n})
  BY <1>1, <1>4, <1>5, ClearedSound
<1>9. ASSUME n \in Listed(r), p \in LiveDirs(r)
      PROVE  Sound(q, X)
  <2>1. n \in T /\ n \notin Live(r)
    BY <1>1, <1>2, <1>4, <1>5, <1>6, <1>9 DEF Listed, Live, Trashed
  <2>2. T \subseteq Nodes
    BY <1>4 DEF Trashed, Present
  <2>3. q[n].parent = p /\ \A m \in Nodes \ {n} : q[m].parent = r[m].parent
    BY <1>2, <1>6, <1>7, <2>1, <2>2
  <2>4. n \in Live(q) /\ q[n].parent \in LiveDirs(q)
    BY <1>5, <1>7, <1>9, <2>1, <2>3 DEF LiveDirs
  <2>5. Acyclic(q, X)
    <3>1. SUFFICES ASSUME NEW S \in SUBSET (Present(r) \ X), S # {},
                          \A m \in S : q[m].parent \in S
                   PROVE  FALSE
      BY <1>5, <1>7 DEF Acyclic
    <3>2. \A m \in S \ {n} : r[m].parent \in S
      BY <2>3, <3>1 DEF Present
    <3>3. PICK k \in S : r[k].parent \notin S
      BY <3>1 DEF Sound, Acyclic
    <3>4. k = n /\ p \in S
      BY <2>3, <3>1, <3>2, <3>3
    <3> DEFINE L == S \cap Live(r)
    <3>5. L # {} /\ L \in SUBSET (Present(r) \ X)
      BY <1>9, <3>1, <3>4 DEF LiveDirs
    <3>6. PICK m \in L : r[m].parent \notin L
      BY <3>5 DEF Sound, Acyclic
    <3>7. m # n /\ r[m].parent \in S
      BY <2>1, <3>2, <3>6
    <3>8. m # Root
      <4>1. None \notin S
        BY <3>1 DEF Present, Nodes
      <4> QED
        BY <3>7, <4>1 DEF Sound, RootKept
    <3>9. r[m].parent \in Live(r)
      BY <3>5, <3>6, <3>8 DEF Sound, InPlace, LiveDirs
    <3> QED
      BY <3>6, <3>7, <3>9
  <2> QED
    BY <1>8, <2>4, <2>5, Settled
<1>10. q = Restored(r, n, p)
  BY <1>2, <1>3, <1>4 DEF Restored
<1> QED
  BY <1>5, <1>7, <1>8, <1>9, <1>10

\* A live subtree goes to the trash as one item.
LEMMA DiscardedSound ==
  ASSUME NEW r, NEW X, Sound(r, X), NEW n \in Live(r) \ {Root}
  PROVE  Sound(Discarded(r, n), X) /\ Present(Discarded(r, n)) = Present(r)
<1> USE TreeAssumption
<1> DEFINE T == Below(r, Live(r), n)
           q == Discarded(r, n)
<1>1. /\ n \in T /\ T \subseteq Live(r) /\ T \subseteq Nodes /\ n \in Nodes /\ n # None
      /\ \A m \in Live(r) : r[m].parent \in T => m \in T
  BY BelowClosed DEF Live, Present, Nodes
<1>2. \A m \in T \ {n} : r[m].parent \in T
  BY BelowParent
<1>3. \A m \in T : r[m] \in Rows /\ r[m] # None
  BY <1>1 DEF Sound, Table, Live, Present
<1>4. r[n].parent \in Dirs \cup {None} /\ (n \notin X => r[n].parent \in Dirs)
  <2>1. n \notin X => r[n].parent \in Dirs
    BY DEF Sound, InPlace, LiveDirs
  <2>2. r[n] \in Rows
    BY <1>1, <1>3
  <2> QED
    BY <2>1, <2>2 DEF Rows
<1> DEFINE marked == [m \in Nodes |-> IF m \in T THEN [r[m] EXCEPT !.troot = n] ELSE r[m]]
<1>5. /\ \A m \in T : /\ marked[m] \in Rows /\ marked[m].parent = r[m].parent
                       /\ marked[m].troot = n
      /\ \A m \in Nodes \ T : marked[m] = r[m]
  <2>1. SUFFICES ASSUME NEW m \in T
                 PROVE  marked[m] \in Rows /\ marked[m].parent = r[m].parent /\ marked[m].troot = n
    BY <1>1
  <2>2. marked[m] = [r[m] EXCEPT !.troot = n] /\ r[m] \in Rows
    BY <1>1, <1>3, <2>1
  <2> QED
    BY <1>1, <2>2 DEF Rows
<1>6. marked \in Table
  <2>1. \A m \in Nodes : marked[m] \in Rows \cup {None}
    BY <1>5 DEF Sound, Table
  <2> QED
    BY <2>1 DEF Table
<1>7. q = [marked EXCEPT ![n] = [marked[n] EXCEPT !.restore = r[n].parent, !.parent = None]]
  BY DEF Discarded
<1>8. PICK s \in Table : s = marked
  BY <1>6
<1>9. /\ q \in Table /\ q[n] # None /\ q[n].parent = None /\ q[n].troot = n
      /\ q[n].restore = r[n].parent
      /\ \A m \in Nodes \ {n} : q[m] = s[m]
  <2>1. PICK x \in Rows : x = s[n]
    BY <1>1, <1>5, <1>8
  <2>2. q = [s EXCEPT ![n] = [x EXCEPT !.restore = r[n].parent, !.parent = None]]
    BY <1>7, <1>8, <2>1
  <2>3. /\ [x EXCEPT !.restore = r[n].parent, !.parent = None] \in Rows
        /\ x.troot = n
    BY <1>1, <1>4, <1>5, <1>8, <2>1 DEF Rows
  <2> HIDE DEF q
  <2>4. q \in Table /\ \A m \in Nodes \ {n} : q[m] = s[m]
    BY <2>2, <2>3, <1>1 DEF Table
  <2>5. q[n] = [x EXCEPT !.restore = r[n].parent, !.parent = None]
    BY <2>2, <1>1 DEF Table
  <2> QED
    BY <2>3, <2>4, <2>5 DEF Rows
<1>10. \A m \in T \ {n} : q[m] \in Rows /\ q[m].parent = r[m].parent /\ q[m].troot = n
  BY <1>1, <1>5, <1>8, <1>9
<1>11. \A m \in Nodes \ T : q[m] = r[m]
  BY <1>1, <1>5, <1>8, <1>9
<1> HIDE DEF q, marked, T
<1>12. Present(q) = Present(r)
  <2>1. \A m \in T : q[m] # None /\ m \in Present(r)
    BY <1>1, <1>9, <1>10 DEF Live
  <2> QED
    BY <2>1, <1>1, <1>11 DEF Present
<1>13. Live(q) = Live(r) \ T /\ Trashed(q) = Trashed(r) \cup T
  <2>1. \A m \in T : q[m].troot # None /\ m \in Present(r)
    BY <1>1, <1>9, <1>10 DEF Live
  <2> QED
    BY <2>1, <1>11, <1>12 DEF Live, Trashed, Present
<1>14. \A m \in Live(q) : m \in Live(r) /\ q[m] = r[m] /\ r[m].parent \notin T
  BY <1>1, <1>11, <1>13 DEF Live, Present
<1>15. RootKept(q)
  <2>1. Root \notin T
    <3>1. n # Root /\ r[Root].parent = None /\ None \notin T
      BY <1>1 DEF Sound, RootKept, Nodes
    <3> QED
      BY <3>1, <1>2
  <2> QED
    BY <2>1, <1>13, <1>14 DEF Sound, RootKept
<1>16. InPlace(q, X)
  BY <1>13, <1>14 DEF Sound, InPlace, LiveDirs
<1>17. TrashShape(q, X)
  <2>1. SUFFICES ASSUME NEW m \in Trashed(q) \ X
                 PROVE \/ q[m].troot = m /\ q[m].parent = None /\ q[m].restore # None
                       \/ /\ q[m].troot # m /\ q[m].parent \in Trashed(q)
                          /\ q[q[m].parent].troot = q[m].troot
    BY DEF TrashShape
  <2>2. CASE m = n
    BY <2>1, <2>2, <1>4, <1>9
  <2>3. CASE m \in T \ {n}
    BY <2>3, <1>2, <1>9, <1>10, <1>13
  <2>4. CASE m \notin T
    <3>1. m \in Trashed(r) /\ m \in Nodes /\ q[m] = r[m]
      BY <2>1, <2>4, <1>11, <1>13 DEF Trashed, Present
    <3>2. \A k \in Trashed(r) : k \in Trashed(q) /\ q[k] = r[k]
      BY <1>1, <1>11, <1>13 DEF Trashed, Live, Present
    <3> QED
      BY <3>1, <3>2 DEF Sound, TrashShape
  <2> QED
    BY <2>2, <2>3, <2>4
<1>18. Acyclic(q, X)
  <2>1. SUFFICES ASSUME NEW S \in SUBSET (Present(r) \ X), S # {}
                 PROVE \E m \in S : q[m].parent \notin S
    BY <1>12 DEF Acyclic
  <2>2. PICK m \in S : r[m].parent \notin S
    BY <2>1 DEF Sound, Acyclic
  <2>3. m \in Nodes
    BY <2>1 DEF Present
  <2>4. None \notin S
    BY <2>1 DEF Present, Nodes
  <2> QED
    BY <2>2, <2>3, <2>4, <1>9, <1>10, <1>11
<1> QED
  BY <1>9, <1>12, <1>15, <1>16, <1>17, <1>18 DEF Sound, q

\* An item that is in the trash already is detached all the same.
LEMMA DiscardedStray ==
  ASSUME NEW r, NEW X, Sound(r, X), NEW n \in Trashed(r)
  PROVE  Sound(Discarded(r, n), X \cup {n}) /\ Present(Discarded(r, n)) = Present(r)
<1> USE TreeAssumption
<1>1. n \in Present(r) /\ n \notin Live(r) /\ n \in Nodes /\ n # Root /\ r \in Table
  BY DEF Trashed, Live, Present, Sound, RootKept
<1>2. r[n] \in Rows /\ r[n].parent \in Dirs \cup {None}
  BY <1>1 DEF Table, Present, Rows
<1>3. PICK x : x = [r[n] EXCEPT !.restore = r[n].parent, !.parent = None]
  OBVIOUS
<1>4. x \in Rows /\ x.troot = r[n].troot
  BY <1>2, <1>3 DEF Rows
<1>5. Discarded(r, n) = [r EXCEPT ![n] = x]
  <2>1. PICK marked :
          marked = [m \in Nodes |->
                      IF m \in Below(r, Live(r), n) THEN [r[m] EXCEPT !.troot = n] ELSE r[m]]
    OBVIOUS
  <2>2. Below(r, Live(r), n) = {}
    BY <1>1 DEF Below
  <2>3. marked = r
    BY <1>1, <2>1, <2>2 DEF Table
  <2>4. Discarded(r, n) = [marked EXCEPT ![n].restore = r[n].parent, ![n].parent = None]
    BY <2>1 DEF Discarded
  <2> QED
    BY <1>1, <1>3, <2>3, <2>4 DEF Table
<1>6. PICK q : q = [r EXCEPT ![n] = x]
  OBVIOUS
<1>7. Sound(q, X \cup {n}) /\ Present(q) = Present(r)
  BY <1>1, <1>4, <1>6, StraySound
<1> QED
  BY <1>5, <1>6, <1>7

\* A copy of a live, finished subtree under new ids.
LEMMA CopiedSound ==
  ASSUME NEW X, Sound(row, X), NEW n \in Live(row) \ {Root}, NEW p \in LiveDirs(row),
         NEW name \in Names,
         NEW f \in [Below(row, Live(row), n) -> Nodes \ Present(row)],
         \A o, k \in Below(row, Live(row), n) : o # k => f[o] # f[k],
         \A o \in Below(row, Live(row), n) : f[o] \in Dirs <=> o \in Dirs
  PROVE  Sound(Copied(Below(row, Live(row), n), n, f, p, name), X)
<1> USE TreeAssumption
<1>1. PICK O : O = Below(row, Live(row), n)
  OBVIOUS
<1> DEFINE q == Copied(O, n, f, p, name)
           C == {f[o] : o \in O}
<1>2. /\ n \in O /\ O \subseteq Live(row) /\ O \subseteq Present(row) /\ n # Root
      /\ \A o \in O \ {n} : row[o].parent \in O
  <2>1. Live(row) \subseteq Present(row)
    BY DEF Live
  <2> QED
    BY <1>1, <2>1, BelowClosed, BelowParent
<1>3. /\ f \in [O -> Nodes \ Present(row)]
      /\ \A o, k \in O : o # k => f[o] # f[k]
      /\ \A o \in O : f[o] \in Dirs <=> o \in Dirs
  BY <1>1
<1>4. C \subseteq Nodes \ Present(row)
  BY <1>3
<1>5. \A o \in O \ {n} : row[o].parent \in Dirs /\ f[row[o].parent] \in Dirs
  <2>1. SUFFICES ASSUME NEW o \in O \ {n}
                 PROVE row[o].parent \in Dirs /\ f[row[o].parent] \in Dirs
    OBVIOUS
  <2>2. row[o].parent \in O /\ row[o] \in Rows
    BY <1>2 DEF Sound, Table, Present
  <2>3. row[o].parent \in Dirs
    BY <1>2, <2>2 DEF Rows, Present, Nodes
  <2> QED
    BY <1>3, <2>2, <2>3
<1>6. \A o \in O \ {n} : q[f[o]] = NewRow(f[row[o].parent], row[o].name, TRUE)
  <2>1. SUFFICES ASSUME NEW o \in O \ {n}
                 PROVE q[f[o]] = NewRow(f[row[o].parent], row[o].name, TRUE)
    OBVIOUS
  <2>2. f[o] \in Nodes /\ (CHOOSE k \in O : f[k] = f[o]) = o
    BY <1>3
  <2> QED
    BY <2>1, <2>2 DEF Copied
<1>7. q[f[n]] = NewRow(p, name, TRUE)
  <2>1. f[n] \in Nodes /\ (CHOOSE k \in O : f[k] = f[n]) = n
    BY <1>2, <1>3
  <2> QED
    BY <1>2, <2>1 DEF Copied
<1>8. \A m \in Nodes \ C : q[m] = row[m]
  <2>1. SUFFICES ASSUME NEW m \in Nodes \ C PROVE q[m] = row[m]
    OBVIOUS
  <2>2. ~\E o \in O : f[o] = m
    BY <2>1
  <2> QED
    BY <2>1, <2>2 DEF Copied
<1>9. \A m \in C : q[m] \in Rows /\ q[m].troot = None
  <2>1. SUFFICES ASSUME NEW o \in O PROVE q[f[o]] \in Rows /\ q[f[o]].troot = None
    OBVIOUS
  <2>2. row[o].name \in Names \cup {None} /\ p \in Dirs
    <3>1. row[o] \in Rows
      BY <1>2 DEF Sound, Table, Present
    <3> QED
      BY <3>1 DEF Rows, LiveDirs
  <2> HIDE DEF q
  <2>3. CASE o = n
    BY <2>2, <2>3, <1>7 DEF NewRow, Rows
  <2>4. CASE o # n
    <3>1. q[f[o]] = NewRow(f[row[o].parent], row[o].name, TRUE) /\ f[row[o].parent] \in Dirs
      BY <2>4, <1>5, <1>6
    <3> QED
      BY <3>1, <2>2 DEF NewRow, Rows
  <2> QED
    BY <2>3, <2>4
<1>10. q \in Table
  <2>1. \A m \in Nodes : q[m] \in Rows \cup {None}
    BY <1>8, <1>9 DEF Sound, Table
  <2>2. q = [m \in Nodes |-> q[m]]
    BY DEF Copied
  <2> HIDE DEF q
  <2> QED
    BY <2>1, <2>2 DEF Table
<1> HIDE DEF q
<1>11. Present(q) = Present(row) \cup C
  BY <1>4, <1>8, <1>9 DEF Present
<1>12. Live(q) = Live(row) \cup C /\ Trashed(q) = Trashed(row)
  BY <1>4, <1>8, <1>9, <1>11 DEF Live, Trashed, Present
<1>13. \A m \in Present(row) : q[m] = row[m] /\ m \notin C
  BY <1>4, <1>8 DEF Present
<1>14. Live(row) \subseteq Present(row) /\ Trashed(row) \subseteq Present(row)
  BY DEF Live, Trashed
<1>15. RootKept(q)
  BY <1>12, <1>13, <1>14 DEF Sound, RootKept
<1>16. \A o \in O : q[f[o]].parent = IF o = n THEN p ELSE f[row[o].parent]
  <2>1. SUFFICES ASSUME NEW o \in O
                 PROVE q[f[o]].parent = IF o = n THEN p ELSE f[row[o].parent]
    OBVIOUS
  <2>2. CASE o = n
    BY <2>2, <1>7 DEF NewRow
  <2>3. CASE o # n
    <3>1. q[f[o]] = NewRow(f[row[o].parent], row[o].name, TRUE)
      BY <2>1, <2>3, <1>6
    <3> QED
      BY <2>3, <3>1 DEF NewRow
  <2> QED
    BY <2>2, <2>3
<1>17. InPlace(q, X)
  <2>1. SUFFICES ASSUME NEW m \in Live(q) \ ({Root} \cup X) PROVE q[m].parent \in LiveDirs(q)
    BY DEF InPlace
  <2>2. LiveDirs(row) \subseteq LiveDirs(q)
    BY <1>12 DEF LiveDirs
  <2>3. CASE m \in Live(row)
    BY <2>1, <2>2, <2>3, <1>13, <1>14 DEF Sound, InPlace
  <2>4. CASE m \in C
    <3>1. PICK o \in O : m = f[o]
      BY <2>4
    <3>2. CASE o = n
      BY <3>1, <3>2, <2>2, <1>16
    <3>3. CASE o # n
      BY <3>1, <3>3, <1>2, <1>5, <1>12, <1>16 DEF LiveDirs
    <3> QED
      BY <3>2, <3>3
  <2> QED
    BY <2>1, <2>3, <2>4, <1>12
<1>18. TrashShape(q, X)
  BY <1>12, <1>13, <1>14 DEF Sound, TrashShape
<1>19. Acyclic(q, X)
  <2>1. SUFFICES ASSUME NEW S \in SUBSET (Present(q) \ X), S # {},
                        \A m \in S : q[m].parent \in S
                 PROVE  FALSE
    BY DEF Acyclic
  <2>2. S \cap Present(row) = {}
    <3>1. SUFFICES ASSUME S \cap Present(row) # {} PROVE FALSE
      OBVIOUS
    <3>2. S \cap Present(row) \in SUBSET (Present(row) \ X)
      BY <2>1
    <3>3. PICK m \in S \cap Present(row) : row[m].parent \notin S \cap Present(row)
      BY <3>1, <3>2 DEF Sound, Acyclic
    <3>4. row[m].parent \in Present(row) \cup {None}
      BY <3>2, <3>3, ParentKept
    <3>5. None \notin S
      BY <2>1 DEF Present, Nodes
    <3> QED
      BY <2>1, <3>3, <3>4, <3>5, <1>13
  <2> DEFINE K == {o \in O : f[o] \in S}
  <2>3. n \notin K /\ \A o \in K : row[o].parent \in K
    <3>1. n \notin K
      <4>1. p \notin S
        BY <2>2, <1>14 DEF LiveDirs
      <4> QED
        BY <2>1, <4>1, <1>2, <1>16
    <3> QED
      BY <2>1, <3>1, <1>2, <1>16
  <2>4. O \subseteq O \ K
    <3>1. O \ K \in SUBSET Live(row)
      BY <1>2
    <3>2. \A m \in Live(row) : row[m].parent \in O => m \in O
      BY <1>1, BelowClosed, <1>2
    <3>3. Closed(row, Live(row), n, O \ K)
      BY <2>3, <3>2, <1>2 DEF Closed
    <3> QED
      BY <1>1, <3>1, <3>3, BelowLeast
  <2>5. \E o \in O : f[o] \in S
    BY <2>1, <2>2, <1>11
  <2> QED
    BY <2>4, <2>5
<1> QED
  BY <1>1, <1>10, <1>15, <1>17, <1>18, <1>19 DEF Sound, q

\* The foreign key: rows are not deleted from above others.
LEMMA NothingDangles ==
  ASSUME NEW r, NEW S \in SUBSET Nodes, ParentsPresent(Erased(r, S))
  PROVE  \A m \in Present(r) : r[m].parent \in S => m \in S
<1>1. PICK q : q = Erased(r, S)
  OBVIOUS
<1>2. SUFFICES ASSUME NEW m \in Present(r), r[m].parent \in S, m \notin S PROVE FALSE
  OBVIOUS
<1>3. q[m] = r[m] /\ m \in Present(q)
  BY <1>1, <1>2 DEF Erased, Present
<1>4. r[m].parent \notin Present(q) \cup {None}
  BY <1>1, <1>2, TreeAssumption DEF Erased, Present, Nodes
<1> QED
  BY <1>1, <1>3, <1>4 DEF ParentsPresent

-----------------------------------------------------------------------------
(* Every step keeps the invariant.                                         *)

\* A transaction that is no request's second half.
LEMMA TableStep ==
  ASSUME IInv, UNCHANGED <<job, stale>>, TreeOK'
  PROVE  IInv'
BY DEF IInv, JobsOK

\* A written table that is sound, with no row the ids do not account for.
LEMMA WrittenTree ==
  ASSUME TreeOK, NEW q, NEW X, stale \subseteq X, stale' = X, Sound(q, X),
         Present(q) \subseteq used', used \subseteq used', row' = q \/ row' = row
  PROVE  TreeOK'
<1>1. CASE row' = q
  BY <1>1 DEF TreeOK
<1>2. CASE row' = row
  <2>1. Sound(row, X)
    BY SoundMore DEF TreeOK
  <2> QED
    BY <1>2, <2>1 DEF TreeOK
<1> QED
  BY <1>1, <1>2

LEMMA InsertFileStep ==
  ASSUME IInv, NEW f \in Files, NEW p \in Dirs, NEW name \in Names, NEW ok \in BOOLEAN,
         InsertFile(f, p, name, ok)
  PROVE  IInv'
<1>1. TreeOK
  BY DEF IInv
<1>2. f \in Nodes /\ row[f] = None /\ p \in LiveDirs(row) /\ row \in Table
  BY <1>1 DEF InsertFile, TreeOK, Present, Fresh, Sound
<1>3. PICK q : q = [row EXCEPT ![f] = NewRow(p, name, ok)]
  OBVIOUS
<1>4. Sound(q, stale)
  BY <1>1, <1>2, <1>3, InsertSound DEF TreeOK
<1>5. Present(q) \subseteq Present(row) \cup {f}
  <2>1. \A m \in Nodes \ {f} : q[m] = row[m]
    BY <1>2, <1>3 DEF Table
  <2> QED
    BY <2>1 DEF Present
<1>6. /\ row' = q \/ row' = row
      /\ used' = used \cup {f} /\ UNCHANGED <<job, stale>>
  BY <1>3 DEF InsertFile, Write
<1>7. TreeOK'
  BY <1>1, <1>4, <1>5, <1>6, WrittenTree DEF TreeOK
<1> QED
  BY <1>6, <1>7, TableStep

\* Rows that go, in a transaction that may leave an exception more.
LEMMA ErasedTree ==
  ASSUME TreeOK, NEW S \in SUBSET Nodes, Root \notin S,
         \A m \in Present(row) : row[m].parent \in S => m \in S,
         row' = Erased(row, S) \/ row' = row, used' = used,
         NEW X, stale \subseteq X, stale' = X
  PROVE  TreeOK'
<1>1. PICK q : q = Erased(row, S)
  OBVIOUS
<1>2. Sound(q, stale)
  BY <1>1, ErasedSound DEF TreeOK
<1>3. Sound(q, X)
  BY <1>2, SoundMore
<1>4. Present(q) \subseteq Present(row)
  BY <1>1 DEF Erased, Present
<1> QED
  BY <1>1, <1>3, <1>4, WrittenTree DEF TreeOK

LEMMA SameShapeTree ==
  ASSUME IInv, NEW q \in Table, q[Root].ready = TRUE,
         \A n \in Nodes : q[n] = None <=> row[n] = None,
         \A n \in Present(row) : /\ q[n].parent = row[n].parent
                                 /\ q[n].troot = row[n].troot
                                 /\ q[n].restore = row[n].restore,
         row' = q \/ row' = row, used' = used, UNCHANGED <<job, stale>>
  PROVE  IInv'
<1>1. TreeOK
  BY DEF IInv
<1>2. Sound(q, stale)
  BY <1>1, SameShape DEF TreeOK
<1>3. Present(q) = Present(row)
  BY DEF Present
<1>4. TreeOK'
  BY <1>1, <1>2, <1>3, WrittenTree DEF TreeOK
<1> QED
  BY <1>4, TableStep

LEMMA FileRowsStep ==
  ASSUME IInv, NEW f \in Files, PublishUpload(f) \/ DropUpload(f)
  PROVE  IInv'
<1> USE TreeAssumption
<1>1. f \in Nodes /\ f # Root /\ row \in Table /\ TreeOK
  BY DEF IInv, TreeOK, Sound, Nodes
<1>2. CASE PublishUpload(f)
  <2>1. PICK x : x = [row[f] EXCEPT !.ready = TRUE]
    OBVIOUS
  <2>2. PICK q : q = [row EXCEPT ![f] = x]
    OBVIOUS
  <2>3. row[f] \in Rows /\ row[f] # None
    BY <1>1, <1>2 DEF PublishUpload, Live, Present, Table
  <2>4. /\ x \in Rows /\ x # None
        /\ x.parent = row[f].parent /\ x.troot = row[f].troot /\ x.restore = row[f].restore
    BY <2>1, <2>3 DEF Rows
  <2>5. q \in Table /\ q[f] = x /\ \A n \in Nodes \ {f} : q[n] = row[n]
    BY <1>1, <2>2, <2>4 DEF Table
  <2>6. q[Root].ready = TRUE
    BY <1>1, <2>5 DEF TreeOK, Sound, RootKept, Nodes
  <2>7. (row' = q \/ row' = row) /\ used' = used /\ UNCHANGED <<job, stale>>
    BY <1>2, <2>1, <2>2 DEF PublishUpload, Write
  <2>8. \A n \in Nodes : q[n] = None <=> row[n] = None
    BY <2>3, <2>4, <2>5
  <2>9. \A n \in Present(row) : /\ q[n].parent = row[n].parent
                                /\ q[n].troot = row[n].troot
                                /\ q[n].restore = row[n].restore
    BY <2>4, <2>5 DEF Present
  <2> QED
    BY <2>5, <2>6, <2>7, <2>8, <2>9, SameShapeTree
<1>3. CASE DropUpload(f)
  <2>1. \A m \in Present(row) : row[m].parent # f
    BY <1>1 DEF Present, Table, Rows
  <2>2. row' = Erased(row, {f}) /\ used' = used /\ UNCHANGED <<job, stale>>
    BY <1>3 DEF DropUpload
  <2>3. TreeOK'
    BY <1>1, <2>1, <2>2, ErasedTree
  <2> QED
    BY <2>2, <2>3, TableStep
<1> QED
  BY <1>2, <1>3

LEMMA RenameStep ==
  ASSUME IInv, NEW n \in Nodes, NEW name \in Names, Rename(n, name)
  PROVE  IInv'
<1> USE TreeAssumption
<1>1. row \in Table /\ n # Root /\ TreeOK
  BY DEF IInv, TreeOK, Sound, Rename
<1>2. PICK x : x = [row[n] EXCEPT !.name = name]
  OBVIOUS
<1>3. PICK q : q = [row EXCEPT ![n] = x]
  OBVIOUS
<1>4. row[n] \in Rows /\ row[n] # None
  BY <1>1 DEF Rename, Live, Present, Table
<1>5. /\ x \in Rows /\ x # None
      /\ x.parent = row[n].parent /\ x.troot = row[n].troot /\ x.restore = row[n].restore
  BY <1>2, <1>4 DEF Rows
<1>6. q \in Table /\ q[n] = x /\ \A m \in Nodes \ {n} : q[m] = row[m]
  BY <1>1, <1>3, <1>5 DEF Table
<1>7. q[Root].ready = TRUE
  BY <1>1, <1>6 DEF TreeOK, Sound, RootKept, Nodes
<1>8. (row' = q \/ row' = row) /\ used' = used /\ UNCHANGED <<job, stale>>
  BY <1>2, <1>3 DEF Rename, Write
<1>9. \A m \in Nodes : q[m] = None <=> row[m] = None
  BY <1>4, <1>5, <1>6
<1>10. \A m \in Present(row) : /\ q[m].parent = row[m].parent
                               /\ q[m].troot = row[m].troot
                               /\ q[m].restore = row[m].restore
  BY <1>5, <1>6 DEF Present
<1> QED
  BY <1>6, <1>7, <1>8, <1>9, <1>10, SameShapeTree

LEMMA MoveStep ==
  ASSUME IInv, NEW n \in Nodes, NEW p \in Dirs, Move(n, p)
  PROVE  IInv'
<1> USE TreeAssumption
<1>1. TreeOK /\ row \in Table
  BY DEF IInv, TreeOK, Sound
<1>2. p \notin Below(row, Present(row), n)
  <2>1. CASE n \in Dirs
    BY <2>1 DEF Move, MayMove
  <2>2. CASE n \in Files
    <3>1. n \in Present(row) /\ p # n
      BY <2>2 DEF Move, Live
    <3> QED
      BY <1>1, <2>2, <3>1, FileBelow
  <2> QED
    BY <2>1, <2>2 DEF Nodes
<1>3. n \in Live(row) \ {Root} /\ p \in LiveDirs(row)
  BY DEF Move, MayMove
<1>4. PICK q : q = Moved(row, n, p)
  OBVIOUS
<1>5. Sound(q, stale)
  BY <1>1, <1>2, <1>3, <1>4, MovedSound DEF TreeOK
<1>6. Present(q) \subseteq Present(row)
  <2>1. \A m \in Nodes \ {n} : q[m] = row[m]
    BY <1>1, <1>4 DEF Moved, Table
  <2> QED
    BY <2>1, <1>3 DEF Present, Live
<1>7. (row' = q \/ row' = row) /\ used' = used /\ UNCHANGED <<job, stale>>
  BY <1>4 DEF Move, Write
<1>8. TreeOK'
  BY <1>1, <1>5, <1>6, <1>7, WrittenTree DEF TreeOK
<1> QED
  BY <1>7, <1>8, TableStep

LEMMA CopyStep ==
  ASSUME IInv, NEW n \in Nodes, NEW p \in Dirs, Copy(n, p)
  PROVE  IInv'
<1>1. TreeOK
  BY DEF IInv
<1>2. PICK f \in [Below(row, Live(row), n) -> Fresh], name \in Names :
        /\ \A o, k \in Below(row, Live(row), n) : o # k => f[o] # f[k]
        /\ \A o \in Below(row, Live(row), n) : f[o] \in Dirs <=> o \in Dirs
        /\ used' = used \cup {f[o] : o \in Below(row, Live(row), n)}
        /\ \/ row' = Copied(Below(row, Live(row), n), n, f, p, name)
           \/ row' = row
  BY DEF Copy, Write
<1>3. n \in Live(row) \ {Root} /\ p \in LiveDirs(row)
  BY DEF Copy, Ready
<1>4. f \in [Below(row, Live(row), n) -> Nodes \ Present(row)]
  BY <1>1, <1>2 DEF TreeOK, Fresh
<1>5. PICK q : q = Copied(Below(row, Live(row), n), n, f, p, name)
  OBVIOUS
<1>6. Sound(q, stale)
  BY <1>1, <1>2, <1>3, <1>4, <1>5, CopiedSound DEF TreeOK
<1>7. Present(q) \subseteq used'
  <2>1. SUFFICES ASSUME NEW m \in Present(q), m \notin used' PROVE FALSE
    OBVIOUS
  <2>2. ~\E o \in Below(row, Live(row), n) : f[o] = m
    BY <1>2, <2>1
  <2>3. q[m] = row[m] /\ m \in Nodes
    BY <1>5, <2>1, <2>2 DEF Copied, Present
  <2> QED
    BY <1>1, <1>2, <2>1, <2>3 DEF TreeOK, Present
<1>8. UNCHANGED <<job, stale>>
  BY DEF Copy
<1>9. TreeOK'
  BY <1>1, <1>2, <1>5, <1>6, <1>7, <1>8, WrittenTree
<1> QED
  BY <1>8, <1>9, TableStep

LEMMA RetentionStep ==
  ASSUME IInv, TrashStep
  PROVE  IInv'
<1>1. TreeOK
  BY DEF IInv
<1>2. Trashed(row) \subseteq Nodes /\ Root \notin Trashed(row)
  BY <1>1 DEF TreeOK, Sound, RootKept, Live, Trashed, Present
<1>3. CASE EmptyTrash
  <2>1. (row' = Erased(row, Trashed(row)) \/ row' = row) /\ used' = used
        /\ UNCHANGED <<job, stale>>
    BY <1>3 DEF EmptyTrash, Write
  <2>2. CASE row' = row
    BY <1>1, <2>1, <2>2, TableStep DEF TreeOK
  <2>3. CASE row' # row
    <3>1. ParentsPresent(Erased(row, Trashed(row))) /\ row' = Erased(row, Trashed(row))
      BY <1>3, <2>3 DEF EmptyTrash, Write, Constraints
    <3>2. \A m \in Present(row) : row[m].parent \in Trashed(row) => m \in Trashed(row)
      BY <3>1, NothingDangles, <1>2
    <3>3. TreeOK'
      BY <1>1, <1>2, <2>1, <3>1, <3>2, ErasedTree
    <3> QED
      BY <2>1, <3>3, TableStep
  <2> QED
    BY <2>2, <2>3
<1>4. CASE \E E \in SUBSET {row[n].troot : n \in Trashed(row)} : CleanupTrash(E)
  <2>1. PICK S \in SUBSET Trashed(row) :
          /\ \A m \in Present(row) : row[m].parent \in S => m \in S
          /\ row' = Erased(row, S) /\ used' = used /\ UNCHANGED <<job, stale>>
    BY <1>4 DEF CleanupTrash
  <2>2. TreeOK'
    BY <1>1, <1>2, <2>1, ErasedTree
  <2> QED
    BY <2>1, <2>2, TableStep
<1> QED
  BY <1>3, <1>4 DEF TrashStep

LEMMA FoundTyped ==
  ASSUME NEW op \in {"create", "trash", "drop", "restore", "purge"},
         NEW n \in Nodes \cup {None}, NEW p \in Dirs \cup {None}
  PROVE  /\ Found(op, n, p) \in Jobs
         /\ Found(op, n, p).op = op
         /\ Found(op, n, p).node = n
         /\ Found(op, n, p).parent = p
BY DEF Found, Jobs

\* A request that has looked holds an item that is not the root, or a
\* directory.
LEMMA CheckKeeps ==
  ASSUME IInv, NEW h \in Handlers, CheckStep(h)
  PROVE  IInv'
<1> USE TreeAssumption
<1>1. Root \notin Listed(row) /\ Listed(row) \subseteq Nodes
  BY DEF IInv, TreeOK, Sound, RootKept, Listed, Live, Trashed, Present
<1>2. UNCHANGED <<row, used, stale>>
  BY DEF CheckStep, CheckCreate, CheckDelete, CheckRestore, CheckPurge, Look
<1>3. PICK j \in Jobs :
        /\ job' = [job EXCEPT ![h] = j]
        /\ j.op \in {"trash", "drop", "restore", "purge"} => j.node \in Nodes \ {Root}
        /\ j.op \in {"create", "restore"} => j.parent \in Dirs
  <2>1. CASE \E p \in Dirs : CheckCreate(h, p)
    <3>1. PICK p \in Dirs : Look(h, Found("create", None, p))
      BY <2>1 DEF CheckCreate
    <3>2. PICK j \in Jobs : /\ j = Found("create", None, p)
                            /\ j.op = "create" /\ j.node = None /\ j.parent = p
      BY FoundTyped
    <3> QED
      BY <3>1, <3>2 DEF Look
  <2>2. CASE \E n \in Nodes : CheckDelete(h, n)
    <3>1. PICK n \in Nodes \ {Root}, op \in {"trash", "drop"} :
            Look(h, Found(op, n, None))
      BY <2>2 DEF CheckDelete
    <3>2. PICK j \in Jobs : /\ j = Found(op, n, None)
                            /\ j.op = op /\ j.node = n /\ j.parent = None
      BY FoundTyped
    <3> QED
      BY <3>1, <3>2 DEF Look
  <2>3. CASE \E n \in Nodes : CheckPurge(h, n)
    <3>1. PICK n \in Nodes \ {Root} : Look(h, Found("purge", n, None))
      BY <1>1, <2>3 DEF CheckPurge
    <3>2. PICK j \in Jobs : /\ j = Found("purge", n, None)
                            /\ j.op = "purge" /\ j.node = n /\ j.parent = None
      BY FoundTyped
    <3> QED
      BY <3>1, <3>2 DEF Look
  <2>4. CASE \E n \in Nodes : CheckRestore(h, n)
    <3>1. PICK n \in Nodes \ {Root}, p \in Dirs : Look(h, Found("restore", n, p))
      <4>1. PICK n \in Nodes : CheckRestore(h, n)
        BY <2>4
      <4>2. PICK p : p = IF row[n].restore \in LiveDirs(row) THEN row[n].restore ELSE Root
        OBVIOUS
      <4>3. p \in Dirs
        BY <4>2 DEF LiveDirs
      <4> QED
        BY <1>1, <4>1, <4>2, <4>3 DEF CheckRestore
    <3>2. PICK j \in Jobs : /\ j = Found("restore", n, p)
                            /\ j.op = "restore" /\ j.node = n /\ j.parent = p
      BY FoundTyped
    <3> QED
      BY <3>1, <3>2 DEF Look
  <2> QED
    BY <2>1, <2>2, <2>3, <2>4 DEF CheckStep
<1>4. JobsOK'
  BY <1>3 DEF IInv, JobsOK
<1> QED
  BY <1>2, <1>4 DEF IInv, TreeOK


\* A request that answers: it is idle again, and what it did was sound but for the
\* items whose check was overtaken.
LEMMA ChangeStepOK ==
  ASSUME IInv, NEW h \in Handlers, NEW O \in SUBSET Nodes, Finish(h, O), TreeOK'
  PROVE  IInv'
<1>1. JobsOK'
  <2>1. Idle \in Jobs /\ Idle.op = "idle"
    BY DEF Idle, Jobs
  <2> QED
    BY <2>1 DEF IInv, JobsOK, Finish
<1>2. stale' \subseteq Nodes
  BY DEF IInv, Finish
<1> QED
  BY <1>1, <1>2 DEF IInv

LEMMA CreateDirectoryStep ==
  ASSUME IInv, NEW h \in Handlers, CreateDirectory(h)
  PROVE  IInv'
<1>1. TreeOK /\ row \in Table
  BY DEF IInv, TreeOK, Sound
<1>2. PICK p \in Dirs : p = job[h].parent
  BY DEF IInv, JobsOK, CreateDirectory
<1>3. PICK d \in Fresh \cap Dirs, name \in Names :
        /\ used' = used \cup {d}
        /\ (row' = [row EXCEPT ![d] = NewRow(p, name, TRUE)] \/ row' = row)
        /\ Finish(h, IF p \in LiveDirs(row) THEN {} ELSE {d})
  BY <1>2 DEF CreateDirectory, Write
<1>4. PICK q : q = [row EXCEPT ![d] = NewRow(p, name, TRUE)]
  OBVIOUS
<1>5. d \in Nodes /\ row[d] = None
  BY <1>1, <1>3 DEF TreeOK, Fresh, Present
<1>6. Sound(q, stale \cup {d}) /\ (p \in LiveDirs(row) => Sound(q, stale))
  BY <1>1, <1>4, <1>5, InsertSound DEF TreeOK
<1>7. Present(q) \subseteq Present(row) \cup {d}
  <2>1. \A m \in Nodes \ {d} : q[m] = row[m]
    BY <1>1, <1>4 DEF Table
  <2> QED
    BY <2>1 DEF Present
<1>8. PICK O \in SUBSET Nodes : /\ O = IF p \in LiveDirs(row) THEN {} ELSE {d}
                                /\ Finish(h, O) /\ Sound(q, stale \cup O)
  <2>1. CASE p \in LiveDirs(row)
    <3>1. Finish(h, {}) /\ Sound(q, stale \cup {})
      BY <1>3, <1>6, <2>1
    <3> QED
      BY <2>1, <3>1
  <2>2. CASE p \notin LiveDirs(row)
    BY <1>3, <1>5, <1>6, <2>2
  <2> QED
    BY <2>1, <2>2
<1>9. stale' = stale \cup O
  BY <1>8 DEF Finish
<1>10. TreeOK'
  BY <1>1, <1>3, <1>4, <1>7, <1>8, <1>9, WrittenTree DEF TreeOK
<1> QED
  BY <1>8, <1>10, ChangeStepOK

LEMMA TrashItemStep ==
  ASSUME IInv, NEW h \in Handlers, TrashItem(h)
  PROVE  IInv'
<1>1. TreeOK
  BY DEF IInv
<1>2. PICK n \in Nodes \ {Root} : n = job[h].node
  BY DEF IInv, JobsOK, TrashItem
<1>3. PICK O \in SUBSET Nodes : O = {n} \cap Trashed(row)
  BY DEF Trashed, Present
<1>4. Finish(h, O) /\ used' = used /\ stale' = stale \cup O
  BY <1>2, <1>3 DEF TrashItem, Finish
<1>5. CASE n \notin Present(row)
  <2>1. row' = row
    BY <1>2, <1>5 DEF TrashItem
  <2>2. Sound(row, stale \cup O)
    BY <1>1, SoundMore DEF TreeOK
  <2>3. TreeOK'
    BY <1>1, <1>4, <2>1, <2>2 DEF TreeOK
  <2> QED
    BY <1>4, <2>3, ChangeStepOK
<1>6. CASE n \in Present(row)
  <2>1. PICK q : q = Discarded(row, n)
    OBVIOUS
  <2>2. Sound(q, stale \cup O) /\ Present(q) = Present(row)
    <3>1. CASE n \in Trashed(row)
      <4>1. O = {n}
        BY <1>3, <3>1
      <4> QED
        BY <1>1, <2>1, <3>1, <4>1, DiscardedStray DEF TreeOK
    <3>2. CASE n \notin Trashed(row)
      <4>1. n \in Live(row) \ {Root}
        BY <1>2, <1>6, <3>2 DEF Live, Trashed
      <4>2. Sound(q, stale) /\ Present(q) = Present(row)
        BY <1>1, <2>1, <4>1, DiscardedSound DEF TreeOK
      <4> QED
        BY <4>2, SoundMore
    <3> QED
      BY <3>1, <3>2
  <2>3. row' = q \/ row' = row
    BY <1>2, <1>6, <2>1 DEF TrashItem, Write
  <2>4. TreeOK'
    BY <1>1, <1>4, <2>2, <2>3, WrittenTree DEF TreeOK
  <2> QED
    BY <1>4, <2>4, ChangeStepOK
<1> QED
  BY <1>5, <1>6

LEMMA DropItemStep ==
  ASSUME IInv, NEW h \in Handlers, DropItem(h)
  PROVE  IInv'
<1>1. TreeOK
  BY DEF IInv
<1>2. PICK n \in Nodes \ {Root} : n = job[h].node
  BY DEF IInv, JobsOK, DropItem
<1>3. Finish(h, {}) /\ used' = used /\ stale' = stale
  BY <1>2 DEF DropItem, Finish
<1>4. CASE row' = row
  <2>1. TreeOK'
    BY <1>1, <1>3, <1>4 DEF TreeOK
  <2> QED
    BY <1>3, <2>1, ChangeStepOK
<1>5. CASE row' # row
  <2>1. row' = Erased(row, {n}) /\ ParentsPresent(Erased(row, {n}))
    BY <1>2, <1>5 DEF DropItem, Write, Constraints
  <2>2. \A m \in Present(row) : row[m].parent \in {n} => m \in {n}
    BY <2>1, NothingDangles
  <2>3. TreeOK'
    BY <1>1, <1>3, <2>1, <2>2, ErasedTree
  <2> QED
    BY <1>3, <2>3, ChangeStepOK
<1> QED
  BY <1>4, <1>5

LEMMA RestoreItemStep ==
  ASSUME IInv, NEW h \in Handlers, RestoreItem(h)
  PROVE  IInv'
<1>1. TreeOK
  BY DEF IInv
<1>2. PICK n \in Nodes \ {Root}, p \in Dirs : n = job[h].node /\ p = job[h].parent
  BY DEF IInv, JobsOK, RestoreItem
<1>3. PICK O \in SUBSET Nodes : O = IF n \in Listed(row) /\ p \in LiveDirs(row) THEN {}
                                    ELSE {n} \cap Present(row)
  BY DEF Present
<1>4. Finish(h, O) /\ used' = used /\ stale' = stale \cup O
  BY <1>2, <1>3 DEF RestoreItem, Finish
<1>5. CASE n \notin Present(row)
  <2>1. row' = row
    BY <1>2, <1>5 DEF RestoreItem
  <2>2. Sound(row, stale \cup O)
    BY <1>1, SoundMore DEF TreeOK
  <2>3. TreeOK'
    BY <1>1, <1>4, <2>1, <2>2 DEF TreeOK
  <2> QED
    BY <1>4, <2>3, ChangeStepOK
<1>6. CASE n \in Present(row)
  <2>1. PICK q : q = Restored(row, n, p)
    OBVIOUS
  <2>2. /\ Sound(q, stale \cup {n}) /\ Present(q) = Present(row)
        /\ n \in Listed(row) /\ p \in LiveDirs(row) => Sound(q, stale)
    BY <1>1, <1>2, <1>6, <2>1, RestoredSound DEF TreeOK
  <2>3. Sound(q, stale \cup O)
    <3>1. CASE n \in Listed(row) /\ p \in LiveDirs(row)
      BY <2>2, <3>1, SoundMore
    <3>2. CASE ~(n \in Listed(row) /\ p \in LiveDirs(row))
      <4>1. O = {n}
        BY <1>3, <1>6, <3>2
      <4> QED
        BY <2>2, <4>1
    <3> QED
      BY <3>1, <3>2
  <2>4. row' = q \/ row' = row
    BY <1>2, <1>6, <2>1 DEF RestoreItem, Write
  <2>5. TreeOK'
    BY <1>1, <1>4, <2>2, <2>3, <2>4, WrittenTree DEF TreeOK
  <2> QED
    BY <1>4, <2>5, ChangeStepOK
<1> QED
  BY <1>5, <1>6

LEMMA PurgeItemStep ==
  ASSUME IInv, NEW h \in Handlers, PurgeItem(h)
  PROVE  IInv'
<1>1. TreeOK
  BY DEF IInv
<1>2. PICK n \in Nodes \ {Root} : n = job[h].node
  BY DEF IInv, JobsOK, PurgeItem
<1>3. PICK O \in SUBSET Nodes : O = {n} \cap Live(row)
  BY DEF Live, Present
<1>4. Finish(h, O) /\ used' = used /\ stale' = stale \cup O
  BY <1>2, <1>3 DEF PurgeItem, Finish
<1>5. PICK S : S = Below(row, Present(row), n)
  OBVIOUS
<1>6. row' = Erased(row, S) \/ row' = row
  BY <1>2, <1>5 DEF PurgeItem, Write
<1>7. S \in SUBSET Nodes /\ \A m \in Present(row) : row[m].parent \in S => m \in S
  BY <1>5, BelowInside, BelowClosed DEF Present
<1>8. Root \notin S
  <2>1. SUFFICES ASSUME Root \in S PROVE FALSE
    OBVIOUS
  <2>2. row[Root].parent \in S
    BY <1>2, <1>5, <2>1, BelowParent
  <2> QED
    BY <1>1, <1>7, <2>2, TreeAssumption DEF TreeOK, Sound, RootKept, Nodes
<1>9. TreeOK'
  BY <1>1, <1>4, <1>6, <1>7, <1>8, ErasedTree
<1> QED
  BY <1>4, <1>9, ChangeStepOK

LEMMA InitIInv == Init => IInv
<1> USE TreeAssumption
<1> SUFFICES ASSUME Init PROVE IInv
  OBVIOUS
<1>1. Root \in Nodes /\ RootRow \in Rows /\ RootRow # None
  <2>1. RootRow \in Rows
    BY DEF RootRow, Rows
  <2> QED
    BY <2>1 DEF Nodes
<1>2. row \in Table /\ row[Root] = RootRow /\ \A n \in Nodes \ {Root} : row[n] = None
  BY <1>1 DEF Init, Table
<1>3. Present(row) = {Root} /\ Live(row) = {Root} /\ Trashed(row) = {}
  BY <1>1, <1>2 DEF Present, Live, Trashed, RootRow
<1>4. RootKept(row) /\ InPlace(row, {}) /\ TrashShape(row, {})
  BY <1>2, <1>3 DEF RootKept, InPlace, TrashShape, RootRow
<1>5. Acyclic(row, {})
  <2>1. SUFFICES ASSUME NEW S \in SUBSET {Root}, S # {}
                 PROVE \E n \in S : row[n].parent \notin S
    BY <1>3 DEF Acyclic
  <2>2. Root \in S /\ row[Root].parent = None /\ None \notin S
    BY <2>1, <1>2 DEF RootRow
  <2> QED
    BY <2>2
<1>6. JobsOK
  <2>1. Idle \in Jobs /\ Idle.op = "idle"
    BY DEF Idle, Jobs
  <2> QED
    BY <2>1 DEF Init, JobsOK
<1> QED
  BY <1>2, <1>3, <1>4, <1>5, <1>6 DEF Init, IInv, TreeOK, Sound

LEMMA NextIInv == IInv /\ [Next]_vars => IInv'
<1> SUFFICES ASSUME IInv, [Next]_vars PROVE IInv'
  OBVIOUS
<1>1. ASSUME NEW f \in Files, NEW p \in Dirs, NEW name \in Names,
             Reserve(f, p, name) \/ CreateDocument(f, p, name)
      PROVE  IInv'
  BY <1>1, InsertFileStep DEF Reserve, CreateDocument
<1>2. CASE FileStep
  BY <1>1, <1>2, FileRowsStep DEF FileStep
<1>3. CASE NodeStep
  BY <1>3, RenameStep, MoveStep, CopyStep DEF NodeStep
<1>4. CASE TrashStep
  BY <1>4, RetentionStep
<1>5. ASSUME NEW h \in Handlers, CheckStep(h) \/ ChangeStep(h)
      PROVE  IInv'
  BY <1>5, CheckKeeps, CreateDirectoryStep, TrashItemStep, DropItemStep,
     RestoreItemStep, PurgeItemStep DEF ChangeStep
<1>6. CASE UNCHANGED vars
  BY <1>6 DEF vars, IInv, JobsOK, TreeOK
<1> QED
  BY <1>2, <1>3, <1>4, <1>5, <1>6 DEF Next

\* The tree is sound but for the items changed on an overtaken check, for any number
\* of ids, names and requests, and however many checks were overtaken.
THEOREM Inductive == Spec => []IInv
BY InitIInv, NextIInv, PTL DEF Spec

\* Every live item but those changed on an overtaken check is in a live directory, and
\* every cycle of parents has one of those in it, whatever happens afterwards.
THEOREM PlacesKept == Spec => []LivePlaces
<1>1. IInv => LivePlaces
  BY DEF IInv, TreeOK, Sound, RootKept, InPlace, LivePlaces
<1> QED
  BY <1>1, Inductive, PTL

\* Whatever is in the trash is found through an item the trash page lists, or hangs
\* below one changed on an overtaken check; the others that are listed know where
\* they were.
THEOREM TrashKept == Spec => []TrashListed
<1>1. IInv => TrashListed
  <2> SUFFICES ASSUME TreeOK PROVE TrashListed
    BY DEF IInv
  <2>1. \A x \in Listed(row) \ stale : row[x].restore # None
    BY DEF TreeOK, Sound, TrashShape, Listed
  <2>2. PICK U : U = Under(Listed(row) \cup stale)
    OBVIOUS
  <2>3. \A m \in Present(row) : row[m].parent \in U => m \in U
    BY <2>2, BelowInside, BelowClosed DEF Under
  <2>4. \A x \in Present(row) : x \in Listed(row) \cup stale => x \in U
    BY <2>2, BelowClosed DEF Under
  <2>5. Trashed(row) \subseteq U
    <3>1. SUFFICES ASSUME Trashed(row) \ U # {} PROVE FALSE
      OBVIOUS
    <3>2. Trashed(row) \ U \in SUBSET (Present(row) \ stale)
      BY <2>4 DEF Trashed
    <3>3. PICK m \in Trashed(row) \ U : row[m].parent \notin Trashed(row) \ U
      BY <3>1, <3>2 DEF TreeOK, Sound, Acyclic
    <3>4. m \in Present(row) /\ m \notin stale /\ m \notin Listed(row)
      BY <2>4, <3>3 DEF Trashed
    <3>5. row[m].parent \in Trashed(row)
      BY <3>3, <3>4 DEF TreeOK, Sound, TrashShape, Listed
    <3> QED
      BY <2>3, <3>3, <3>4, <3>5
  <2> QED
    BY <2>1, <2>2, <2>5 DEF TrashListed
<1> QED
  BY <1>1, Inductive, PTL

-----------------------------------------------------------------------------
(* Finished items are erased from the trash.                               *)

Spared == Ready(row) \subseteq Present(row')

LEMMA KeptSpared ==
  ASSUME \A n \in Present(row) : row'[n] # None
  PROVE  Spared
BY DEF Spared, Ready, Live, Present

LEMMA ErasedSpared ==
  ASSUME NEW S, row' = Erased(row, S), S \cap Ready(row) = {}
  PROVE  Spared
BY DEF Spared, Erased, Ready, Live, Present

\* Writing a good table over the rows there were.
LEMMA WrittenSpared ==
  ASSUME NEW q, \A n \in Present(row) : q[n] # None, row' = q \/ row' = row
  PROVE  Spared
<1>1. \A n \in Present(row) : row[n] # None
  BY DEF Present
<1> QED
  BY <1>1, KeptSpared

LEMMA FileSpares ==
  ASSUME TreeOK, FileStep
  PROVE  Spared
<1>1. ASSUME NEW f \in Files, NEW p \in Dirs, NEW name \in Names, NEW ok \in BOOLEAN,
             InsertFile(f, p, name, ok)
      PROVE  Spared
  <2>1. PICK q : q = [row EXCEPT ![f] = NewRow(p, name, ok)]
    OBVIOUS
  <2>2. f \notin Present(row) /\ \A m \in Nodes \ {f} : q[m] = row[m]
    BY <1>1, <2>1 DEF InsertFile, Fresh, TreeOK, Sound, Table
  <2>3. row' = q \/ row' = row
    BY <1>1, <2>1 DEF InsertFile, Write
  <2> QED
    BY <2>2, <2>3, WrittenSpared DEF Present
<1>2. ASSUME NEW f \in Files, PublishUpload(f)
      PROVE  Spared
  <2>1. PICK q : q = [row EXCEPT ![f] = [row[f] EXCEPT !.ready = TRUE]]
    OBVIOUS
  <2>2. f \in Nodes /\ row[f] \in Rows /\ row \in Table
    BY <1>2 DEF PublishUpload, Live, Present, TreeOK, Sound, Table
  <2>3. [row[f] EXCEPT !.ready = TRUE] # None
    <3>1. [row[f] EXCEPT !.ready = TRUE] \in Rows
      BY <2>2 DEF Rows
    <3> QED
      BY <3>1, TreeAssumption
  <2>4. \A m \in Present(row) : q[m] # None
    BY <2>1, <2>2, <2>3 DEF Present, Table
  <2>5. row' = q \/ row' = row
    BY <1>2, <2>1 DEF PublishUpload, Write
  <2> QED
    BY <2>4, <2>5, WrittenSpared
<1>3. ASSUME NEW f \in Files, DropUpload(f)
      PROVE  Spared
  <2>1. {f} \cap Ready(row) = {}
    BY <1>3 DEF DropUpload, Ready
  <2> QED
    BY <1>3, <2>1, ErasedSpared DEF DropUpload
<1> QED
  BY <1>1, <1>2, <1>3 DEF FileStep, Reserve, CreateDocument

LEMMA NodeSpares ==
  ASSUME TreeOK, NodeStep
  PROVE  Spared
<1>1. row \in Table
  BY DEF TreeOK, Sound
<1>2. ASSUME NEW n \in Nodes, NEW name \in Names, Rename(n, name)
      PROVE  Spared
  <2>1. PICK q : q = [row EXCEPT ![n] = [row[n] EXCEPT !.name = name]]
    OBVIOUS
  <2>2. row[n] \in Rows
    BY <1>1, <1>2 DEF Rename, Live, Present, Table
  <2>3. [row[n] EXCEPT !.name = name] # None
    <3>1. [row[n] EXCEPT !.name = name] \in Rows
      BY <2>2 DEF Rows
    <3> QED
      BY <3>1, TreeAssumption
  <2>4. \A m \in Present(row) : q[m] # None
    BY <1>1, <2>1, <2>3 DEF Present, Table
  <2>5. row' = q \/ row' = row
    BY <1>2, <2>1 DEF Rename, Write
  <2> QED
    BY <2>4, <2>5, WrittenSpared
<1>3. ASSUME NEW n \in Nodes, NEW p \in Dirs, Move(n, p)
      PROVE  Spared
  <2>1. PICK q : q = [row EXCEPT ![n] = [row[n] EXCEPT !.parent = p]]
    OBVIOUS
  <2>2. row[n] \in Rows
    BY <1>1, <1>3 DEF Move, Live, Present, Table
  <2>3. [row[n] EXCEPT !.parent = p] # None
    <3>1. [row[n] EXCEPT !.parent = p] \in Rows
      BY <2>2 DEF Rows
    <3> QED
      BY <3>1, TreeAssumption
  <2>4. \A m \in Present(row) : q[m] # None
    BY <1>1, <2>1, <2>3 DEF Present, Table
  <2>5. row' = q \/ row' = row
    BY <1>3, <2>1 DEF Move, Moved, Write
  <2> QED
    BY <2>4, <2>5, WrittenSpared
<1>4. ASSUME NEW n \in Nodes, NEW p \in Dirs, Copy(n, p)
      PROVE  Spared
  <2>1. PICK f \in [Below(row, Live(row), n) -> Fresh], name \in Names :
          \/ row' = Copied(Below(row, Live(row), n), n, f, p, name)
          \/ row' = row
    BY <1>4 DEF Copy, Write
  <2>2. PICK O : O = Below(row, Live(row), n)
    OBVIOUS
  <2>3. PICK q : q = Copied(O, n, f, p, name)
    OBVIOUS
  <2>4. \A m \in Present(row) : q[m] = row[m]
    <3>1. SUFFICES ASSUME NEW m \in Present(row) PROVE q[m] = row[m]
      OBVIOUS
    <3>2. ~\E o \in O : f[o] = m
      BY <2>2, <3>1 DEF TreeOK, Fresh
    <3> QED
      BY <2>3, <3>1, <3>2 DEF Copied, Present
  <2> QED
    BY <2>1, <2>2, <2>3, <2>4, WrittenSpared DEF Present
<1> QED
  BY <1>2, <1>3, <1>4 DEF NodeStep

LEMMA TrashSpares ==
  ASSUME TreeOK, TrashStep
  PROVE  Spared
<1>1. Trashed(row) \cap Ready(row) = {}
  BY DEF Trashed, Ready, Live
<1>2. PICK S \in SUBSET Trashed(row) : row' = Erased(row, S) \/ row' = row
  BY DEF TrashStep, EmptyTrash, CleanupTrash, Write
<1>3. CASE row' = Erased(row, S)
  BY <1>1, <1>2, <1>3, ErasedSpared
<1>4. CASE row' = row
  BY <1>4, KeptSpared DEF Present
<1> QED
  BY <1>2, <1>3, <1>4

LEMMA CreateSpares ==
  ASSUME TreeOK, NEW h \in Handlers, CreateDirectory(h)
  PROVE  Spared
<1>1. PICK d \in Fresh, x \in {NewRow(job[h].parent, name, TRUE) : name \in Names} :
        row' = [row EXCEPT ![d] = x] \/ row' = row
  BY DEF CreateDirectory, Write
<1>2. PICK q : q = [row EXCEPT ![d] = x]
  OBVIOUS
<1>3. d \notin Present(row) /\ \A m \in Nodes \ {d} : q[m] = row[m]
  BY <1>1, <1>2 DEF Fresh, TreeOK, Sound, Table
<1> QED
  BY <1>1, <1>2, <1>3, WrittenSpared DEF Present

LEMMA TrashItemSpares ==
  ASSUME TreeOK, JobsOK, NEW h \in Handlers, TrashItem(h)
  PROVE  Spared
<1>1. PICK n \in Nodes \ {Root} : n = job[h].node
  BY DEF JobsOK, TrashItem
<1>2. CASE n \notin Present(row)
  <2>1. row' = row
    BY <1>1, <1>2 DEF TrashItem
  <2> QED
    BY <2>1, KeptSpared DEF Present
<1>3. CASE n \in Present(row)
  <2>1. PICK q : q = Discarded(row, n)
    OBVIOUS
  <2>2. Present(q) = Present(row)
    BY <1>1, <1>3, <2>1, DiscardedSound, DiscardedStray DEF TreeOK, Live, Trashed
  <2>3. row' = q \/ row' = row
    BY <1>1, <1>3, <2>1 DEF TrashItem, Write
  <2> QED
    BY <2>2, <2>3, WrittenSpared DEF Present
<1> QED
  BY <1>2, <1>3

LEMMA DropItemSpares ==
  ASSUME NEW h \in Handlers, DropItem(h)
  PROVE  Spared
<1>1. PICK n : n = job[h].node
  OBVIOUS
<1>2. CASE row' = row
  BY <1>2, KeptSpared DEF Present
<1>3. CASE row' # row
  <2>1. row' = Erased(row, {n}) /\ Droppable(n)
    BY <1>1, <1>3 DEF DropItem, Write
  <2>2. {n} \cap Ready(row) = {}
    BY <2>1 DEF Droppable, Ready
  <2> QED
    BY <2>1, <2>2, ErasedSpared
<1> QED
  BY <1>2, <1>3

LEMMA RestoreItemSpares ==
  ASSUME TreeOK, JobsOK, NEW h \in Handlers, RestoreItem(h)
  PROVE  Spared
<1>1. PICK n \in Nodes \ {Root}, p \in Dirs : n = job[h].node /\ p = job[h].parent
  BY DEF JobsOK, RestoreItem
<1>2. CASE n \notin Present(row)
  <2>1. row' = row
    BY <1>1, <1>2 DEF RestoreItem
  <2> QED
    BY <2>1, KeptSpared DEF Present
<1>3. CASE n \in Present(row)
  <2>1. PICK q : q = Restored(row, n, p)
    OBVIOUS
  <2>2. Present(q) = Present(row)
    BY <1>1, <1>3, <2>1, RestoredSound DEF TreeOK
  <2>3. row' = q \/ row' = row
    BY <1>1, <1>3, <2>1 DEF RestoreItem, Write
  <2> QED
    BY <2>2, <2>3, WrittenSpared DEF Present
<1> QED
  BY <1>2, <1>3

\* What is below a trashed item is in the trash, or below one changed on an
\* overtaken check.
LEMMA BelowTrashed ==
  ASSUME NEW r, NEW X, Sound(r, X), NEW n, n \notin Live(r)
  PROVE  \A m \in Below(r, Present(r), n) :
           m \in Trashed(r) \/ \E x \in X : m \in Below(r, Present(r), x)
<1>1. CASE n \notin Present(r)
  BY <1>1 DEF Below
<1>2. CASE n \in Present(r)
  <2>1. PICK S : S = {m \in Present(r) : \/ m \in Trashed(r)
                                         \/ \E x \in X : m \in Below(r, Present(r), x)}
    OBVIOUS
  <2>2. n \in S
    BY <1>2, <2>1 DEF Live, Trashed
  <2>3. ASSUME NEW m \in Present(r), r[m].parent \in S
        PROVE  m \in S
    <3>1. CASE m \in X
      BY <2>1, <2>3, <3>1, BelowClosed
    <3>2. CASE m \notin X /\ r[m].parent \in Trashed(r)
      BY <2>1, <2>3, <3>2, TrashClosed
    <3>3. CASE r[m].parent \notin Trashed(r)
      <4>1. PICK x \in X : r[m].parent \in Below(r, Present(r), x)
        BY <2>1, <2>3, <3>3
      <4>2. x \in Present(r)
        BY <4>1 DEF Below
      <4> QED
        BY <2>1, <2>3, <4>1, <4>2, BelowClosed
    <3> QED
      BY <3>1, <3>2, <3>3
  <2>4. Below(r, Present(r), n) \subseteq S
    BY <2>1, <2>2, <2>3, BelowLeast DEF Closed
  <2> QED
    BY <2>1, <2>4
<1> QED
  BY <1>1, <1>2

\* A finished item that goes without being in the trash is, or hangs below, one
\* changed on an overtaken check.
SparedBut ==
  \A n \in Ready(row) \ Present(row') :
    \E x \in stale' : n \in Below(row, Present(row), x)

LEMMA PurgeItemSpares ==
  ASSUME TreeOK, NEW h \in Handlers, PurgeItem(h)
  PROVE  SparedBut
<1>1. PICK n : n = job[h].node
  OBVIOUS
<1>2. PICK S : S = Below(row, Present(row), n)
  OBVIOUS
<1>3. row' = Erased(row, S) \/ row' = row
  BY <1>1, <1>2 DEF PurgeItem, Write
<1>4. stale' = stale \cup ({n} \cap Live(row))
  BY <1>1 DEF PurgeItem, Finish
<1>5. \A m \in Ready(row) \ Present(row') : m \in S
  BY <1>3 DEF Erased, Ready, Live, Present
<1>6. CASE n \in Live(row)
  BY <1>2, <1>4, <1>5, <1>6 DEF SparedBut
<1>7. CASE n \notin Live(row)
  <2>1. SUFFICES ASSUME NEW m \in Ready(row) \ Present(row')
                 PROVE  \E x \in stale' : m \in Below(row, Present(row), x)
    BY DEF SparedBut
  <2>2. m \in S /\ m \notin Trashed(row)
    BY <1>5, <2>1 DEF Ready, Live, Trashed
  <2>3. PICK x \in stale : m \in Below(row, Present(row), x)
    BY <1>2, <1>7, <2>2, BelowTrashed DEF TreeOK
  <2> QED
    BY <1>4, <2>3
<1> QED
  BY <1>6, <1>7

\* The row of a finished item is deleted only from the trash, unless a request
\* changed it, or something it hangs below, on an overtaken check.
THEOREM ErasedKept == Spec => NothingLiveErased
<1>1. IInv /\ [Next]_vars => [SparedBut]_vars
  <2>1. SUFFICES ASSUME IInv, Next PROVE SparedBut
    OBVIOUS
  <2>2. TreeOK /\ JobsOK
    BY <2>1 DEF IInv
  <2>3. Spared => SparedBut
    BY DEF Spared, SparedBut
  <2>4. CASE \E h \in Handlers : CheckStep(h)
    <3>1. row' = row
      BY <2>4 DEF CheckStep, CheckCreate, CheckDelete, CheckRestore, CheckPurge, Look
    <3> QED
      BY <2>3, <3>1, KeptSpared DEF Present
  <2>5. CASE \E h \in Handlers : ChangeStep(h)
    BY <2>2, <2>3, <2>5, CreateSpares, TrashItemSpares, DropItemSpares,
       RestoreItemSpares, PurgeItemSpares DEF ChangeStep
  <2> QED
    BY <2>1, <2>2, <2>3, <2>4, <2>5, FileSpares, NodeSpares, TrashSpares DEF Next
<1> QED
  BY <1>1, Inductive, PTL DEF Spec, NothingLiveErased, SparedBut

-----------------------------------------------------------------------------
(* The directories above an item.                                          *)

\* The live part of a table is a tree.
Shaped(r) == r \in Table /\ RootKept(r) /\ InPlace(r, {})

LEMMA AboveUpward ==
  ASSUME NEW r \in Table, NEW n \in Present(r)
  PROVE  Above(r, n) \in SUBSET Dirs /\ Upward(r, n, Above(r, n))
<1> USE TreeAssumption
<1>1. \A m \in Present(r) : r[m].parent \in Dirs \cup {None}
  BY DEF Present, Table, Rows
<1>2. ASSUME NEW S \in SUBSET Dirs, Upward(r, n, S)
      PROVE  /\ r[n].parent \in S \cup {None}
             /\ \A d \in Above(r, n) \cap Present(r) : r[d].parent \in S \cup {None}
  BY <1>2 DEF Upward, Above
<1> QED
  BY <1>1, <1>2 DEF Upward, Above

LEMMA AboveLeast ==
  ASSUME NEW r, NEW n, NEW S \in SUBSET Dirs, Upward(r, n, S)
  PROVE  Above(r, n) \subseteq S
  BY DEF Above

\* An item whose parents are the same in two tables, all the way up.
LEMMA AboveWithin ==
  ASSUME NEW r \in Table, NEW q \in Table, NEW K \in SUBSET Present(r), NEW n \in K,
         \A m \in K : q[m].parent = r[m].parent /\ r[m].parent \in K \cup {None}
  PROVE  Above(q, n) \subseteq Above(r, n)
<1> DEFINE S == Above(r, n) \cap K
<1>1. Above(r, n) \in SUBSET Dirs /\ Upward(r, n, Above(r, n))
  BY AboveUpward
<1>2. S \in SUBSET Dirs /\ Upward(q, n, S)
  BY <1>1 DEF Upward
<1> QED
  BY <1>2, AboveLeast

LEMMA AboveSame ==
  ASSUME NEW r \in Table, NEW q \in Table, NEW K \in SUBSET (Present(r) \cap Present(q)),
         NEW n \in K,
         \A m \in K : q[m].parent = r[m].parent /\ r[m].parent \in K \cup {None}
  PROVE  Above(q, n) = Above(r, n)
<1>1. Above(q, n) \subseteq Above(r, n)
  BY AboveWithin
<1>2. Above(r, n) \subseteq Above(q, n)
  BY AboveWithin
<1> QED
  BY <1>1, <1>2

LEMMA AboveLive ==
  ASSUME NEW r, Shaped(r), NEW n \in Live(r)
  PROVE  Above(r, n) \subseteq LiveDirs(r)
<1>1. \A m \in Live(r) : r[m].parent \in LiveDirs(r) \cup {None}
  BY DEF Shaped, RootKept, InPlace
<1>2. LiveDirs(r) \in SUBSET Dirs /\ Upward(r, n, LiveDirs(r))
  BY <1>1 DEF LiveDirs, Upward
<1> QED
  BY <1>2, AboveLeast

\* One step up, and on from there.
LEMMA AboveStep ==
  ASSUME NEW r, Shaped(r), NEW n \in Live(r) \ {Root}
  PROVE  /\ r[n].parent \in LiveDirs(r)
         /\ Above(r, n) = {r[n].parent} \cup Above(r, r[n].parent)
<1> USE TreeAssumption
<1>1. PICK p \in LiveDirs(r) : p = r[n].parent
  BY DEF Shaped, InPlace
<1>2. p \in Dirs /\ p \in Present(r) /\ n \in Present(r) /\ r \in Table /\ p # None
  BY DEF LiveDirs, Live, Shaped
<1>3. Above(r, n) \in SUBSET Dirs /\ Upward(r, n, Above(r, n))
  BY <1>2, AboveUpward
<1>4. Above(r, p) \in SUBSET Dirs /\ Upward(r, p, Above(r, p))
  BY <1>2, AboveUpward
<1>5. p \in Above(r, n) /\ Upward(r, p, Above(r, n))
  BY <1>1, <1>2, <1>3 DEF Upward
<1>6. Above(r, p) \subseteq Above(r, n)
  BY <1>3, <1>5, AboveLeast
<1>7. Upward(r, n, {p} \cup Above(r, p))
  BY <1>1, <1>4 DEF Upward
<1>8. Above(r, n) \subseteq {p} \cup Above(r, p)
  BY <1>2, <1>4, <1>7, AboveLeast
<1> QED
  BY <1>1, <1>5, <1>6, <1>8

LEMMA AboveRoot ==
  ASSUME NEW r, Shaped(r)
  PROVE  Above(r, Root) = {}
<1>1. Upward(r, Root, {})
  BY DEF Upward, Shaped, RootKept
<1> QED
  BY <1>1, AboveLeast

LEMMA AboveTrans ==
  ASSUME NEW r, Shaped(r), NEW n \in Live(r), NEW m \in Above(r, n)
  PROVE  m \in Live(r) /\ Above(r, m) \subseteq Above(r, n)
<1>1. m \in Live(r) /\ m \in Present(r) /\ n \in Present(r) /\ r \in Table
  BY AboveLive DEF LiveDirs, Live, Shaped
<1>2. Above(r, n) \in SUBSET Dirs /\ Upward(r, n, Above(r, n))
  BY <1>1, AboveUpward
<1>3. Upward(r, m, Above(r, n))
  BY <1>1, <1>2 DEF Upward
<1> QED
  BY <1>1, <1>2, <1>3, AboveLeast

\* Nothing is above itself.
LEMMA AboveSelf ==
  ASSUME NEW r, Shaped(r), Acyclic(r, {}), NEW n \in Live(r)
  PROVE  n \notin Above(r, n)
<1> SUFFICES ASSUME n \in Above(r, n)
             PROVE  FALSE
  OBVIOUS
<1> DEFINE S == {m \in Live(r) : m \in Above(r, n) /\ n \in Above(r, m)}
<1>1. S \in SUBSET Present(r) /\ n \in S
  BY DEF Live
<1>2. PICK m \in S : r[m].parent \notin S
  BY <1>1 DEF Acyclic
<1>3. m # Root
  BY <1>2, AboveRoot
<1>4. PICK p \in LiveDirs(r) : p = r[m].parent /\ Above(r, m) = {p} \cup Above(r, p)
  BY <1>2, <1>3, AboveStep
<1>5. p \in Live(r) /\ n \in Above(r, p) \cup {p}
  BY <1>2, <1>4 DEF LiveDirs
<1>6. p \in Above(r, n)
  BY <1>2, <1>4, AboveTrans
<1> QED
  BY <1>2, <1>4, <1>5, <1>6

-----------------------------------------------------------------------------
(* Counters.                                                               *)

Inside(r, d) == {f \in Counted(r) : d \in Above(r, f)}

Exact(r, s) == s \in [Dirs -> Int] /\ \A d \in Dirs : s[d] = Cardinality(Inside(r, d))

LEMMA FilesFinite ==
  ASSUME NEW S \in SUBSET Files
  PROVE  IsFiniteSet(S) /\ Cardinality(S) \in Nat
<1>1. IsFiniteSet(S)
  BY TreeAssumption, FS_Subset
<1> QED
  BY <1>1, FS_CardinalityType

\* Sets of files that are apart.
LEMMA SumOfTwo ==
  ASSUME NEW S \in SUBSET Files, NEW T \in SUBSET Files, S \cap T = {}
  PROVE  Cardinality(S \cup T) = Cardinality(S) + Cardinality(T)
<1>1. IsFiniteSet(S) /\ IsFiniteSet(T)
  BY FilesFinite
<1>2. IsFiniteSet({}) /\ Cardinality({}) = 0
  BY FS_EmptySet
<1>3. Cardinality(S) \in Nat /\ Cardinality(T) \in Nat
  BY FilesFinite
<1> QED
  BY <1>1, <1>2, <1>3, FS_Union

LEMMA CountedFiles ==
  ASSUME NEW r
  PROVE  Counted(r) \subseteq Files /\ Counted(r) \subseteq Live(r)
  BY DEF Counted, Ready

LEMMA ShiftedTyped ==
  ASSUME NEW r, NEW s \in [Dirs -> Int], NEW F \in SUBSET Files, NEW k \in Int
  PROVE  Shifted(s, r, F, k) \in [Dirs -> Int]
<1>1. \A d \in Dirs : Cardinality({f \in F : d \in Above(r, f)}) \in Int
  BY FilesFinite
<1>2. \A d \in Dirs : s[d] + k * Cardinality({f \in F : d \in Above(r, f)}) \in Int
  BY <1>1
<1> QED
  BY <1>2 DEF Shifted

LEMMA RecountedTyped ==
  ASSUME NEW r, NEW q, NEW s \in [Dirs -> Int]
  PROVE  Recounted(s, r, q) \in [Dirs -> Int]
<1>1. Counted(r) \ Counted(q) \in SUBSET Files /\ Counted(q) \ Counted(r) \in SUBSET Files
  BY CountedFiles
<1>2. PICK less : less = Shifted(s, r, Counted(r) \ Counted(q), -1)
  OBVIOUS
<1>3. PICK more : more = Shifted(less, q, Counted(q) \ Counted(r), 1)
  OBVIOUS
<1>4. less \in [Dirs -> Int]
  BY <1>1, <1>2, ShiftedTyped
<1>5. more \in [Dirs -> Int]
  BY <1>1, <1>3, <1>4, ShiftedTyped
<1> QED
  BY <1>2, <1>3, <1>5 DEF Recounted

\* What has no files counts none.
LEMMA GoneEmpty ==
  ASSUME NEW r, Shaped(r), NEW d \in Dirs, r[d] = None
  PROVE  Inside(r, d) = {}
<1>1. \A f \in Counted(r) : d \notin Above(r, f)
  BY CountedFiles, AboveLive DEF LiveDirs, Live, Present
<1> QED
  BY <1>1 DEF Inside

\* Files begin or cease to count, the others stay where they are.
LEMMA RecountedExact ==
  ASSUME NEW r, NEW q, NEW s, Shaped(r), Shaped(q), Exact(r, s),
         \A f \in Counted(r) \cap Counted(q) : Above(q, f) = Above(r, f)
  PROVE  Exact(q, Recounted(s, r, q))
<1>1. s \in [Dirs -> Int]
  BY DEF Exact
<1>2. Recounted(s, r, q) \in [Dirs -> Int]
  BY <1>1, RecountedTyped
<1>3. ASSUME NEW d \in Dirs
      PROVE  Recounted(s, r, q)[d] = Cardinality(Inside(q, d))
  <2>1. CASE q[d] = None
    <3>1. Recounted(s, r, q)[d] = 0
      BY <2>1 DEF Recounted
    <3>2. Inside(q, d) = {}
      BY <2>1, GoneEmpty
    <3> QED
      BY <3>1, <3>2, FS_EmptySet
  <2>2. CASE q[d] # None
    <3> DEFINE L == {f \in Counted(r) \ Counted(q) : d \in Above(r, f)}
               M == {f \in Counted(q) \ Counted(r) : d \in Above(q, f)}
               X == {f \in Counted(r) \cap Counted(q) : d \in Above(r, f)}
    <3>1. L \in SUBSET Files /\ M \in SUBSET Files /\ X \in SUBSET Files
      BY CountedFiles
    <3>2. Inside(r, d) = L \cup X /\ L \cap X = {}
      BY DEF Inside
    <3>3. Inside(q, d) = X \cup M /\ X \cap M = {}
      BY DEF Inside
    <3>4. Recounted(s, r, q)[d] = (s[d] + (-1) * Cardinality(L)) + 1 * Cardinality(M)
      BY <2>2 DEF Recounted, Shifted
    <3>5. s[d] = Cardinality(L \cup X)
      BY <3>2 DEF Exact
    <3> HIDE DEF L, M, X
    <3>6. /\ Cardinality(L) \in Nat /\ Cardinality(M) \in Nat /\ Cardinality(X) \in Nat
          /\ Cardinality(L \cup X) = Cardinality(L) + Cardinality(X)
          /\ Cardinality(X \cup M) = Cardinality(X) + Cardinality(M)
      BY <3>1, <3>2, <3>3, SumOfTwo, FilesFinite
    <3> QED
      BY <3>3, <3>4, <3>5, <3>6
  <2> QED
    BY <2>1, <2>2
<1> QED
  BY <1>2, <1>3 DEF Exact

LEMMA SameExact ==
  ASSUME NEW r, NEW q, NEW s, Exact(r, s), Counted(q) = Counted(r),
         \A f \in Counted(r) : Above(q, f) = Above(r, f)
  PROVE  Exact(q, s)
<1>1. \A d \in Dirs : Inside(q, d) = Inside(r, d)
  BY DEF Inside
<1> QED
  BY <1>1 DEF Exact

\* What is live before and after hangs where it hung.
LEMMA KeptAbove ==
  ASSUME NEW r, NEW q, Shaped(r), Shaped(q),
         \A m \in Live(r) \cap Live(q) : q[m].parent = r[m].parent,
         NEW f \in Live(r) \cap Live(q)
  PROVE  Above(q, f) = Above(r, f)
<1> DEFINE K == Live(r) \cap Live(q)
<1>1. K \in SUBSET (Present(r) \cap Present(q)) /\ r \in Table /\ q \in Table
  BY DEF Live, Shaped
<1>2. \A m \in K : r[m].parent \in K \cup {None}
  <2> TAKE m \in K
  <2>1. r[m].parent \in LiveDirs(r) \cup {None}
    BY DEF Shaped, RootKept, InPlace
  <2>2. q[m].parent \in LiveDirs(q) \cup {None}
    BY DEF Shaped, RootKept, InPlace
  <2> QED
    BY <2>1, <2>2 DEF LiveDirs
<1>3. f \in K /\ \A m \in K : q[m].parent = r[m].parent
  OBVIOUS
<1> HIDE DEF K
<1> QED
  BY <1>1, <1>2, <1>3, AboveSame

-----------------------------------------------------------------------------
(* A move carries what is below the item.                                  *)

\* Above an item below n there is what is not above n only up to n.
LEMMA AboveThrough ==
  ASSUME NEW r, Shaped(r), NEW n \in Live(r), NEW f \in Live(r),
         f = n \/ n \in Above(r, f)
  PROVE  \A d \in Above(r, f) : d \in Above(r, n) \/ d = n \/ n \in Above(r, d)
<1> USE TreeAssumption
<1> DEFINE S == {d \in LiveDirs(r) : d \in Above(r, n) \/ d = n \/ n \in Above(r, d)}
<1>1. \A m \in Live(r) : (m = n \/ n \in Above(r, m)) => r[m].parent \in S \cup {None}
  <2> TAKE m \in Live(r)
  <2>1. CASE m = Root
    BY <2>1 DEF Shaped, RootKept
  <2>2. CASE m # Root
    <3>1. PICK p \in LiveDirs(r) : p = r[m].parent /\ Above(r, m) = {p} \cup Above(r, p)
      BY <2>2, AboveStep
    <3> QED
      BY <3>1
  <2> QED
    BY <2>1, <2>2
<1>2. \A m \in Above(r, n) : m \in Live(r) /\ r[m].parent \in S \cup {None}
  <2> TAKE m \in Above(r, n)
  <2>1. m \in Live(r) /\ Above(r, m) \subseteq Above(r, n)
    BY AboveTrans
  <2>2. CASE m = Root
    BY <2>1, <2>2 DEF Shaped, RootKept
  <2>3. CASE m # Root
    <3>1. PICK p \in LiveDirs(r) : p = r[m].parent /\ Above(r, m) = {p} \cup Above(r, p)
      BY <2>1, <2>3, AboveStep
    <3> QED
      BY <2>1, <3>1
  <2> QED
    BY <2>1, <2>2, <2>3
<1>3. S \in SUBSET Dirs /\ Upward(r, f, S)
  <2>1. \A d \in S : r[d].parent \in S \cup {None}
    BY <1>1, <1>2 DEF LiveDirs
  <2> QED
    BY <1>1, <2>1 DEF Upward, LiveDirs
<1> QED
  BY <1>3, AboveLeast

\* Only n hangs elsewhere.
Hung(r, q, n) ==
  /\ Shaped(r) /\ Shaped(q) /\ Acyclic(r, {}) /\ Acyclic(q, {})
  /\ n \in Live(r) /\ Live(q) = Live(r) /\ Counted(q) = Counted(r)
  /\ \A m \in Live(r) \ {n} : q[m].parent = r[m].parent

LEMMA HungBack ==
  ASSUME NEW r, NEW q, NEW n, Hung(r, q, n)
  PROVE  Hung(q, r, n)
  BY DEF Hung

LEMMA HungAbove ==
  ASSUME NEW r, NEW q, NEW n, Hung(r, q, n), NEW f \in Live(r)
  PROVE  Above(r, f) \subseteq Above(q, f) \cup Above(r, n)
<1> DEFINE S == Above(q, f) \cup Above(r, n)
<1>1. /\ n \in Present(r) /\ f \in Present(r) /\ f \in Present(q) /\ f \in Live(q)
      /\ r \in Table /\ q \in Table
  BY DEF Hung, Shaped, Live
<1>2. Above(q, f) \in SUBSET Dirs /\ Upward(q, f, Above(q, f))
  BY <1>1, AboveUpward
<1>3. Above(r, n) \in SUBSET Dirs /\ Upward(r, n, Above(r, n))
  BY <1>1, AboveUpward
<1>4. Above(q, f) \subseteq Live(r) /\ Live(r) \subseteq Present(q)
  BY <1>1, AboveLive DEF Hung, LiveDirs, Live
<1>5. r[f].parent \in S \cup {None}
  BY <1>2, <1>3 DEF Upward, Hung
<1>6. \A d \in S \cap Present(r) : r[d].parent \in S \cup {None}
  BY <1>2, <1>3, <1>4 DEF Upward, Hung
<1>7. S \in SUBSET Dirs /\ Upward(r, f, S)
  BY <1>2, <1>3, <1>5, <1>6 DEF Upward
<1> QED
  BY <1>7, AboveLeast

LEMMA HungBelow ==
  ASSUME NEW r, NEW q, NEW n, Hung(r, q, n), NEW f \in Live(r), n \in Above(r, f)
  PROVE  n \in Above(q, f)
  BY HungAbove, AboveSelf DEF Hung

LEMMA HungOthers ==
  ASSUME NEW r, NEW q, NEW n, Hung(r, q, n), NEW f \in Live(r), f # n, n \notin Above(r, f)
  PROVE  Above(q, f) = Above(r, f)
<1> DEFINE K == {m \in Live(r) : m # n /\ n \notin Above(r, m)}
<1>1. K \in SUBSET (Present(r) \cap Present(q)) /\ f \in K /\ r \in Table /\ q \in Table
  BY DEF Hung, Shaped, Live
<1>2. \A m \in K : q[m].parent = r[m].parent /\ r[m].parent \in K \cup {None}
  <2> TAKE m \in K
  <2>1. q[m].parent = r[m].parent
    BY DEF Hung
  <2>2. CASE m = Root
    BY <2>1, <2>2 DEF Hung, Shaped, RootKept
  <2>3. CASE m # Root
    <3>1. PICK p \in LiveDirs(r) : p = r[m].parent /\ Above(r, m) = {p} \cup Above(r, p)
      BY <2>3, AboveStep DEF Hung
    <3> QED
      BY <2>1, <3>1 DEF LiveDirs
  <2> QED
    BY <2>1, <2>2, <2>3
<1> HIDE DEF K
<1> QED
  BY <1>1, <1>2, AboveSame

\* What a directory above n in one table, and not in the other, has below n.
LEMMA HungApart ==
  ASSUME NEW r, NEW q, NEW n, Hung(r, q, n), NEW f \in Live(r), f = n \/ n \in Above(r, f),
         NEW d \in Above(r, n), d \notin Above(q, n)
  PROVE  d \notin Above(q, f)
<1> SUFFICES ASSUME d \in Above(q, f)
             PROVE  FALSE
  OBVIOUS
<1>1. n \notin Above(r, n) /\ n \in Live(q) /\ f \in Live(q) /\ Shaped(q) /\ Shaped(r)
      /\ n \in Live(r)
  BY AboveSelf DEF Hung
<1>2. f = n \/ n \in Above(q, f)
  BY HungBelow
<1>3. d \in Above(q, n) \/ d = n \/ n \in Above(q, d)
  BY <1>1, <1>2, AboveThrough
<1>4. d \in Live(r) /\ Above(r, d) \subseteq Above(r, n)
  BY <1>1, AboveTrans
<1>5. n \in Above(q, d) => n \in Above(r, d)
  <2>1. Hung(q, r, n) /\ d \in Live(q)
    BY <1>4, HungBack DEF Hung
  <2> QED
    BY <2>1, HungBelow
<1> QED
  BY <1>1, <1>3, <1>4, <1>5

LEMMA CarriedExact ==
  ASSUME NEW r, NEW q, NEW n, Hung(r, q, n), NEW s, Exact(r, s)
  PROVE  Exact(q, Carried(s, r, q, n))
<1> USE TreeAssumption
<1> DEFINE B == {f \in Counted(r) : f = n \/ n \in Above(r, f)}
           k == IF n \in Files THEN Cardinality({n} \cap Counted(r)) ELSE s[n]
<1>1. /\ Shaped(r) /\ Shaped(q) /\ n \in Live(r) /\ n \in Live(q) /\ n \in Nodes
      /\ Counted(q) = Counted(r) /\ Counted(r) \subseteq Files /\ Counted(r) \subseteq Live(r)
      /\ Live(q) = Live(r)
  BY CountedFiles DEF Hung, Live, Present
<1>2. k = Cardinality(B)
  <2>1. CASE n \in Files
    <3>1. \A f \in Counted(r) : n \notin Above(r, f)
      BY <2>1 DEF Above
    <3>2. B = {n} \cap Counted(r)
      BY <3>1
    <3> QED
      BY <2>1, <3>2
  <2>2. CASE n \notin Files
    <3>1. B = Inside(r, n)
      BY <1>1, <2>2 DEF Inside
    <3> QED
      BY <1>1, <2>2, <3>1 DEF Exact, Nodes
  <2> QED
    BY <2>1, <2>2
<1>3. B \in SUBSET Files /\ Cardinality(B) \in Nat
  BY <1>1, FilesFinite
<1>4. Carried(s, r, q, n) =
        [d \in Dirs |-> s[d] - (IF d \in Above(r, n) THEN Cardinality(B) ELSE 0)
                             + (IF d \in Above(q, n) THEN Cardinality(B) ELSE 0)]
  BY <1>2 DEF Carried
<1>5. \A f \in B : f \in Live(r) /\ (f = n \/ n \in Above(r, f)) /\ (f = n \/ n \in Above(q, f))
  BY <1>1, HungBelow
<1>6. \A f \in B : Above(r, n) \subseteq Above(r, f) /\ Above(q, n) \subseteq Above(q, f)
  BY <1>1, <1>5, AboveTrans
<1>7. \A f \in Counted(r) \ B : Above(q, f) = Above(r, f)
  BY <1>1, HungOthers
<1>8. \A f \in B : /\ Above(r, f) \subseteq Above(q, f) \cup Above(r, n)
                   /\ Above(q, f) \subseteq Above(r, f) \cup Above(q, n)
  BY <1>1, <1>5, HungAbove, HungBack
<1>9. \A f \in B : \A d \in Above(r, n) : d \notin Above(q, n) => d \notin Above(q, f)
  BY <1>5, HungApart
<1>10. \A f \in B : \A d \in Above(q, n) : d \notin Above(r, n) => d \notin Above(r, f)
  BY <1>1, <1>5, HungApart, HungBack
<1> HIDE DEF B
<1>11. ASSUME NEW d \in Dirs
       PROVE  /\ s[d] \in Int
              /\ Carried(s, r, q, n)[d] = Cardinality(Inside(q, d))
  <2> DEFINE X == {f \in Counted(r) \ B : d \in Above(r, f)}
             R == {f \in B : d \in Above(r, f)}
             Q == {f \in B : d \in Above(q, f)}
  <2>1. X \in SUBSET Files /\ R \in SUBSET Files /\ Q \in SUBSET Files
    BY <1>1, <1>3
  <2>2. Inside(r, d) = X \cup R /\ X \cap R = {}
    BY DEF Inside, B
  <2>3. Inside(q, d) = X \cup Q /\ X \cap Q = {}
    BY <1>1, <1>7 DEF Inside, B
  <2>4. s[d] = Cardinality(X \cup R)
    BY <2>2 DEF Exact
  <2>5. Carried(s, r, q, n)[d] =
          s[d] - (IF d \in Above(r, n) THEN Cardinality(B) ELSE 0)
               + (IF d \in Above(q, n) THEN Cardinality(B) ELSE 0)
    BY <1>4
  <2>6. d \in Above(r, n) => R = B
    BY <1>6
  <2>7. d \in Above(q, n) => Q = B
    BY <1>6
  <2>8. d \in Above(r, n) /\ d \notin Above(q, n) => Q = {}
    BY <1>9
  <2>9. d \in Above(q, n) /\ d \notin Above(r, n) => R = {}
    BY <1>10
  <2>10. d \notin Above(r, n) /\ d \notin Above(q, n) => R = Q
    BY <1>8
  <2> HIDE DEF X, R, Q
  <2>11. /\ Cardinality(X) \in Nat /\ Cardinality(R) \in Nat /\ Cardinality(Q) \in Nat
         /\ Cardinality(X \cup R) = Cardinality(X) + Cardinality(R)
         /\ Cardinality(X \cup Q) = Cardinality(X) + Cardinality(Q)
    BY <2>1, <2>2, <2>3, SumOfTwo, FilesFinite
  <2>12. Cardinality({}) = 0
    BY FS_EmptySet
  <2>13. s[d] = Cardinality(X) + Cardinality(R)
    BY <2>4, <2>11
  <2>14. Cardinality(Inside(q, d)) = Cardinality(X) + Cardinality(Q)
    BY <2>3, <2>11
  <2>15. CASE d \in Above(r, n) /\ d \in Above(q, n)
    BY <1>3, <2>5, <2>6, <2>7, <2>11, <2>13, <2>14, <2>15
  <2>16. CASE d \in Above(r, n) /\ d \notin Above(q, n)
    <3>1. Cardinality(R) = Cardinality(B) /\ Cardinality(Q) = 0
      BY <2>6, <2>8, <2>12, <2>16
    <3> QED
      BY <1>3, <2>5, <2>11, <2>13, <2>14, <2>16, <3>1
  <2>17. CASE d \notin Above(r, n) /\ d \in Above(q, n)
    <3>1. Cardinality(Q) = Cardinality(B) /\ Cardinality(R) = 0
      BY <2>7, <2>9, <2>12, <2>17
    <3> QED
      BY <1>3, <2>5, <2>11, <2>13, <2>14, <2>17, <3>1
  <2>18. CASE d \notin Above(r, n) /\ d \notin Above(q, n)
    BY <1>3, <2>5, <2>10, <2>11, <2>13, <2>14, <2>18
  <2> QED
    BY <2>15, <2>16, <2>17, <2>18
<1>12. Carried(s, r, q, n) \in [Dirs -> Int]
  BY <1>3, <1>4, <1>11
<1> QED
  BY <1>11, <1>12 DEF Exact

-----------------------------------------------------------------------------
(* Every step keeps the counters exact.                                    *)

Tallied == stale = {} => Exact(row, stats)

LEMMA GoodShaped ==
  ASSUME NEW r, Good(r)
  PROVE  Shaped(r) /\ Acyclic(r, {})
  BY DEF Good, Sound, Shaped

\* Live items stay where they are, whatever comes and goes.
LEMMA KeptExact ==
  ASSUME NEW r, NEW q, NEW s, Shaped(r), Shaped(q), Exact(r, s),
         \A m \in Live(r) \cap Live(q) : q[m].parent = r[m].parent
  PROVE  /\ Exact(q, Recounted(s, r, q))
         /\ Counted(q) = Counted(r) => Exact(q, s)
<1>1. \A f \in Counted(r) \cap Counted(q) : Above(q, f) = Above(r, f)
  BY CountedFiles, KeptAbove
<1> QED
  BY <1>1, RecountedExact, SameExact

LEMMA WrittenTallied ==
  ASSUME IInv, Tallied, IInv', stale' = {} => stale = {}, NEW q, NEW s,
         stale' = {} /\ Exact(row, stats) => Exact(q, s),
         (row' = q /\ stats' = s) \/ UNCHANGED <<row, stats>>
  PROVE  Tallied'
<1> SUFFICES ASSUME stale' = {}
             PROVE  Exact(row, stats)'
  BY DEF Tallied
<1>1. Exact(row, stats)
  BY DEF Tallied
<1>2. CASE row' = q /\ stats' = s
  BY <1>1, <1>2 DEF Exact, Inside, Counted, Ready, Live, Present, Above, Upward
<1>3. CASE UNCHANGED <<row, stats>>
  BY <1>1, <1>3 DEF Exact, Inside, Counted, Ready, Live, Present, Above, Upward
<1> QED
  BY <1>2, <1>3

\* The two tables of a step are good as long as nothing was overtaken.
LEMMA BothShaped ==
  ASSUME IInv, IInv', stale' = {}, stale = {}
  PROVE  /\ Shaped(row) /\ Shaped(row') /\ Acyclic(row, {}) /\ Acyclic(row', {})
         /\ row \in Table /\ row' \in Table /\ Good(row)
<1>1. Good(row) /\ Good(row)'
  BY DEF IInv, TreeOK, Good
<1>2. PICK q : q = row'
  OBVIOUS
<1>3. Good(q)
  BY <1>1, <1>2 DEF Good, Sound, RootKept, InPlace, TrashShape, Acyclic, Trashed, Live,
     LiveDirs, Present
<1> QED
  BY <1>1, <1>2, <1>3, GoodShaped DEF Good, Sound

LEMMA KeptTallied ==
  ASSUME IInv, IInv', Tallied, stale' = {} => stale = {},
         stale' = {} => \A m \in Live(row) \cap Live(row') : row'[m].parent = row[m].parent,
         \/ stats' = Recounted(stats, row, row')
         \/ stats' = stats /\ (stale' = {} => Counted(row') = Counted(row))
         \/ UNCHANGED <<row, stats>>
  PROVE  Tallied'
<1> SUFFICES ASSUME stale' = {}
             PROVE  Exact(row, stats)'
  BY DEF Tallied
<1>1. Exact(row, stats) /\ Shaped(row) /\ Shaped(row')
  BY BothShaped DEF Tallied
<1>2. PICK q, s : q = row' /\ s = stats'
  OBVIOUS
<1>3. Exact(q, Recounted(stats, row, q)) /\ (Counted(q) = Counted(row) => Exact(q, stats))
  BY <1>1, <1>2, KeptExact
<1>4. CASE UNCHANGED <<row, stats>>
  BY <1>1, <1>4 DEF Exact, Inside, Counted, Ready, Live, Present, Above, Upward
<1>5. Exact(q, s) \/ UNCHANGED <<row, stats>>
  BY <1>2, <1>3
<1> QED
  BY <1>2, <1>4, <1>5 DEF Exact, Inside, Counted, Ready, Live, Present, Above, Upward

LEMMA InsertTallied ==
  ASSUME IInv, IInv', Tallied, NEW f \in Files, NEW p \in Dirs, NEW name \in Names,
         NEW ok \in BOOLEAN, InsertFile(f, p, name, ok)
  PROVE  Tallied'
<1>1. stale' = stale
  BY DEF InsertFile
<1>2. ASSUME stale' = {}
      PROVE  \A m \in Live(row) \cap Live(row') : row'[m].parent = row[m].parent
  <2>1. row \in Table /\ f \notin Present(row)
    BY <1>1, <1>2 DEF IInv, TreeOK, Sound, InsertFile, Fresh
  <2>2. row' = row \/ \A m \in Nodes \ {f} : row'[m] = row[m]
    BY <2>1 DEF InsertFile, Write, Table
  <2> QED
    BY <2>1, <2>2 DEF Live, Present
<1>3. stats' = Recounted(stats, row, row') \/ UNCHANGED <<row, stats>>
  BY DEF InsertFile, Write
<1> QED
  BY <1>1, <1>2, <1>3, KeptTallied

LEMMA FileRowsTallied ==
  ASSUME IInv, IInv', Tallied, NEW f \in Files, PublishUpload(f) \/ DropUpload(f)
  PROVE  Tallied'
<1>1. stale' = stale
  BY DEF PublishUpload, DropUpload
<1>2. CASE PublishUpload(f)
  <2>1. ASSUME stale' = {}
        PROVE  \A m \in Live(row) \cap Live(row') : row'[m].parent = row[m].parent
    <3>1. row \in Table /\ f \in Nodes /\ row[f] \in Rows
      BY <1>1, <1>2, <2>1 DEF IInv, TreeOK, Sound, PublishUpload, Table, Live, Present, Nodes
    <3>2. PICK x : x = [row[f] EXCEPT !.ready = TRUE]
      OBVIOUS
    <3>3. x.parent = row[f].parent
      BY <3>1, <3>2 DEF Rows
    <3>4. row' = row \/ row' = [row EXCEPT ![f] = x]
      BY <1>2, <3>2 DEF PublishUpload, Write
    <3> QED
      BY <3>1, <3>3, <3>4 DEF Table, Live, Present
  <2>2. stats' = Recounted(stats, row, row') \/ UNCHANGED <<row, stats>>
    BY <1>2 DEF PublishUpload, Write
  <2> QED
    BY <1>1, <2>1, <2>2, KeptTallied
<1>3. CASE DropUpload(f)
  <2>1. /\ row' = Erased(row, {f}) /\ stats' = stats
        /\ f \in Present(row) /\ ~row[f].ready
    BY <1>3 DEF DropUpload
  <2>2. \A m \in Nodes \ {f} : row'[m] = row[m]
    BY <2>1 DEF Erased
  <2>3. row'[f] = None /\ f \in Nodes
    BY <2>1 DEF Erased, Present
  <2>4. Live(row') \cup {f} = Live(row) \cup {f} /\ f \notin Live(row')
    BY <2>2, <2>3 DEF Live, Present
  <2>5. Counted(row') = Counted(row)
    BY <2>1, <2>2, <2>4 DEF Counted, Ready, Live, Present
  <2>6. \A m \in Live(row) \cap Live(row') : row'[m].parent = row[m].parent
    BY <2>2, <2>4 DEF Live, Present
  <2> QED
    BY <1>1, <2>1, <2>5, <2>6, KeptTallied
<1> QED
  BY <1>2, <1>3

LEMMA RenameTallied ==
  ASSUME IInv, IInv', Tallied, NEW n \in Nodes, NEW name \in Names, Rename(n, name)
  PROVE  Tallied'
<1>1. stale' = stale /\ stats' = stats /\ n \in Present(row)
  BY DEF Rename, Write, Live
<1>2. ASSUME stale' = {}
      PROVE  /\ \A m \in Live(row) \cap Live(row') : row'[m].parent = row[m].parent
             /\ Counted(row') = Counted(row)
  <2>1. row \in Table /\ row[n] \in Rows /\ row[n] # None
    BY <1>1, <1>2 DEF IInv, TreeOK, Sound, Table, Present
  <2>2. PICK x : x = [row[n] EXCEPT !.name = name]
    OBVIOUS
  <2>3. x \in Rows /\ x.parent = row[n].parent /\ x.troot = row[n].troot /\ x.ready = row[n].ready
    BY <2>1, <2>2 DEF Rows
  <2>4. x # None
    BY <2>3, TreeAssumption
  <2>5. row' = row \/ row' = [row EXCEPT ![n] = x]
    BY <2>2 DEF Rename, Write
  <2>6. \A m \in Nodes : /\ row'[m] = None <=> row[m] = None
                         /\ row'[m].parent = row[m].parent /\ row'[m].troot = row[m].troot
                         /\ row'[m].ready = row[m].ready
    BY <2>1, <2>3, <2>4, <2>5 DEF Table
  <2>7. Live(row') = Live(row)
    BY <2>6 DEF Live, Present
  <2> QED
    BY <2>6, <2>7 DEF Counted, Ready, Live, Present
<1> QED
  BY <1>1, <1>2, KeptTallied

LEMMA MoveTallied ==
  ASSUME IInv, IInv', Tallied, NEW n \in Nodes, NEW p \in Dirs, Move(n, p)
  PROVE  Tallied'
<1>1. PICK q : q = Moved(row, n, p)
  OBVIOUS
<1>2. PICK s : s = Carried(stats, row, q, n)
  OBVIOUS
<1>3. stale' = stale /\ n \in Live(row)
      /\ ((row' = q /\ stats' = s) \/ UNCHANGED <<row, stats>>)
  BY <1>1, <1>2 DEF Move, Write
<1>4. CASE UNCHANGED <<row, stats>>
  BY <1>3, <1>4, KeptTallied
<1>5. CASE row' = q
  <2>1. ASSUME stale' = {}, Exact(row, stats)
        PROVE  Exact(q, s)
    <3>1. /\ Shaped(row) /\ Shaped(q) /\ Acyclic(row, {}) /\ Acyclic(q, {}) /\ row \in Table
      BY <1>3, <1>5, <2>1, BothShaped
    <3>2. row[n] \in Rows /\ row[n] # None
      BY <1>3, <3>1 DEF Live, Present, Table
    <3>3. PICK x : x = [row[n] EXCEPT !.parent = p]
      OBVIOUS
    <3>4. x \in Rows /\ x.troot = row[n].troot /\ x.ready = row[n].ready
      BY <3>2, <3>3 DEF Rows
    <3>5. x # None
      BY <3>4, TreeAssumption
    <3>6. q = [row EXCEPT ![n] = x]
      BY <1>1, <3>3 DEF Moved
    <3>7. \A m \in Nodes : /\ q[m] = None <=> row[m] = None
                           /\ q[m].troot = row[m].troot /\ q[m].ready = row[m].ready
      BY <3>1, <3>2, <3>4, <3>5, <3>6 DEF Table
    <3>8. \A m \in Live(row) \ {n} : q[m].parent = row[m].parent
      BY <3>1, <3>6 DEF Table, Live, Present
    <3>9. Live(q) = Live(row)
      BY <3>7 DEF Live, Present
    <3>10. Counted(q) = Counted(row)
      BY <3>7, <3>9 DEF Counted, Ready, Live, Present
    <3>11. Hung(row, q, n)
      BY <1>3, <3>1, <3>8, <3>9, <3>10 DEF Hung
    <3> QED
      BY <1>2, <2>1, <3>11, CarriedExact
  <2> QED
    BY <1>3, <2>1, WrittenTallied
<1> QED
  BY <1>3, <1>4, <1>5

LEMMA CopyTallied ==
  ASSUME IInv, IInv', Tallied, NEW n \in Nodes, NEW p \in Dirs, Copy(n, p)
  PROVE  Tallied'
<1>1. PICK O : O = Below(row, Live(row), n)
  OBVIOUS
<1>2. PICK f \in [O -> Fresh], name \in Names :
        \/ row' = Copied(O, n, f, p, name) /\ stats' = Recounted(stats, row, row')
        \/ UNCHANGED <<row, stats>>
  BY <1>1 DEF Copy, Write
<1>3. stale' = stale
  BY DEF Copy
<1>4. ASSUME stale' = {}
      PROVE  \A m \in Live(row) \cap Live(row') : row'[m].parent = row[m].parent
  <2>1. Present(row) \subseteq used
    BY <1>3, <1>4 DEF IInv, TreeOK
  <2>2. \A m \in Present(row) : ~\E o \in O : f[o] = m
    BY <1>2, <2>1 DEF Fresh
  <2>3. row' = row \/ \A m \in Present(row) : row'[m] = row[m]
    BY <1>2, <2>2 DEF Copied, Present
  <2> QED
    BY <2>3 DEF Live
<1> QED
  BY <1>2, <1>3, <1>4, KeptTallied

LEMMA ErasedTallied ==
  ASSUME IInv, IInv', Tallied, stale' = {} => stale = {}, NEW S,
         \/ row' = Erased(row, S) /\ stats' = Recounted(stats, row, row')
         \/ UNCHANGED <<row, stats>>
  PROVE  Tallied'
<1>1. \A m \in Live(row) \cap Live(row') : row'[m].parent = row[m].parent
  BY DEF Erased, Live, Present
<1> QED
  BY <1>1, KeptTallied

LEMMA RetentionTallied ==
  ASSUME IInv, IInv', Tallied, TrashStep
  PROVE  Tallied'
<1>1. CASE EmptyTrash
  <2>1. /\ stale' = stale
        /\ \/ row' = Erased(row, Trashed(row)) /\ stats' = Recounted(stats, row, row')
           \/ UNCHANGED <<row, stats>>
    BY <1>1 DEF EmptyTrash, Write
  <2> QED
    BY <2>1, ErasedTallied
<1>2. ASSUME NEW E, CleanupTrash(E)
      PROVE  Tallied'
  <2>1. PICK S : /\ stale' = stale
                 /\ row' = Erased(row, S) /\ stats' = Recounted(stats, row, row')
    BY <1>2 DEF CleanupTrash
  <2> QED
    BY <2>1, ErasedTallied
<1> QED
  BY <1>1, <1>2 DEF TrashStep

LEMMA FinishStale ==
  ASSUME NEW h, NEW O, Finish(h, O), stale' = {}
  PROVE  stale = {} /\ O = {}
  BY DEF Finish

LEMMA CreateDirectoryTallied ==
  ASSUME IInv, IInv', Tallied, NEW h \in Handlers, CreateDirectory(h)
  PROVE  Tallied'
<1>1. \E O : Finish(h, O)
  BY DEF CreateDirectory
<1>2. PICK d \in Fresh \cap Dirs : \E x :
        /\ (row' = [row EXCEPT ![d] = x] \/ row' = row)
        /\ stats' = stats
  BY DEF CreateDirectory, Write
<1>3. stale' = {} => stale = {}
  BY <1>1, FinishStale
<1>4. ASSUME stale' = {}
      PROVE  /\ \A m \in Live(row) \cap Live(row') : row'[m].parent = row[m].parent
             /\ Counted(row') = Counted(row)
  <2>1. row \in Table /\ d \notin Present(row) /\ d \notin Files /\ d \in Nodes
    BY <1>2, <1>3, <1>4, TreeAssumption DEF IInv, TreeOK, Sound, Fresh
  <2>2. \A m \in Nodes \ {d} : row'[m] = row[m]
    BY <1>2, <2>1 DEF Table
  <2>3. \A m \in Nodes \ {d} : m \in Live(row') <=> m \in Live(row)
    BY <2>2 DEF Live, Present
  <2>4. Counted(row') = Counted(row)
    BY <2>1, <2>2, <2>3 DEF Counted, Ready, Live, Present
  <2> QED
    BY <2>1, <2>2, <2>4 DEF Live, Present
<1> QED
  BY <1>2, <1>3, <1>4, KeptTallied

LEMMA TrashItemTallied ==
  ASSUME IInv, IInv', Tallied, NEW h \in Handlers, TrashItem(h)
  PROVE  Tallied'
<1>1. PICK n : n = job[h].node
  OBVIOUS
<1>2. /\ Finish(h, {n} \cap Trashed(row))
      /\ \/ /\ n \in Present(row) /\ row' = Discarded(row, n)
            /\ stats' = Recounted(stats, row, row')
         \/ UNCHANGED <<row, stats>>
  BY <1>1 DEF TrashItem, Write
<1>3. stale' = {} => stale = {} /\ n \notin Trashed(row)
  BY <1>2, FinishStale
<1>4. CASE UNCHANGED <<row, stats>>
  BY <1>3, <1>4, KeptTallied
<1>5. ASSUME n \in Present(row), row' = Discarded(row, n),
             stats' = Recounted(stats, row, row')
      PROVE  Tallied'
  <2>1. ASSUME stale' = {}
        PROVE  \A m \in Live(row) \cap Live(row') : row'[m].parent = row[m].parent
    <3>1. row \in Table /\ n \in Live(row) /\ n \in Nodes /\ n # None
      BY <1>3, <1>5, <2>1, TreeAssumption DEF IInv, TreeOK, Sound, Live, Trashed, Present, Nodes
    <3>2. PICK T : T = Below(row, Live(row), n)
      OBVIOUS
    <3>3. n \in T /\ T \subseteq Live(row)
      BY <3>1, <3>2, BelowClosed
    <3>4. PICK marked :
            marked = [m \in Nodes |-> IF m \in T THEN [row[m] EXCEPT !.troot = n] ELSE row[m]]
      OBVIOUS
    <3>5. row' = [marked EXCEPT ![n].restore = row[n].parent, ![n].parent = None]
      BY <1>5, <3>2, <3>4 DEF Discarded
    <3>6. \A m \in T : row[m] \in Rows
      BY <3>1, <3>3 DEF Table, Live, Present
    <3>7. \A m \in T : marked[m].troot = n
      <4> TAKE m \in T
      <4>1. marked[m] = [row[m] EXCEPT !.troot = n]
        BY <3>3, <3>4 DEF Live, Present
      <4> QED
        BY <3>6, <4>1 DEF Rows
    <3>8. \A m \in Nodes \ {n} : row'[m] = marked[m]
      BY <3>4, <3>5
    <3>9. row'[n].troot = n
      <4>1. marked[n] = [row[n] EXCEPT !.troot = n] /\ row[n] \in Rows
        BY <3>1, <3>3, <3>4, <3>6
      <4>2. row'[n] = [[marked[n] EXCEPT !.restore = row[n].parent] EXCEPT !.parent = None]
        BY <3>1, <3>4, <3>5
      <4> QED
        BY <4>1, <4>2 DEF Rows
    <3>10. \A m \in Live(row') : m \in Nodes /\ m \notin T
      BY <3>1, <3>7, <3>8, <3>9 DEF Live, Present
    <3>11. \A m \in Live(row') : row'[m] = row[m]
      BY <3>3, <3>4, <3>8, <3>10
    <3> QED
      BY <3>11
  <2> QED
    BY <1>3, <1>5, <2>1, KeptTallied
<1> QED
  BY <1>2, <1>4, <1>5

LEMMA DropItemTallied ==
  ASSUME IInv, IInv', Tallied, NEW h \in Handlers, DropItem(h)
  PROVE  Tallied'
<1>1. PICK S : S = {job[h].node}
  OBVIOUS
<1>2. /\ Finish(h, {})
      /\ \/ row' = Erased(row, S) /\ stats' = Recounted(stats, row, row')
         \/ UNCHANGED <<row, stats>>
  BY <1>1 DEF DropItem, Write
<1>3. stale' = {} => stale = {}
  BY <1>2, FinishStale
<1> QED
  BY <1>2, <1>3, ErasedTallied

LEMMA PurgeItemTallied ==
  ASSUME IInv, IInv', Tallied, NEW h \in Handlers, PurgeItem(h)
  PROVE  Tallied'
<1>1. PICK S : S = Below(row, Present(row), job[h].node)
  OBVIOUS
<1>2. PICK O : Finish(h, O)
  BY DEF PurgeItem
<1>3. \/ row' = Erased(row, S) /\ stats' = Recounted(stats, row, row')
      \/ UNCHANGED <<row, stats>>
  BY <1>1 DEF PurgeItem, Write
<1>4. stale' = {} => stale = {}
  BY <1>2, FinishStale
<1> QED
  BY <1>3, <1>4, ErasedTallied

\* A restore hangs the item up while it is still in the trash.
LEMMA HungInTrash ==
  ASSUME NEW r, NEW s, Good(r), Exact(r, s), NEW n \in Trashed(r), NEW p \in Dirs
  PROVE  Shaped(Moved(r, n, p)) /\ Exact(Moved(r, n, p), s)
<1>1. PICK q : q = Moved(r, n, p)
  OBVIOUS
<1>2. /\ r \in Table /\ n \in Nodes /\ r[n] \in Rows /\ r[n] # None /\ r[n].troot # None
      /\ Shaped(r)
  BY GoodShaped DEF Good, Sound, Trashed, Present, Table
<1>3. PICK x : x = [r[n] EXCEPT !.parent = p]
  OBVIOUS
<1>4. x \in Rows /\ x.troot = r[n].troot
  BY <1>2, <1>3 DEF Rows
<1>5. x # None
  BY <1>4, TreeAssumption
<1>6. q \in Table /\ q[n] = x /\ \A m \in Nodes \ {n} : q[m] = r[m]
  BY <1>1, <1>2, <1>3, <1>4 DEF Moved, Table
<1>7. Live(q) = Live(r) /\ n \notin Live(r) /\ Live(r) \subseteq Nodes
  BY <1>2, <1>4, <1>5, <1>6 DEF Live, Present
<1>8. Shaped(q) /\ Counted(q) = Counted(r)
  BY <1>2, <1>6, <1>7 DEF Shaped, RootKept, InPlace, LiveDirs, Counted, Ready
<1>9. Exact(q, s)
  BY <1>2, <1>6, <1>7, <1>8, KeptExact
<1> QED
  BY <1>1, <1>8, <1>9

LEMMA RestoreItemTallied ==
  ASSUME IInv, IInv', Tallied, NEW h \in Handlers, RestoreItem(h)
  PROVE  Tallied'
<1>1. PICK n \in Nodes, p \in Dirs : n = job[h].node /\ p = job[h].parent
  BY DEF IInv, JobsOK, RestoreItem
<1>2. PICK there, q, s :
        /\ there = Moved(row, n, p) /\ q = Restored(row, n, p)
        /\ s = IF n \in Live(row) THEN Carried(stats, row, there, n) ELSE stats
  OBVIOUS
<1>3. /\ Finish(h, IF n \in Listed(row) /\ p \in LiveDirs(row) THEN {}
                   ELSE {n} \cap Present(row))
      /\ \/ n \in Present(row) /\ row' = q /\ stats' = Recounted(s, there, q)
         \/ UNCHANGED <<row, stats>>
  BY <1>1, <1>2 DEF RestoreItem, Write
<1>4. stale' = {} => stale = {} /\ (n \in Present(row) => n \in Listed(row))
  BY <1>3, FinishStale
<1>5. CASE UNCHANGED <<row, stats>>
  BY <1>4, <1>5, KeptTallied
<1>6. ASSUME n \in Present(row), row' = q, stats' = Recounted(s, there, q)
      PROVE  Tallied'
  <2>1. ASSUME stale' = {}, Exact(row, stats)
        PROVE  Exact(q, Recounted(s, there, q))
    <3>1. Good(row) /\ Shaped(q) /\ n \in Trashed(row) /\ n \notin Live(row)
      BY <1>4, <1>6, <2>1, BothShaped DEF Listed, Live, Trashed
    <3>2. s = stats /\ Shaped(there) /\ Exact(there, s)
      BY <1>2, <2>1, <3>1, HungInTrash
    <3>3. \A m \in Live(there) \cap Live(q) : q[m].parent = there[m].parent
      <4>1. q = Cleared(there, n)
        BY <1>2 DEF Restored
      <4>2. \A m \in Live(there) : m \in Nodes /\ m \notin Trashed(there)
        BY DEF Live, Trashed, Present
      <4> QED
        BY <4>1, <4>2 DEF Cleared
    <3> QED
      BY <3>1, <3>2, <3>3, KeptExact
  <2> QED
    BY <1>4, <1>6, <2>1, WrittenTallied
<1> QED
  BY <1>3, <1>5, <1>6

LEMMA NextTallied ==
  ASSUME IInv, Tallied, [Next]_vars
  PROVE  Tallied'
<1>1. IInv'
  BY NextIInv
<1>2. CASE FileStep
  BY <1>1, <1>2, InsertTallied, FileRowsTallied DEF FileStep, Reserve, CreateDocument
<1>3. CASE NodeStep
  BY <1>1, <1>3, RenameTallied, MoveTallied, CopyTallied DEF NodeStep
<1>4. CASE TrashStep
  BY <1>1, <1>4, RetentionTallied
<1>5. ASSUME NEW h \in Handlers, CheckStep(h)
      PROVE  Tallied'
  <2>1. UNCHANGED <<row, stats, stale>>
    BY <1>5 DEF CheckStep, CheckCreate, CheckDelete, CheckRestore, CheckPurge, Look
  <2> QED
    BY <1>1, <2>1, KeptTallied
<1>6. ASSUME NEW h \in Handlers, ChangeStep(h)
      PROVE  Tallied'
  BY <1>1, <1>6, CreateDirectoryTallied, TrashItemTallied, DropItemTallied,
     RestoreItemTallied, PurgeItemTallied DEF ChangeStep
<1>7. CASE UNCHANGED vars
  BY <1>1, <1>7, KeptTallied DEF vars
<1> QED
  BY <1>2, <1>3, <1>4, <1>5, <1>6, <1>7 DEF Next

LEMMA InitTallied == Init => Tallied
<1> SUFFICES ASSUME Init
             PROVE  Exact(row, stats)
  BY DEF Tallied
<1>1. \A f \in Files : row[f] = None
  BY TreeAssumption DEF Init, Nodes
<1>2. \A d \in Dirs : Inside(row, d) = {}
  BY <1>1 DEF Inside, Counted, Ready, Live, Present
<1>3. \A d \in Dirs : Cardinality(Inside(row, d)) = 0
  BY <1>2, FS_EmptySet
<1>4. stats \in [Dirs -> Int] /\ \A d \in Dirs : stats[d] = 0
  BY DEF Init
<1> QED
  BY <1>3, <1>4 DEF Exact

\* The counters are exact, for any number of ids, names and requests, until a
\* check is overtaken.
THEOREM CountersKept == Spec => []StatsExact
<1>1. IInv /\ Tallied /\ [Next]_vars => Tallied'
  BY NextTallied
<1>2. IInv /\ Tallied => StatsExact
  BY DEF IInv, Tallied, Exact, Inside, StatsExact
<1> QED
  BY <1>1, <1>2, InitTallied, Inductive, PTL DEF Spec

-----------------------------------------------------------------------------
(* Types, also after an overtaken check.                                   *)

Typed == stats \in [Dirs -> Int] /\ used \in SUBSET Nodes

LEMMA CarriedTyped ==
  ASSUME NEW r, NEW q, NEW s \in [Dirs -> Int], NEW n \in Nodes
  PROVE  Carried(s, r, q, n) \in [Dirs -> Int]
<1>1. PICK k : k = IF n \in Files THEN Cardinality({n} \cap Counted(r)) ELSE s[n]
  OBVIOUS
<1>2. k \in Int
  <2>1. {n} \cap Counted(r) \in SUBSET Files
    BY CountedFiles
  <2> QED
    BY <1>1, <2>1, FilesFinite DEF Nodes
<1> QED
  BY <1>1, <1>2 DEF Carried

\* What a step writes into the counters, and the ids it generates.
LEMMA FileStepTyped ==
  ASSUME Typed, FileStep
  PROVE  Typed'
<1>1. stats' = stats \/ \E q : stats' = Recounted(stats, row, q)
  BY DEF FileStep, Reserve, CreateDocument, InsertFile, PublishUpload, DropUpload, Write
<1>2. stats' \in [Dirs -> Int]
  BY <1>1, RecountedTyped DEF Typed
<1>3. used' = used \/ \E f \in Files : used' = used \cup {f}
  BY DEF FileStep, Reserve, CreateDocument, InsertFile, PublishUpload, DropUpload
<1> QED
  BY <1>2, <1>3 DEF Typed, Nodes

LEMMA NodeStepTyped ==
  ASSUME Typed, NodeStep
  PROVE  Typed'
<1>1. ASSUME NEW n \in Nodes, NEW name \in Names, Rename(n, name)
      PROVE  Typed'
  BY <1>1 DEF Rename, Write, Typed
<1>2. ASSUME NEW n \in Nodes, NEW p \in Dirs, Move(n, p)
      PROVE  Typed'
  <2>1. Carried(stats, row, Moved(row, n, p), n) \in [Dirs -> Int]
    BY CarriedTyped DEF Typed
  <2> QED
    BY <1>2, <2>1 DEF Move, Write, Typed
<1>3. ASSUME NEW n \in Nodes, NEW p \in Dirs, Copy(n, p)
      PROVE  Typed'
  <2>1. PICK f \in [Below(row, Live(row), n) -> Fresh] :
          /\ used' = used \cup {f[o] : o \in Below(row, Live(row), n)}
          /\ stats' = stats \/ \E q : stats' = Recounted(stats, row, q)
    BY <1>3 DEF Copy, Write
  <2>2. stats' \in [Dirs -> Int]
    BY <2>1, RecountedTyped DEF Typed
  <2>3. used' \in SUBSET Nodes
    BY <2>1 DEF Typed, Fresh
  <2> QED
    BY <2>2, <2>3 DEF Typed
<1> QED
  BY <1>1, <1>2, <1>3 DEF NodeStep

LEMMA TrashStepTyped ==
  ASSUME Typed, TrashStep
  PROVE  Typed'
<1>1. /\ used' = used
      /\ stats' = stats \/ \E q : stats' = Recounted(stats, row, q)
  BY DEF TrashStep, EmptyTrash, CleanupTrash, Write
<1> QED
  BY <1>1, RecountedTyped DEF Typed

LEMMA ChangeStepTyped ==
  ASSUME IInv, Typed, NEW h \in Handlers, ChangeStep(h)
  PROVE  Typed'
<1>1. CASE CreateDirectory(h)
  <2>1. stats' = stats /\ \E d \in Fresh : used' = used \cup {d}
    BY <1>1 DEF CreateDirectory, Write
  <2> QED
    BY <2>1 DEF Typed, Fresh
<1>2. CASE RestoreItem(h)
  <2>1. PICK n \in Nodes : n = job[h].node
    BY <1>2 DEF IInv, JobsOK, RestoreItem
  <2>2. PICK t, w : /\ t = Moved(row, n, job[h].parent)
                    /\ w = IF n \in Live(row) THEN Carried(stats, row, t, n) ELSE stats
    OBVIOUS
  <2>3. w \in [Dirs -> Int]
    BY <2>2, CarriedTyped DEF Typed
  <2>4. used' = used /\ (stats' = stats \/ \E q : stats' = Recounted(w, t, q))
    BY <1>2, <2>1, <2>2 DEF RestoreItem, Write
  <2> QED
    BY <2>3, <2>4, RecountedTyped DEF Typed
<1>3. CASE TrashItem(h) \/ DropItem(h) \/ PurgeItem(h)
  <2>1. /\ used' = used
        /\ stats' = stats \/ \E q : stats' = Recounted(stats, row, q)
    BY <1>3 DEF TrashItem, DropItem, PurgeItem, Write
  <2> QED
    BY <2>1, RecountedTyped DEF Typed
<1> QED
  BY <1>1, <1>2, <1>3 DEF ChangeStep

\* The type invariant, also after an overtaken check; no counter is negative
\* before one.
THEOREM TreeTyped == Spec => []TypeOK
<1>1. Init => Typed
  BY TreeAssumption DEF Init, Typed, Nodes
<1>2. IInv /\ Typed /\ [Next]_vars => Typed'
  <2> SUFFICES ASSUME IInv, Typed, [Next]_vars
               PROVE  Typed'
    OBVIOUS
  <2>1. ASSUME NEW h \in Handlers, CheckStep(h)
        PROVE  Typed'
    BY <2>1 DEF CheckStep, CheckCreate, CheckDelete, CheckRestore, CheckPurge, Look, Typed
  <2>2. CASE UNCHANGED vars
    BY <2>2 DEF vars, Typed
  <2> QED
    BY <2>1, <2>2, FileStepTyped, NodeStepTyped, TrashStepTyped, ChangeStepTyped DEF Next
<1>3. IInv /\ Typed /\ Tallied => TypeOK
  <2> SUFFICES ASSUME IInv, Typed, Tallied
               PROVE  TypeOK
    OBVIOUS
  <2>1. ASSUME stale = {}, NEW d \in Dirs
        PROVE  stats[d] >= 0
    <3>1. Inside(row, d) \in SUBSET Files
      BY CountedFiles DEF Inside
    <3>2. Cardinality(Inside(row, d)) \in Nat
      BY <3>1, FilesFinite
    <3> QED
      BY <2>1, <3>2 DEF Tallied, Exact
  <2> QED
    BY <2>1 DEF IInv, JobsOK, TreeOK, Sound, Typed, TypeOK
<1>4. IInv /\ Tallied /\ [Next]_vars => Tallied'
  BY NextTallied
<1> QED
  BY <1>1, <1>2, <1>3, <1>4, InitTallied, Inductive, PTL DEF Spec
==============================================================================

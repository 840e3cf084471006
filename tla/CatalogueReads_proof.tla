------------------------ MODULE CatalogueReads_proof ------------------------
(***************************************************************************)
(* Fresh reads and an exact pool, for any number of requests, pages,       *)
(* connections and faults.  Two arguments that share only the types: what  *)
(* a revision may still show, and who holds which permit.                  *)
(***************************************************************************)
EXTENDS CatalogueReads, FiniteSetTheorems, TLAPS

-----------------------------------------------------------------------------
(* What may be shown under a revision.                                     *)

\* Everything read under revision k, cached or on its way, shows commit v.
Shows(k, v) ==
    /\ \A e \in cache : e.rev = k => v <= e.value
    /\ \A r \in Readers : req[r].value # None /\ req[r].rev = k => v <= req[r].value

Types ==
    /\ content \in Nat /\ answered \in Nat /\ answered <= content
    /\ revision \in Nat
    /\ cache \subseteq Entries /\ \A e \in cache : e.rev <= revision
    /\ req \in [Requests -> Records]
    /\ \A r \in Requests : req[r].rev <= revision /\ req[r].since <= content

Early == {"rest", "granted", "opening", "running"} \cup Before

\* What a request holds at each stage.
Held ==
    /\ \A r \in Readers : ~At(r, "rest") => req[r].page \in Pages
    /\ \A r \in Readers : req[r].pc \in {"storing", "answered"} => req[r].value # None
    /\ \A r \in Readers : ~req[r].changed
    /\ \A w \in Writers : req[w].pc \notin {"look", "lock", "storing", "answered"}
    /\ \A w \in Writers : req[w].value # None => req[w].value <= content /\ req[w].changed
    /\ \A w \in Writers : req[w].pc \in Early => req[w].value = None

\* A commit that a client knows of, or may soon, is shown by everything under
\* the revision of now; and what a reader was promised, under its own.
Promised ==
    /\ Shows(revision, answered)
    /\ \A w \in Writers :
         req[w].pc \in {"release", "returning", "returned"} /\ req[w].value # None
           => Shows(revision, req[w].value)
    /\ \A r \in Readers : Shows(req[r].rev, req[r].since)

Reading == Types /\ Held /\ Promised

LEMMA ReadingInit == Init => Reading
  BY CatalogueAssumption, SMT
  DEF Init, Reading, Types, Held, Promised, Shows, At, Rest, Records, Entries,
      Early, Stages, Before, Closure, After, Requests

LEMMA ReadingFresh == Reading => Fresh
  BY CatalogueAssumption
  DEF Reading, Types, Held, Promised, Shows, Fresh, At, Records, Requests
-----------------------------------------------------------------------------
(* One request moves and the data stay: nothing more is shown, and nothing *)
(* more is published.                                                      *)
Published == {"release", "returning", "returned"}

LEMMA Quiet ==
  ASSUME Reading, UNCHANGED data,
         NEW r \in Requests, NEW x \in Records, req' = [req EXCEPT ![r] = x],
         x.value \in {None, req[r].value},
         \/ x.rev = req[r].rev /\ x.since = req[r].since
         \/ x.rev = 0 /\ x.since = 0 /\ x.value = None,
         r \in Readers => /\ x.pc # "rest" => x.page \in Pages
                          /\ x.pc \in {"storing", "answered"} => x.value # None
                          /\ ~x.changed,
         r \in Writers => /\ x.pc \notin {"look", "lock", "storing", "answered"}
                          /\ x.value # None => x.changed
                          /\ x.pc \in Early => x.value = None
                          /\ x.pc \in Published /\ x.value # None
                               => req[r].pc \in Published
  PROVE  Reading'
<1> USE CatalogueAssumption DEF Reading
<1>1. /\ \A s \in Requests \ {r} : req'[s] = req[s]
      /\ req'[r] = x /\ req' \in [Requests -> Records]
  BY DEF Types
<1>2. x.rev \in Nat /\ x.since \in Nat /\ x.value \in Nat \cup {None}
  BY DEF Records
<1>3. Types'
  BY <1>1, <1>2 DEF Types, data
<1>4. Held'
  BY <1>1, <1>2 DEF Held, At, data, Types, Requests
<1>5. \A k \in Nat, v \in Nat : Shows(k, v) => Shows(k, v)'
  BY <1>1, <1>2 DEF Shows, data, Requests
<1>6. Shows(0, 0)'
  BY <1>1, <1>3 DEF Shows, data, Types, Entries, Records, Requests
<1>7. \A s \in Requests : req[s] \in Records
  BY DEF Types
<1>8. Promised'
  <2>1. Shows(revision, answered)'
    BY <1>5 DEF Promised, Types, data
  <2>2. ASSUME NEW w \in Writers, req'[w].pc \in Published, req'[w].value # None
        PROVE  Shows(revision, req[w].value)'
    <3>1. w \in Requests /\ req[w].pc \in Published /\ req[w].value = req'[w].value
      BY <2>2, <1>1 DEF Requests
    <3>2. Shows(revision, req[w].value) /\ req[w].value \in Nat
      BY <3>1, <2>2, <1>7 DEF Promised, Published, Records
    <3> QED BY <3>1, <3>2, <1>5 DEF Types, data
  <2>3. ASSUME NEW s \in Readers PROVE Shows(req[s].rev, req[s].since)'
    <3>1. s \in Requests
      BY DEF Requests
    <3>2. \/ req'[s].rev = req[s].rev /\ req'[s].since = req[s].since
          \/ req'[s].rev = 0 /\ req'[s].since = 0
      BY <1>1, <3>1
    <3>3. req[s].rev \in Nat /\ req[s].since \in Nat
      BY <3>1, <1>7 DEF Records
    <3> QED BY <3>2, <3>3, <1>5, <1>6 DEF Promised
  <2> QED BY <2>1, <2>2, <2>3 DEF Promised, Published
<1> QED BY <1>3, <1>4, <1>8

\* The read that begins is promised what everyone was told; the rest of what a
\* lookup finds is already shown under its revision.
LEMMA BeginReadStep ==
  ASSUME Reading, NEW r \in Readers, NEW p \in Pages, BeginRead(r, p)
  PROVE  Reading'
<1> USE CatalogueAssumption DEF Reading
<1>1. PICK x : /\ x = [pc |-> "look", page |-> p, rev |-> revision,
                        since |-> answered, value |-> None, changed |-> FALSE,
                        gone |-> FALSE]
               /\ r \in Requests /\ req' = [req EXCEPT ![r] = x] /\ UNCHANGED data
  BY DEF BeginRead, Requests
<1>2. x \in Records
  BY <1>1 DEF Types, Records, Stages, Before
<1>3. /\ \A s \in Requests \ {r} : req'[s] = req[s]
      /\ req'[r] = x /\ req' \in [Requests -> Records]
  BY <1>1, <1>2 DEF Types
<1>4. Types'
  BY <1>1, <1>3 DEF Types, data
<1>5. Held'
  BY <1>1, <1>3 DEF Held, At, data, Requests
<1>6. \A k, v : Shows(k, v) => Shows(k, v)'
  BY <1>1, <1>3 DEF Shows, data, Requests
<1>7. Promised'
  <2>1. Shows(revision, answered)'
    BY <1>1, <1>6 DEF Promised, data
  <2>2. ASSUME NEW w \in Writers, req'[w].pc \in Published, req'[w].value # None
        PROVE  Shows(revision, req[w].value)'
    <3>1. w \in Requests \ {r}
      BY DEF Requests
    <3> QED BY <3>1, <2>2, <1>1, <1>3, <1>6 DEF Promised, Published, data
  <2>3. ASSUME NEW s \in Readers PROVE Shows(req[s].rev, req[s].since)'
    <3>1. CASE s = r
      BY <3>1, <1>1, <1>3, <1>6 DEF Promised
    <3>2. CASE s # r
      BY <3>2, <1>3, <1>6 DEF Promised, Requests
    <3> QED BY <3>1, <3>2
  <2> QED BY <2>1, <2>2, <2>3 DEF Promised, Published
<1> QED BY <1>4, <1>5, <1>7

\* A reader gets a value that everything promised under its revision allows:
\* the page it finds, or what the database holds now.
LEMMA ValueStep ==
  ASSUME Reading, UNCHANGED data,
         NEW r \in Readers, NEW v \in Nat, NEW stage \in {"answered", "ran"},
         ~At(r, "rest"),
         req' = [req EXCEPT ![r].pc = stage, ![r].value = v],
         \/ v = content
         \/ \E e \in cache : e.rev = req[r].rev /\ e.value = v
  PROVE  Reading'
<1> USE CatalogueAssumption DEF Reading
<1>1. r \in Requests /\ req[r] \in Records
  BY DEF Types, Requests
<1>2. /\ \A s \in Requests \ {r} : req'[s] = req[s]
      /\ req'[r] = [req[r] EXCEPT !.pc = stage, !.value = v]
  BY <1>1 DEF Types
<1>3. req'[r] \in Records /\ req' \in [Requests -> Records]
  BY <1>1, <1>2 DEF Types, Records, Stages, Closure, After
<1>4. /\ req'[r].rev = req[r].rev /\ req'[r].since = req[r].since
      /\ req'[r].page = req[r].page /\ req'[r].changed = req[r].changed
      /\ req'[r].pc = stage /\ req'[r].value = v
  <2>1. PICK a \in Records : a = req[r]
    BY <1>1
  <2>2. PICK b : b = req'[r] /\ b = [a EXCEPT !.pc = stage, !.value = v]
    BY <1>2, <2>1
  <2>3. b = [a EXCEPT !.pc = stage, !.value = v]
    BY <2>2
  <2>4. b.pc = stage /\ b.value = v /\ b.rev = a.rev /\ b.since = a.since
    BY <2>3 DEF Records
  <2>5. b.page = a.page
    BY <2>3 DEF Records
  <2>6. b.changed = a.changed
    BY <2>3 DEF Records
  <2> QED BY <2>1, <2>2, <2>4, <2>5, <2>6, Zenon
<1>5. Types'
  BY <1>1, <1>2, <1>3, <1>4 DEF Types, data
<1>6. Held'
  <2>1. \A w \in Writers : w \in Requests /\ req'[w] = req[w]
    BY <1>2 DEF Requests
  <2>2. \A s \in Readers \ {r} : s \in Requests /\ req'[s] = req[s]
    BY <1>2 DEF Requests
  <2>3. req[r].page \in Pages /\ ~req[r].changed
    BY DEF Held, At
  <2>4. v # None /\ content' = content
    BY DEF data
  <2> QED BY <2>1, <2>2, <2>3, <2>4, <1>4 DEF Held, At
<1>7. \A k, u \in Nat : Shows(k, u) /\ u <= content => Shows(k, u)'
  <2>1. \A u \in Nat : Shows(req[r].rev, u) /\ u <= content => u <= v
    BY DEF Shows, Types, Entries
  <2>2. \A s \in Readers \ {r} : s \in Requests /\ req'[s] = req[s]
    BY <1>2 DEF Requests
  <2>3. SUFFICES ASSUME NEW k \in Nat, NEW u \in Nat, Shows(k, u), u <= content
                 PROVE  Shows(k, u)'
    OBVIOUS
  <2>4. req[r].rev = k => u <= v
    BY <2>1, <2>3
  <2> QED BY <2>2, <2>3, <2>4, <1>4 DEF Shows, data
<1>8. Promised'
  <2>1. Shows(revision, answered)'
    BY <1>7 DEF Promised, Types, data
  <2>2. ASSUME NEW w \in Writers, req'[w].pc \in Published, req'[w].value # None
        PROVE  Shows(revision, req[w].value)'
    <3>1. w \in Requests \ {r} /\ req'[w] = req[w] /\ req[w] \in Records
      BY <1>2 DEF Requests, Types
    <3>2. req[w].value \in Nat /\ req[w].value <= content
      BY <3>1, <2>2 DEF Held, Records
    <3> QED BY <3>1, <3>2, <2>2, <1>7 DEF Promised, Published, Types, data
  <2>3. ASSUME NEW s \in Readers PROVE Shows(req[s].rev, req[s].since)'
    <3>1. /\ s \in Requests /\ req[s].rev \in Nat /\ req[s].since \in Nat
          /\ req[s].since <= content
      BY DEF Requests, Types, Records
    <3>2. req'[s].rev = req[s].rev /\ req'[s].since = req[s].since
      BY <3>1, <1>2, <1>4
    <3> QED BY <3>1, <3>2, <1>7 DEF Promised
  <2> QED BY <2>1, <2>2, <2>3 DEF Promised, Published
<1> QED BY <1>5, <1>6, <1>8

\* The two ways a request moves on without a new value.
LEMMA GotoStep ==
  ASSUME Reading, UNCHANGED data,
         NEW r \in Requests, NEW q \in Stages \ {"rest"}, Goto(r, q),
         r \in Readers => /\ ~At(r, "rest")
                          /\ q \in {"storing", "answered"} => req[r].value # None,
         r \in Writers => /\ q \notin {"look", "lock", "storing", "answered"}
                          /\ q \in Early => req[r].pc \in Early
                          /\ q \in Published /\ req[r].value # None
                               => req[r].pc \in Published
  PROVE  Reading'
<1> USE CatalogueAssumption
<1>1. PICK a \in Records : a = req[r]
  BY DEF Reading, Types
<1>2. PICK x : x = [a EXCEPT !.pc = q] /\ req' = [req EXCEPT ![r] = x]
  BY <1>1 DEF Goto, Reading, Types
<1>3. x \in Records
  BY <1>2 DEF Records
<1>4. x = [a EXCEPT !.pc = q]
  BY <1>2
<1>5. x.pc = q /\ x.value = a.value /\ x.rev = a.rev /\ x.since = a.since
  BY <1>4 DEF Records
<1>6. x.page = a.page
  BY <1>4 DEF Records
<1>7. x.changed = a.changed
  BY <1>4 DEF Records
<1>8. r \in Readers => /\ x.pc # "rest" => x.page \in Pages
                       /\ x.pc \in {"storing", "answered"} => x.value # None
                       /\ ~x.changed
  <2>1. r \in Readers => a.page \in Pages /\ ~a.changed
    BY <1>1 DEF Reading, Held, At
  <2> QED BY <2>1, <1>1, <1>5, <1>6, <1>7
<1>9. r \in Writers => /\ x.pc \notin {"look", "lock", "storing", "answered"}
                       /\ x.value # None => x.changed
                       /\ x.pc \in Early => x.value = None
                       /\ x.pc \in Published /\ x.value # None
                            => req[r].pc \in Published
  <2>1. r \in Writers => /\ a.value # None => a.changed
                         /\ a.pc \in Early => a.value = None
    BY <1>1 DEF Reading, Held
  <2> QED BY <2>1, <1>1, <1>5, <1>7
<1> QED BY <1>1, <1>2, <1>3, <1>5, <1>8, <1>9, Quiet

LEMMA FinishStep ==
  ASSUME Reading, UNCHANGED data, NEW r \in Requests, Finish(r)
  PROVE  Reading'
<1> USE CatalogueAssumption
<1>1. PICK x : x = Rest /\ req' = [req EXCEPT ![r] = x]
  BY DEF Finish
<1>2. x \in Records
  BY <1>1 DEF Rest, Records, Stages
<1>3. x.pc = "rest" /\ x.rev = 0 /\ x.since = 0 /\ x.value = None /\ ~x.changed
  BY <1>1 DEF Rest
<1> QED BY <1>1, <1>2, <1>3, Quiet DEF Published

\* Lookups, of which a hit is the only step that brings a value.
LEMMA LookupStep ==
  ASSUME Reading, NEW r \in Requests, NEW q \in {"lock", "call"},
         req[r].pc \in {"look", "lock"}, Lookup(r, q), UNCHANGED data
  PROVE  Reading'
<1> USE CatalogueAssumption
<1>1. r \in Readers /\ ~At(r, "rest")
  BY DEF Reading, Held, At, Requests
<1>2. CASE Hits(r) = {} /\ Goto(r, q)
  <2>1. q \in Stages \ {"rest"}
    BY DEF Stages, Before
  <2>2. r \notin Writers
    BY <1>1
  <2> QED BY <1>1, <1>2, <2>1, <2>2, GotoStep
<1>3. CASE \E e \in Hits(r) : req' = [req EXCEPT ![r].pc = "answered",
                                                 ![r].value = e.value]
  <2>1. PICK e \in Hits(r) : req' = [req EXCEPT ![r].pc = "answered",
                                                ![r].value = e.value]
    BY <1>3
  <2>2. PICK v \in Nat : v = e.value
    BY DEF Hits, Reading, Types, Entries
  <2>3. req' = [req EXCEPT ![r].pc = "answered", ![r].value = v]
    BY <2>1, <2>2
  <2>4. \E f \in cache : f.rev = req[r].rev /\ f.value = v
    BY <2>2 DEF Hits
  <2> QED BY <1>1, <2>3, <2>4, ValueStep
<1> QED BY <1>2, <1>3 DEF Lookup

-----------------------------------------------------------------------------
(* The steps that change the data.                                         *)

LEMMA CommitStep ==
  ASSUME Reading, NEW w \in Writers, Commit(w)
  PROVE  Reading'
<1> USE CatalogueAssumption DEF Reading
<1>1. w \in Requests /\ w \notin Readers /\ req[w] \in Records
  BY DEF Types, Requests
<1>2. PICK a \in Records : a = req[w]
  BY <1>1
<1>3. PICK n \in Nat : n = content + 1
  BY DEF Types
<1>4. PICK x : /\ x = [a EXCEPT !.pc = "ran", !.value = n, !.changed = TRUE]
               /\ req' = [req EXCEPT ![w] = x]
  BY <1>1, <1>2, <1>3 DEF Commit, Types
<1>5. x = [a EXCEPT !.pc = "ran", !.value = n, !.changed = TRUE]
  BY <1>4
<1>6. x.pc = "ran" /\ x.value = n /\ x.rev = a.rev /\ x.since = a.since
  BY <1>5 DEF Records
<1>7. x.changed
  BY <1>5 DEF Records
<1>8. x \in Records
  BY <1>5 DEF Records, Types, Stages, Closure
<1>9. /\ \A s \in Requests \ {w} : req'[s] = req[s]
      /\ req'[w] = x /\ req' \in [Requests -> Records]
  BY <1>1, <1>4, <1>8 DEF Types
<1>10. content' = n /\ n = content + 1 /\ UNCHANGED <<answered, revision, cache>>
  BY <1>3 DEF Commit
<1>11. Types'
  BY <1>2, <1>6, <1>9, <1>10 DEF Types, Records
<1>12. Held'
  <2>1. \A s \in Readers : s \in Requests \ {w} /\ req'[s] = req[s]
    BY <1>1, <1>9 DEF Requests
  <2>2. \A v \in Writers \ {w} : v \in Requests /\ req'[v] = req[v] /\ req[v] \in Records
    BY <1>9 DEF Requests, Types
  <2>3. \A v \in Writers \ {w} : req[v].value # None => req[v].value \in Nat
    BY <2>2 DEF Records
  <2>4. content \in Nat
    BY DEF Types
  <2> QED BY <2>1, <2>2, <2>3, <2>4, <1>6, <1>7, <1>9, <1>10 DEF Held, At, Early, Before
<1>13. Promised'
  <2>1. \A s \in Readers : s \in Requests /\ req'[s] = req[s]
    BY <1>1, <1>9 DEF Requests
  <2>2. \A k, v : Shows(k, v) => Shows(k, v)'
    BY <2>1, <1>10 DEF Shows
  <2>3. Shows(revision, answered)'
    BY <2>2, <1>10 DEF Promised
  <2>4. ASSUME NEW v \in Writers, req'[v].pc \in Published, req'[v].value # None
        PROVE  Shows(revision, req[v].value)'
    <3>1. v \in Requests \ {w}
      BY <2>4, <1>6, <1>9 DEF Published, Requests
    <3> QED BY <3>1, <2>2, <2>4, <1>9, <1>10 DEF Promised, Published
  <2>5. \A s \in Readers : Shows(req[s].rev, req[s].since)'
    BY <2>1, <2>2 DEF Promised
  <2> QED BY <2>3, <2>4, <2>5 DEF Promised, Published
<1> QED BY <1>11, <1>12, <1>13

LEMMA RollBackStep ==
  ASSUME Reading, NEW w \in Writers, RollBack(w)
  PROVE  Reading'
<1> USE CatalogueAssumption
<1>1. w \in Requests /\ w \notin Readers
  BY DEF Requests
<1>2. PICK a \in Records : a = req[w]
  BY <1>1 DEF Reading, Types
<1>3. PICK x : /\ x = [a EXCEPT !.pc = "ran", !.changed = TRUE]
               /\ req' = [req EXCEPT ![w] = x]
  BY <1>1, <1>2 DEF RollBack, Reading, Types
<1>4. x = [a EXCEPT !.pc = "ran", !.changed = TRUE]
  BY <1>3
<1>5. x.pc = "ran" /\ x.value = a.value /\ x.rev = a.rev /\ x.since = a.since
  BY <1>4 DEF Records
<1>6. x.changed
  BY <1>4 DEF Records
<1>7. x \in Records
  BY <1>4 DEF Records, Stages, Closure
<1>8. UNCHANGED data
  BY DEF RollBack
<1> QED BY <1>1, <1>2, <1>3, <1>5, <1>6, <1>7, <1>8, Quiet
       DEF Early, Before, Published

\* A new revision: nothing is shown under it yet.  A writer that committed
\* cannot pass here without one.
LEMMA PublishStep ==
  ASSUME Reading, NEW r \in Requests, Publish(r)
  PROVE  Reading'
<1> USE CatalogueAssumption
<1>1. req[r].pc = "ran" /\ Goto(r, "release") /\ UNCHANGED <<content, answered, cache>>
  BY DEF Publish, At
<1>2. CASE ~req[r].changed
  <2>1. UNCHANGED data
    BY <1>1, <1>2 DEF Publish, data
  <2>2. r \in Writers => req[r].value = None
    BY <1>2 DEF Reading, Held
  <2>3. "release" \in Stages \ {"rest"} /\ "release" \notin Early
    BY DEF Stages, Closure, Early, Before
  <2> QED BY <1>1, <2>1, <2>2, <2>3, GotoStep DEF At
<1>3. CASE req[r].changed
  <2>1. revision' = revision + 1
    BY <1>3 DEF Publish
  <2>2. r \in Writers /\ r \notin Readers
    BY <1>3 DEF Reading, Held, Requests
  <2>3. PICK a \in Records : a = req[r]
    BY DEF Reading, Types
  <2>4. PICK x : x = [a EXCEPT !.pc = "release"] /\ req' = [req EXCEPT ![r] = x]
    BY <1>1, <2>3 DEF Goto, Reading, Types
  <2>5. x = [a EXCEPT !.pc = "release"]
    BY <2>4
  <2>6. x.pc = "release" /\ x.value = a.value /\ x.rev = a.rev /\ x.since = a.since
    BY <2>5 DEF Records
  <2>7. x.changed = a.changed
    BY <2>5 DEF Records
  <2>8. x \in Records
    BY <2>5 DEF Records, Stages, Closure
  <2>9. /\ \A s \in Requests \ {r} : req'[s] = req[s]
        /\ req'[r] = x /\ req' \in [Requests -> Records]
    BY <2>4, <2>8 DEF Reading, Types
  <2>10. Types'
    BY <1>1, <2>1, <2>3, <2>6, <2>9 DEF Reading, Types, Records, Entries
  <2>11. \A s \in Readers : s \in Requests /\ req'[s] = req[s]
    BY <2>2, <2>9 DEF Requests
  <2>12. Held'
    <3>1. \A v \in Writers \ {r} : v \in Requests /\ req'[v] = req[v]
      BY <2>9 DEF Requests
    <3>2. x.value # None => x.value <= content /\ x.changed
      BY <2>2, <2>3, <2>6, <2>7 DEF Reading, Held
    <3> QED BY <3>1, <3>2, <1>1, <2>6, <2>9, <2>11
            DEF Reading, Held, At, Early, Before
  <2>13. \A v : Shows(revision, v)'
    <3>1. \A e \in cache : e.rev # revision + 1
      BY DEF Reading, Types, Entries
    <3>2. \A s \in Readers : req[s].rev # revision + 1
      BY DEF Reading, Types, Records, Requests
    <3> QED BY <3>1, <3>2, <1>1, <2>1, <2>11 DEF Shows
  <2>14. \A k, v : Shows(k, v) => Shows(k, v)'
    BY <1>1, <2>11 DEF Shows
  <2>15. Promised'
    BY <2>1, <2>11, <2>13, <2>14 DEF Reading, Promised
  <2> QED BY <2>10, <2>12, <2>15 DEF Reading
<1> QED BY <1>2, <1>3

\* A page is stored under the revision its reader began with, which is what it
\* was shown under already.
LEMMA StoreStep ==
  ASSUME Reading, NEW r \in Requests, Store(r)
  PROVE  Reading'
<1> USE CatalogueAssumption
<1>1. r \in Readers /\ req[r].pc = "storing" /\ req[r] \in Records
  BY DEF Store, At, Reading, Held, Types, Requests
<1>2. req[r].page \in Pages /\ req[r].value \in Nat /\ req[r].rev \in Nat
      /\ req[r].rev <= revision
  BY <1>1 DEF Reading, Held, Types, Records, At, Requests
<1>3. PICK n \in Entries : n = [page |-> req[r].page, rev |-> req[r].rev,
                                value |-> req[r].value]
  BY <1>2 DEF Entries
<1>4. PICK c : c = (cache \ Hits(r)) \cup {n}
  OBVIOUS
<1>5. cache' = c /\ n.rev = req[r].rev /\ n.value = req[r].value
  BY <1>3, <1>4 DEF Store
<1>6. Goto(r, "answered") /\ UNCHANGED <<content, answered, revision>>
  BY DEF Store
<1>7. PICK a \in Records : a = req[r]
  BY <1>1
<1>8. PICK x : x = [a EXCEPT !.pc = "answered"] /\ req' = [req EXCEPT ![r] = x]
  BY <1>6, <1>7 DEF Goto, Reading, Types
<1>9. x = [a EXCEPT !.pc = "answered"]
  BY <1>8
<1>10. x.pc = "answered" /\ x.value = a.value /\ x.rev = a.rev /\ x.since = a.since
  BY <1>9 DEF Records
<1>11. x.page = a.page
  BY <1>9 DEF Records
<1>12. x.changed = a.changed
  BY <1>9 DEF Records
<1>13. x \in Records
  BY <1>9 DEF Records, Stages, After
<1>14. /\ \A s \in Requests \ {r} : req'[s] = req[s]
       /\ req'[r] = x /\ req' \in [Requests -> Records]
  BY <1>8, <1>13 DEF Reading, Types
<1>15. Types'
  <2>1. cache' \subseteq Entries /\ \A e \in cache' : e.rev <= revision
    BY <1>2, <1>4, <1>5 DEF Reading, Types
  <2> QED BY <2>1, <1>6, <1>7, <1>10, <1>14 DEF Reading, Types
<1>16. Held'
  <2>1. \A w \in Writers : w \in Requests /\ req'[w] = req[w]
    BY <1>1, <1>14 DEF Requests
  <2>2. \A s \in Readers \ {r} : s \in Requests /\ req'[s] = req[s]
    BY <1>14 DEF Requests
  <2>3. x.page \in Pages /\ ~x.changed /\ x.value # None
    BY <1>1, <1>2, <1>7, <1>10, <1>11, <1>12 DEF Reading, Held
  <2> QED BY <2>1, <2>2, <2>3, <1>6, <1>14 DEF Reading, Held, At
<1>17. \A k, v : Shows(k, v) => Shows(k, v)'
  <2>1. \A s \in Readers : req'[s].value = req[s].value /\ req'[s].rev = req[s].rev
    BY <1>7, <1>10, <1>14 DEF Requests
  <2>2. \A e \in cache' : e \in cache \/ (e.rev = req[r].rev /\ e.value = req[r].value)
    BY <1>4, <1>5
  <2>3. req[r].value # None
    BY <1>2
  <2> QED BY <1>1, <2>1, <2>2, <2>3 DEF Shows
<1>18. Promised'
  <2>1. \A s \in Requests : /\ req'[s].rev = req[s].rev /\ req'[s].since = req[s].since
                            /\ s \in Writers => req'[s] = req[s]
    BY <1>1, <1>7, <1>10, <1>14
  <2>2. Shows(revision, answered)'
    BY <1>6, <1>17 DEF Reading, Promised
  <2>3. \A s \in Readers : Shows(req[s].rev, req[s].since)'
    BY <2>1, <1>17 DEF Reading, Promised, Requests
  <2> QED BY <2>1, <2>2, <2>3, <1>6, <1>17 DEF Reading, Promised, Requests
<1> QED BY <1>15, <1>16, <1>18 DEF Reading

\* A writer is told: what it committed was published first.
LEMMA WriteDoneStep ==
  ASSUME Reading, NEW w \in Writers, WriteDone(w)
  PROVE  Reading'
<1> USE CatalogueAssumption
<1>1. w \in Requests /\ w \notin Readers /\ req[w] \in Records /\ req[w].pc = "returned"
  BY DEF Requests, Reading, Types, WriteDone, At
<1>2. UNCHANGED <<content, revision, cache>> /\ Finish(w)
  BY DEF WriteDone
<1>3. PICK x : x = Rest /\ req' = [req EXCEPT ![w] = x]
  BY <1>2 DEF Finish
<1>4. x \in Records /\ x.pc = "rest" /\ x.rev = 0 /\ x.since = 0 /\ x.value = None
  BY <1>3 DEF Rest, Records, Stages
<1>5. /\ \A s \in Requests \ {w} : req'[s] = req[s]
      /\ req'[w] = x /\ req' \in [Requests -> Records]
  BY <1>1, <1>3, <1>4 DEF Reading, Types
<1>6. Shows(revision, answered') /\ answered' \in Nat /\ answered' <= content
  <2>1. CASE req[w].value # None /\ req[w].value > answered
    <3>1. answered' = req[w].value
      BY <2>1 DEF WriteDone
    <3>2. req[w].value \in Nat /\ req[w].value <= content
      BY <2>1, <1>1 DEF Records, Reading, Held
    <3> QED BY <3>1, <3>2, <2>1, <1>1 DEF Reading, Promised
  <2>2. CASE ~(req[w].value # None /\ req[w].value > answered)
    BY <2>2 DEF WriteDone, Reading, Promised, Types
  <2> QED BY <2>1, <2>2
<1>7. Types'
  BY <1>2, <1>4, <1>5, <1>6 DEF Reading, Types
<1>8. \A s \in Readers : s \in Requests /\ req'[s] = req[s]
  BY <1>1, <1>5 DEF Requests
<1>9. Held'
  <2>1. \A v \in Writers \ {w} : v \in Requests /\ req'[v] = req[v]
    BY <1>5 DEF Requests
  <2> QED BY <2>1, <1>2, <1>4, <1>5, <1>8 DEF Reading, Held, At
<1>10. \A k, v : Shows(k, v) => Shows(k, v)'
  BY <1>2, <1>8 DEF Shows
<1>11. Promised'
  <2>1. Shows(revision, answered)'
    BY <1>2, <1>6, <1>8 DEF Shows
  <2>2. ASSUME NEW v \in Writers, req'[v].pc \in Published, req'[v].value # None
        PROVE  Shows(revision, req[v].value)'
    <3>1. v \in Requests \ {w}
      BY <2>2, <1>4, <1>5 DEF Requests
    <3> QED BY <3>1, <2>2, <1>2, <1>5, <1>10 DEF Reading, Promised, Published
  <2>3. \A s \in Readers : Shows(req[s].rev, req[s].since)'
    BY <1>8, <1>10 DEF Reading, Promised
  <2> QED BY <2>1, <2>2, <2>3 DEF Promised, Published
<1> QED BY <1>7, <1>9, <1>11 DEF Reading

-----------------------------------------------------------------------------
(* Faults, and all steps together.                                         *)

LEMMA LeaveStep ==
  ASSUME Reading, NEW r \in Requests, Leave(r)
  PROVE  Reading'
<1> USE CatalogueAssumption
<1>1. UNCHANGED data
  BY DEF Leave
<1>2. CASE req[r].pc \notin Closure
  BY <1>1, <1>2, FinishStep DEF Leave
<1>3. CASE req[r].pc \in Closure
  <2>1. PICK a \in Records : a = req[r]
    BY DEF Reading, Types
  <2>2. PICK x : x = [a EXCEPT !.gone = TRUE] /\ req' = [req EXCEPT ![r] = x]
    BY <1>3, <2>1 DEF Leave, Reading, Types
  <2>3. x = [a EXCEPT !.gone = TRUE]
    BY <2>2
  <2>4. x.pc = a.pc /\ x.value = a.value /\ x.rev = a.rev /\ x.since = a.since
    BY <2>3 DEF Records
  <2>5. x.page = a.page
    BY <2>3 DEF Records
  <2>6. x.changed = a.changed
    BY <2>3 DEF Records
  <2>7. x \in Records
    BY <2>3 DEF Records
  <2>8. r \in Readers => /\ x.pc # "rest" => x.page \in Pages
                         /\ x.pc \in {"storing", "answered"} => x.value # None
                         /\ ~x.changed
    BY <2>1, <2>4, <2>5, <2>6 DEF Reading, Held, At
  <2>9. r \in Writers => /\ x.pc \notin {"look", "lock", "storing", "answered"}
                         /\ x.value # None => x.changed
                         /\ x.pc \in Early => x.value = None
    BY <2>1, <2>4, <2>6 DEF Reading, Held
  <2> QED BY <1>1, <2>1, <2>2, <2>4, <2>7, <2>8, <2>9, Quiet
<1> QED BY <1>2, <1>3

LEMMA EvictStep ==
  ASSUME Reading, Evict
  PROVE  Reading'
<1>1. cache' \subseteq cache /\ UNCHANGED <<content, answered, revision, req>>
  BY DEF Evict
<1>2. Types' /\ Held'
  BY <1>1 DEF Reading, Types, Held, At
<1>3. \A k, v : Shows(k, v) => Shows(k, v)'
  BY <1>1 DEF Shows
<1>4. Promised'
  BY <1>1, <1>3 DEF Reading, Promised
<1> QED BY <1>2, <1>4 DEF Reading

LEMMA CrashStep ==
  ASSUME Reading, Crash
  PROVE  Reading'
<1> USE CatalogueAssumption
<1>1. PICK x : x = Rest /\ req' = [r \in Requests |-> x]
  BY DEF Crash
<1>2. /\ x \in Records /\ x.pc = "rest" /\ x.rev = 0 /\ x.since = 0
      /\ x.value = None /\ ~x.changed
  BY <1>1 DEF Rest, Records, Stages
<1>3. revision' = 0 /\ cache' = {} /\ UNCHANGED <<content, answered>>
  BY DEF Crash
<1>4. \A r \in Requests : req'[r] = x
  BY <1>1
<1>5. Types'
  BY <1>1, <1>2, <1>3, <1>4 DEF Reading, Types
<1>6. Held'
  BY <1>2, <1>4 DEF Held, At, Requests
<1>7. \A k, v : Shows(k, v)'
  BY <1>2, <1>3, <1>4 DEF Shows, Requests
<1>8. Promised'
  BY <1>7 DEF Promised
<1> QED BY <1>5, <1>6, <1>8 DEF Reading

LEMMA ReadingNext == Reading /\ [Next]_vars => Reading'
<1> SUFFICES ASSUME Reading, [Next]_vars PROVE Reading'
  OBVIOUS
<1> USE CatalogueAssumption
<1>1. CASE \E r \in Readers : \E p \in Pages : BeginRead(r, p)
  BY <1>1, BeginReadStep
<1>2. ASSUME NEW w \in Writers, BeginWrite(w) PROVE Reading'
  <2>1. Goto(w, "call") /\ UNCHANGED data /\ At(w, "rest") /\ w \in Requests \ Readers
    BY <1>2 DEF BeginWrite, Requests
  <2>2. "call" \in Stages \ {"rest"} /\ "call" \notin Published /\ req[w].pc \in Early
    BY <2>1 DEF Stages, Before, Published, Early, At
  <2> QED BY <2>1, <2>2, GotoStep
<1>3. ASSUME NEW r \in Requests, RequestStep(r) PROVE Reading'
  <2>1. CASE Look(r)
    BY <2>1, LookupStep DEF Look, At
  <2>2. CASE Lock(r)
    BY <2>2, LookupStep DEF Lock, At
  <2>3. CASE ReadDone(r)
    <3>1. UNCHANGED data /\ r \in Readers /\ r \notin Writers /\ At(r, "returned")
      BY <2>3 DEF ReadDone
    <3>2. CASE Finish(r)
      BY <3>1, <3>2, FinishStep
    <3>3. CASE req[r].value # None /\ Goto(r, "answered")
      BY <3>1, <3>3, GotoStep DEF Stages, After, At
    <3>4. CASE req[r].value # None /\ Goto(r, "storing")
      BY <3>1, <3>4, GotoStep DEF Stages, After, At
    <3> QED BY <2>3, <3>2, <3>3, <3>4 DEF ReadDone
  <2>4. CASE Store(r)
    BY <2>4, StoreStep
  <2>5. CASE Receive(r)
    BY <2>5, FinishStep DEF Receive
  <2>6. CASE WriteDone(r)
    BY <2>6, WriteDoneStep DEF WriteDone
  <2> QED BY <1>3, <2>1, <2>2, <2>3, <2>4, <2>5, <2>6 DEF RequestStep
<1>4. ASSUME NEW r \in Requests, AdmissionStep(r) PROVE Reading'
  <2>1. CASE Admit(r)
    BY <2>1, GotoStep DEF Admit, At, Stages, Before, Early, Published
  <2>2. CASE Refuse(r)
    BY <2>2, FinishStep DEF Refuse
  <2>3. CASE Grant(r)
    BY <2>3, GotoStep DEF Grant, At, Stages, Before, Closure, Early, Published
  <2>4. CASE TimeOut(r)
    BY <2>4, FinishStep DEF TimeOut
  <2> QED BY <1>4, <2>1, <2>2, <2>3, <2>4 DEF AdmissionStep
<1>5. ASSUME NEW r \in Requests, ClosureStep(r) PROVE Reading'
  <2>1. CASE Acquire(r)
    <3>1. UNCHANGED data /\ At(r, "granted") /\ (Goto(r, "running") \/ Goto(r, "opening"))
      BY <2>1 DEF Acquire
    <3> QED BY <3>1, GotoStep DEF At, Stages, Before, Closure, Early, Published
  <2>2. CASE Open(r)
    BY <2>2, GotoStep DEF Open, At, Stages, Before, Closure, Early, Published
  <2>3. CASE Query(r)
    <3>1. PICK v \in Nat : v = content
      BY DEF Reading, Types
    <3>2. /\ r \in Readers /\ ~At(r, "rest") /\ UNCHANGED data
          /\ req' = [req EXCEPT ![r].pc = "ran", ![r].value = v]
      BY <2>3, <3>1 DEF Query, At
    <3> QED BY <3>1, <3>2, ValueStep
  <2>4. CASE Commit(r)
    BY <2>4, CommitStep DEF Commit
  <2>5. CASE Publish(r)
    BY <2>5, PublishStep
  <2>6. CASE Release(r)
    BY <2>6, GotoStep DEF Release, At, Stages, Before, Closure, Early, Published
  <2>7. CASE ReturnPermits(r)
    <3>1. UNCHANGED data /\ At(r, "returning") /\ (Finish(r) \/ Goto(r, "returned"))
      BY <2>7 DEF ReturnPermits
    <3>2. CASE Finish(r)
      BY <3>1, <3>2, FinishStep
    <3>3. CASE Goto(r, "returned")
      BY <3>1, <3>3, GotoStep DEF At, Stages, Before, After, Early, Published
    <3> QED BY <3>1, <3>2, <3>3
  <2> QED BY <1>5, <2>1, <2>2, <2>3, <2>4, <2>5, <2>6, <2>7 DEF ClosureStep
<1>6. ASSUME NEW r \in Requests, FaultStep(r) PROVE Reading'
  <2>1. CASE OpenFails(r)
    <3>1. UNCHANGED data /\ At(r, "opening") /\ Goto(r, "returning")
      BY <2>1 DEF OpenFails
    <3>2. r \in Writers => req[r].value = None
      BY <3>1 DEF Reading, Held, At, Early
    <3> QED BY <3>1, <3>2, GotoStep DEF At, Stages, Before, Closure, Early, Published
  <2>2. CASE RollBack(r)
    BY <2>2, RollBackStep DEF RollBack
  <2>3. CASE Leave(r)
    BY <2>3, LeaveStep
  <2> QED BY <1>6, <2>1, <2>2, <2>3 DEF FaultStep
<1>7. CASE Evict
  BY <1>7, EvictStep
<1>8. CASE Crash
  BY <1>8, CrashStep
<1>9. CASE UNCHANGED vars
  BY <1>9 DEF vars, pool, data, Reading, Types, Held, Promised, Shows, At
<1> QED BY <1>1, <1>2, <1>3, <1>4, <1>5, <1>6, <1>7, <1>8, <1>9 DEF Next

\* A read that begins after a write was answered shows it, however many
\* readers, writers, pages and revisions there are, and whoever hangs up.
THEOREM ReadsFresh == Spec => []Fresh
<1>1. Init => Reading
  BY ReadingInit
<1>2. Reading /\ [Next]_vars => Reading'
  BY ReadingNext
<1>3. Reading => Fresh
  BY ReadingFresh
<1> QED BY <1>1, <1>2, <1>3, PTL DEF Spec

-----------------------------------------------------------------------------
(* Who holds what: the counters of the two semaphores and of the pool are  *)
(* the sizes of three sets, and a step moves one request in or out.        *)

PoolOK == /\ Accounted
          /\ admitted \in 0..Operations /\ workers \in Nat
          /\ idle \in Nat /\ total \in 0..Size
          /\ faults \in 0..MaxFaults

One(p, S) == IF p \in S THEN 1 ELSE 0

\* A finite set gains or loses one element, or neither.
LEMMA OneMoves ==
  ASSUME NEW A, IsFiniteSet(A), NEW r, NEW B, A \ {r} = B \ {r}
  PROVE  /\ IsFiniteSet(B)
         /\ Cardinality(A) \in Nat /\ Cardinality(B) \in Nat
         /\ Cardinality(B) = Cardinality(A) + One(r, B) - One(r, A)
<1>1. IsFiniteSet(A \ {r}) /\ Cardinality(A \ {r}) = IF r \in A THEN Cardinality(A) - 1
                                                     ELSE Cardinality(A)
  BY FS_RemoveElement
<1>2. PICK C : C = A \ {r}
  OBVIOUS
<1>3. (r \in B => B = C \cup {r}) /\ (r \notin B => B = C) /\ r \notin C
  BY <1>2
<1>4. IsFiniteSet(C \cup {r}) /\ Cardinality(C \cup {r}) = Cardinality(C) + 1
  BY <1>1, <1>2, <1>3, FS_AddElement
<1>5. Cardinality(A) \in Nat /\ Cardinality(C) \in Nat /\ IsFiniteSet(C)
  BY <1>1, <1>2, FS_CardinalityType
<1>6. Cardinality(C) = Cardinality(A) - One(r, A)
  BY <1>1, <1>2, <1>5 DEF One
<1>7. IsFiniteSet(B) /\ Cardinality(B) = Cardinality(C) + One(r, B)
  <2>1. CASE r \in B
    BY <2>1, <1>3, <1>4 DEF One
  <2>2. CASE r \notin B
    BY <2>2, <1>3, <1>5 DEF One
  <2> QED BY <2>1, <2>2
<1>8. One(r, A) \in {0, 1} /\ One(r, B) \in {0, 1}
  BY DEF One
<1> QED BY <1>5, <1>6, <1>7, <1>8, FS_CardinalityType

LEMMA HoldersFinite ==
  /\ IsFiniteSet(Admitted) /\ Cardinality(Admitted) \in Nat
  /\ IsFiniteSet(Working) /\ Cardinality(Working) \in Nat
  /\ IsFiniteSet(Connected) /\ Cardinality(Connected) \in Nat
<1>1. Admitted \subseteq Requests /\ Working \subseteq Requests /\ Connected \subseteq Requests
  BY DEF Admitted, Working, Connected
<1>2. IsFiniteSet(Requests)
  BY CatalogueAssumption DEF Requests
<1> QED BY <1>1, <1>2, FS_Subset, FS_CardinalityType

LEMMA Counts ==
  ASSUME req \in [Requests -> Records], req' \in [Requests -> Records],
         NEW r \in Requests, \A s \in Requests \ {r} : req'[s] = req[s]
  PROVE  /\ Cardinality(Admitted') = Cardinality(Admitted)
                + One(req'[r].pc, Closure \cup {"queued"})
                - One(req[r].pc, Closure \cup {"queued"})
         /\ Cardinality(Working') = Cardinality(Working)
                + One(req'[r].pc, Closure) - One(req[r].pc, Closure)
         /\ Cardinality(Connected') = Cardinality(Connected)
                + One(req'[r].pc, Connection) - One(req[r].pc, Connection)
         /\ Cardinality(Admitted') \in Nat
<1>1. /\ Admitted \ {r} = Admitted' \ {r}
      /\ r \in Admitted <=> req[r].pc \in Closure \cup {"queued"}
      /\ r \in Admitted' <=> req'[r].pc \in Closure \cup {"queued"}
  BY DEF Admitted
<1>2. /\ Working \ {r} = Working' \ {r}
      /\ r \in Working <=> req[r].pc \in Closure
      /\ r \in Working' <=> req'[r].pc \in Closure
  BY DEF Working
<1>3. /\ Connected \ {r} = Connected' \ {r}
      /\ r \in Connected <=> req[r].pc \in Connection
      /\ r \in Connected' <=> req'[r].pc \in Connection
  BY DEF Connected
<1>4. Cardinality(Admitted') = Cardinality(Admitted) + One(r, Admitted') - One(r, Admitted)
      /\ Cardinality(Admitted') \in Nat
  BY <1>1, HoldersFinite, OneMoves
<1>5. Cardinality(Working') = Cardinality(Working) + One(r, Working') - One(r, Working)
  BY <1>2, HoldersFinite, OneMoves
<1>6. Cardinality(Connected')
        = Cardinality(Connected) + One(r, Connected') - One(r, Connected)
  BY <1>3, HoldersFinite, OneMoves
<1>7. /\ One(r, Admitted) = One(req[r].pc, Closure \cup {"queued"})
      /\ One(r, Admitted') = One(req'[r].pc, Closure \cup {"queued"})
      /\ One(r, Working) = One(req[r].pc, Closure)
      /\ One(r, Working') = One(req'[r].pc, Closure)
      /\ One(r, Connected) = One(req[r].pc, Connection)
      /\ One(r, Connected') = One(req'[r].pc, Connection)
  BY <1>1, <1>2, <1>3, Zenon DEF One
<1> QED BY <1>4, <1>5, <1>6, <1>7

\* The counters follow when request r moves from one stage to another.
Follows(r) ==
    /\ admitted' = admitted + One(req'[r].pc, Closure \cup {"queued"})
                            - One(req[r].pc, Closure \cup {"queued"})
    /\ workers' = workers - One(req'[r].pc, Closure) + One(req[r].pc, Closure)
    /\ total' - idle' = total - idle + One(req'[r].pc, Connection)
                                     - One(req[r].pc, Connection)
    /\ admitted' <= Operations /\ workers' >= 0 /\ idle' \in Nat /\ total' \in 0..Size

LEMMA PoolMoves ==
  ASSUME PoolOK, req \in [Requests -> Records], req' \in [Requests -> Records],
         NEW r \in Requests, \A s \in Requests \ {r} : req'[s] = req[s],
         Follows(r),
         faults' \in 0..MaxFaults
  PROVE  PoolOK'
<1> USE CatalogueAssumption DEF Follows
<1>1. /\ One(req'[r].pc, Closure \cup {"queued"}) \in {0, 1} /\ One(req[r].pc, Closure \cup {"queued"}) \in {0, 1}
      /\ One(req'[r].pc, Closure) \in {0, 1} /\ One(req[r].pc, Closure) \in {0, 1}
      /\ One(req'[r].pc, Connection) \in {0, 1} /\ One(req[r].pc, Connection) \in {0, 1}
  BY DEF One
<1>2. /\ Cardinality(Admitted) \in Nat /\ Cardinality(Working) \in Nat
      /\ Cardinality(Connected) \in Nat
  BY HoldersFinite
<1>3. Cardinality(Admitted') \in Nat
  BY Counts
<1>4. /\ Cardinality(Admitted') = Cardinality(Admitted)
            + One(req'[r].pc, Closure \cup {"queued"}) - One(req[r].pc, Closure \cup {"queued"})
      /\ Cardinality(Working') = Cardinality(Working)
            + One(req'[r].pc, Closure) - One(req[r].pc, Closure)
      /\ Cardinality(Connected') = Cardinality(Connected)
            + One(req'[r].pc, Connection) - One(req[r].pc, Connection)
  BY Counts
<1>5. /\ admitted \in Nat /\ workers \in Nat /\ idle \in Nat /\ total \in Nat
      /\ admitted = Cardinality(Admitted)
      /\ workers + Cardinality(Working) = Size
      /\ total = idle + Cardinality(Connected)
  BY DEF PoolOK, Accounted
<1>6. admitted' = Cardinality(Admitted')
  BY <1>1, <1>2, <1>4, <1>5
<1>7. workers' + Cardinality(Working') = Size
  BY <1>1, <1>2, <1>4, <1>5
<1>8. total' = idle' + Cardinality(Connected')
  BY <1>1, <1>2, <1>4, <1>5
<1>9. admitted' \in 0..Operations /\ workers' \in Nat
  BY <1>1, <1>3, <1>5, <1>6
<1> QED BY <1>6, <1>7, <1>8, <1>9 DEF PoolOK, Accounted

LEMMA GotoStage ==
  ASSUME req \in [Requests -> Records], NEW r \in Requests, NEW q \in Stages, Goto(r, q)
  PROVE  /\ \A s \in Requests \ {r} : req'[s] = req[s]
         /\ req'[r].pc = q
<1>1. PICK a \in Records : a = req[r]
  OBVIOUS
<1>2. PICK x : x = [a EXCEPT !.pc = q] /\ req' = [req EXCEPT ![r] = x]
  BY <1>1 DEF Goto
<1>3. x.pc = q
  BY <1>2 DEF Records
<1> QED BY <1>2, <1>3

LEMMA FinishStage ==
  ASSUME req \in [Requests -> Records], NEW r \in Requests, Finish(r)
  PROVE  /\ \A s \in Requests \ {r} : req'[s] = req[s]
         /\ req'[r].pc = "rest"
<1>1. PICK x : x = Rest /\ req' = [req EXCEPT ![r] = x]
  BY DEF Finish
<1>2. x.pc = "rest"
  BY <1>1 DEF Rest
<1> QED BY <1>1, <1>2

\* Steps that leave the counters alone move no one in or out of a set.
LEMMA PoolStays ==
  ASSUME PoolOK, req \in [Requests -> Records], req' \in [Requests -> Records],
         NEW r \in Requests, \A s \in Requests \ {r} : req'[s] = req[s],
         UNCHANGED pool, faults' \in 0..MaxFaults,
         req[r].pc \in Closure \cup {"queued"} <=> req'[r].pc \in Closure \cup {"queued"},
         req[r].pc \in Closure <=> req'[r].pc \in Closure,
         req[r].pc \in Connection <=> req'[r].pc \in Connection
  PROVE  PoolOK'
<1>1. /\ One(req'[r].pc, Closure \cup {"queued"}) = One(req[r].pc, Closure \cup {"queued"})
      /\ One(req'[r].pc, Closure) = One(req[r].pc, Closure)
      /\ One(req'[r].pc, Connection) = One(req[r].pc, Connection)
  BY DEF One
<1>2. One(req[r].pc, Closure \cup {"queued"}) \in {0, 1} /\ One(req[r].pc, Closure) \in {0, 1}
      /\ One(req[r].pc, Connection) \in {0, 1}
  BY DEF One
<1>3. Follows(r)
  BY <1>1, <1>2, CatalogueAssumption DEF PoolOK, pool, Follows
<1> QED BY <1>3, PoolMoves

LEMMA PoolCrash ==
  ASSUME PoolOK, Crash, req' \in [Requests -> Records]
  PROVE  PoolOK'
<1>1. PICK x : x = Rest /\ req' = [r \in Requests |-> x]
  BY DEF Crash
<1>2. \A r \in Requests : req'[r].pc = "rest"
  BY <1>1 DEF Rest
<1>3. Admitted' = {} /\ Working' = {} /\ Connected' = {}
  BY <1>2 DEF Admitted, Working, Connected, Closure, Connection
<1>4. Cardinality(Admitted') = 0 /\ Cardinality(Working') = 0 /\ Cardinality(Connected') = 0
  BY <1>3, FS_EmptySet
<1>5. admitted' = 0 /\ workers' = Size /\ idle' = 0 /\ total' = 0 /\ faults' \in 0..MaxFaults
  BY CatalogueAssumption DEF Crash, Fault, PoolOK
<1> QED BY <1>4, <1>5, CatalogueAssumption DEF PoolOK, Accounted

\* A closure with its permit is not among the connected ones, so the pool has
\* something left for it.
LEMMA PoolReady == PoolOK => ConnectionReady
<1> SUFFICES ASSUME PoolOK, NEW r \in Requests, At(r, "granted"), idle = 0
             PROVE  total < Size
  BY DEF ConnectionReady, PoolOK
<1>1. Connected \cup {r} \subseteq Working /\ r \notin Connected
  BY DEF At, Connected, Working, Closure, Connection
<1>2. /\ Cardinality(Connected \cup {r}) = Cardinality(Connected) + 1
      /\ IsFiniteSet(Connected \cup {r})
  BY <1>1, HoldersFinite, FS_AddElement
<1>3. Cardinality(Connected \cup {r}) <= Cardinality(Working)
  BY <1>1, HoldersFinite, FS_Subset
<1> QED BY <1>2, <1>3, HoldersFinite, CatalogueAssumption DEF PoolOK, Accounted

LEMMA PoolNext ==
  ASSUME PoolOK, Reading, Next, req' \in [Requests -> Records]
  PROVE  PoolOK'
<1> USE CatalogueAssumption DEF At
<1>a. req \in [Requests -> Records]
  BY DEF Reading, Types
<1>b. faults \in 0..MaxFaults /\ faults + 1 \in Nat
  BY DEF PoolOK
<1>c. Fault => faults' \in 0..MaxFaults
  BY <1>b DEF Fault
<1>d. /\ admitted \in Nat /\ admitted <= Operations /\ workers \in Nat
      /\ idle \in Nat /\ total \in 0..Size
  BY DEF PoolOK
<1>1. ASSUME NEW r \in Readers, NEW p \in Pages, BeginRead(r, p) PROVE PoolOK'
  <2>1. PICK x : /\ x = [pc |-> "look", page |-> p, rev |-> revision,
                         since |-> answered, value |-> None, changed |-> FALSE,
                         gone |-> FALSE]
                 /\ r \in Requests /\ req' = [req EXCEPT ![r] = x]
    BY <1>1 DEF BeginRead, Requests
  <2>2. req'[r].pc = "look" /\ \A s \in Requests \ {r} : req'[s] = req[s]
    BY <2>1, <1>a
  <2>3. req[r].pc = "rest" /\ UNCHANGED <<pool, faults>>
    BY <1>1 DEF BeginRead
  <2> QED BY <2>1, <2>2, <2>3, <1>a, <1>b, PoolStays DEF Closure, Connection
<1>2. ASSUME NEW w \in Writers, BeginWrite(w) PROVE PoolOK'
  <2>1. w \in Requests /\ req[w].pc = "rest" /\ Goto(w, "call") /\ UNCHANGED <<pool, faults>>
    BY <1>2 DEF BeginWrite, Requests
  <2>2. req'[w].pc = "call" /\ \A s \in Requests \ {w} : req'[s] = req[s]
    BY <2>1, <1>a, GotoStage DEF Stages, Before
  <2> QED BY <2>1, <2>2, <1>a, <1>b, PoolStays DEF Closure, Connection
<1>3. ASSUME NEW r \in Requests, RequestStep(r) PROVE PoolOK'
  <2>0. /\ req[r].pc \in {"look", "lock", "returned", "storing", "answered"}
        /\ UNCHANGED <<pool, faults>>
    BY <1>3 DEF RequestStep, Look, Lock, ReadDone, Store, Receive, WriteDone, pool
  <2>1. \/ Finish(r)
        \/ \E q \in {"lock", "call", "answered", "storing"} : Goto(r, q)
        \/ \E v : req' = [req EXCEPT ![r].pc = "answered", ![r].value = v]
    BY <1>3 DEF RequestStep, Look, Lock, Lookup, ReadDone, Store, Receive, WriteDone
  <2>2. /\ \A s \in Requests \ {r} : req'[s] = req[s]
        /\ req'[r].pc \in {"rest", "lock", "call", "answered", "storing"}
    <3>1. CASE Finish(r)
      BY <3>1, <1>a, FinishStage
    <3>2. CASE \E q \in {"lock", "call", "answered", "storing"} : Goto(r, q)
      BY <3>2, <1>a, GotoStage DEF Stages, Before, After
    <3>3. CASE \E v : req' = [req EXCEPT ![r].pc = "answered", ![r].value = v]
      <4>1. PICK v : req' = [req EXCEPT ![r].pc = "answered", ![r].value = v]
        BY <3>3
      <4>2. PICK a \in Records : a = req[r]
        BY <1>a
      <4>3. PICK x : /\ x = [a EXCEPT !.pc = "answered", !.value = v]
                     /\ req' = [req EXCEPT ![r] = x]
        BY <4>1, <4>2, <1>a
      <4>4. x.pc = "answered"
        BY <4>3 DEF Records
      <4> QED BY <4>3, <4>4, <1>a
    <3> QED BY <2>1, <3>1, <3>2, <3>3
  <2> QED BY <2>0, <2>2, <1>a, <1>b, PoolStays DEF Closure, Connection
<1>4. ASSUME NEW r \in Requests, AdmissionStep(r) PROVE PoolOK'
  <2>1. CASE Admit(r)
    <3>1. /\ req[r].pc = "call" /\ Goto(r, "queued") /\ UNCHANGED <<workers, idle, total, faults>>
          /\ admitted < Operations /\ admitted' = admitted + 1
      BY <2>1 DEF Admit
    <3>2. req'[r].pc = "queued" /\ \A s \in Requests \ {r} : req'[s] = req[s]
      BY <3>1, <1>a, GotoStage DEF Stages, Before
    <3>3. /\ One(req'[r].pc, Closure \cup {"queued"}) = 1
          /\ One(req[r].pc, Closure \cup {"queued"}) = 0
          /\ One(req'[r].pc, Closure) = 0
          /\ One(req[r].pc, Closure) = 0
          /\ One(req'[r].pc, Connection) = 0
          /\ One(req[r].pc, Connection) = 0
      BY <3>1, <3>2 DEF One, Closure, Connection
    <3>4. Follows(r)
      BY <3>1, <3>2, <3>3, <1>a, <1>b, <1>d DEF Follows
    <3> QED BY <3>1, <3>2, <3>3, <1>a, <1>b, <3>4, PoolMoves
  <2>2. CASE Refuse(r)
    <3>1. req[r].pc = "call" /\ Finish(r) /\ UNCHANGED <<pool, faults>>
      BY <2>2 DEF Refuse
    <3>2. req'[r].pc = "rest" /\ \A s \in Requests \ {r} : req'[s] = req[s]
      BY <3>1, <1>a, FinishStage
    <3> QED BY <3>1, <3>2, <1>a, <1>b, PoolStays DEF Closure, Connection
  <2>3. CASE Grant(r)
    <3>1. /\ req[r].pc = "queued" /\ Goto(r, "granted") /\ UNCHANGED <<admitted, idle, total, faults>>
          /\ workers > 0 /\ workers' = workers - 1
      BY <2>3 DEF Grant
    <3>2. req'[r].pc = "granted" /\ \A s \in Requests \ {r} : req'[s] = req[s]
      BY <3>1, <1>a, GotoStage DEF Stages, Closure
    <3>3. /\ One(req'[r].pc, Closure \cup {"queued"}) = 1
          /\ One(req[r].pc, Closure \cup {"queued"}) = 1
          /\ One(req'[r].pc, Closure) = 1
          /\ One(req[r].pc, Closure) = 0
          /\ One(req'[r].pc, Connection) = 0
          /\ One(req[r].pc, Connection) = 0
      BY <3>1, <3>2 DEF One, Closure, Connection
    <3>4. Follows(r)
      BY <3>1, <3>2, <3>3, <1>a, <1>b, <1>d DEF Follows
    <3> QED BY <3>1, <3>2, <3>3, <1>a, <1>b, <3>4, PoolMoves
  <2>4. CASE TimeOut(r)
    <3>1. /\ req[r].pc = "queued" /\ Finish(r) /\ UNCHANGED <<workers, idle, total, faults>>
          /\ admitted' = admitted - 1
      BY <2>4 DEF TimeOut
    <3>2. req'[r].pc = "rest" /\ \A s \in Requests \ {r} : req'[s] = req[s]
      BY <3>1, <1>a, FinishStage
    <3>3. /\ One(req'[r].pc, Closure \cup {"queued"}) = 0
          /\ One(req[r].pc, Closure \cup {"queued"}) = 1
          /\ One(req'[r].pc, Closure) = 0
          /\ One(req[r].pc, Closure) = 0
          /\ One(req'[r].pc, Connection) = 0
          /\ One(req[r].pc, Connection) = 0
      BY <3>1, <3>2 DEF One, Closure, Connection
    <3>4. Follows(r)
      BY <3>1, <3>2, <3>3, <1>a, <1>b, <1>d DEF Follows
    <3> QED BY <3>1, <3>2, <3>3, <1>a, <1>b, <3>4, PoolMoves
  <2> QED BY <1>4, <2>1, <2>2, <2>3, <2>4 DEF AdmissionStep
<1>5. ASSUME NEW r \in Requests, ClosureStep(r) PROVE PoolOK'
  <2>1. CASE Acquire(r)
    <3>1. req[r].pc = "granted" /\ UNCHANGED <<admitted, workers, faults>>
      BY <2>1 DEF Acquire
    <3>2. PICK q \in {"running", "opening"} : Goto(r, q)
      BY <2>1 DEF Acquire
    <3>6. /\ total' - idle' = total - idle + 1
          /\ idle' \in Nat /\ total' \in 0..Size
      BY <2>1, <1>d DEF Acquire
    <3>3. req'[r].pc = q /\ \A s \in Requests \ {r} : req'[s] = req[s]
      BY <3>2, <1>a, GotoStage DEF Stages, Closure
    <3>4. /\ One(req'[r].pc, Closure \cup {"queued"}) = 1
          /\ One(req[r].pc, Closure \cup {"queued"}) = 1
          /\ One(req'[r].pc, Closure) = 1
          /\ One(req[r].pc, Closure) = 1
          /\ One(req'[r].pc, Connection) = 1
          /\ One(req[r].pc, Connection) = 0
      BY <3>1, <3>2, <3>3 DEF One, Closure, Connection
    <3>5. Follows(r)
      BY <3>1, <3>4, <3>6, <1>d DEF Follows
    <3> QED BY <3>1, <3>3, <1>a, <1>b, <3>5, PoolMoves
  <2>2. CASE Open(r) \/ Query(r) \/ Commit(r) \/ Publish(r)
    <3>1. req[r].pc \in {"opening", "running", "ran"} /\ UNCHANGED <<pool, faults>>
      BY <2>2 DEF Open, Query, Commit, Publish, pool
    <3>2. /\ \A s \in Requests \ {r} : req'[s] = req[s]
          /\ req'[r].pc \in {"running", "ran", "release"}
      <4>1. CASE Open(r)
        BY <4>1, <1>a, GotoStage DEF Open, Stages, Closure
      <4>2. CASE Query(r) \/ Commit(r)
        <5>1. PICK a \in Records : a = req[r]
          BY <1>a
        <5>2. \E v : \/ req' = [req EXCEPT ![r].pc = "ran", ![r].value = v]
                     \/ req' = [req EXCEPT ![r].pc = "ran", ![r].value = v,
                                           ![r].changed = TRUE]
          BY <4>2 DEF Query, Commit
        <5>3. \E v : \/ req' = [req EXCEPT ![r] = [a EXCEPT !.pc = "ran", !.value = v]]
                     \/ req' = [req EXCEPT ![r] = [a EXCEPT !.pc = "ran", !.value = v,
                                                            !.changed = TRUE]]
          BY <5>1, <5>2, <1>a
        <5>4. PICK x : /\ req' = [req EXCEPT ![r] = x]
                       /\ \E v : \/ x = [a EXCEPT !.pc = "ran", !.value = v]
                                 \/ x = [a EXCEPT !.pc = "ran", !.value = v, !.changed = TRUE]
          BY <5>3
        <5>5. x.pc = "ran"
          BY <5>4 DEF Records
        <5> QED BY <5>4, <5>5, <1>a
      <4>3. CASE Publish(r)
        BY <4>3, <1>a, GotoStage DEF Publish, Stages, Closure
      <4> QED BY <2>2, <4>1, <4>2, <4>3
    <3> QED BY <3>1, <3>2, <1>a, <1>b, PoolStays DEF Closure, Connection
  <2>3. CASE Release(r)
    <3>1. /\ req[r].pc = "release" /\ Goto(r, "returning")
          /\ UNCHANGED <<admitted, workers, total, faults>> /\ idle' = idle + 1
      BY <2>3 DEF Release
    <3>2. req'[r].pc = "returning" /\ \A s \in Requests \ {r} : req'[s] = req[s]
      BY <3>1, <1>a, GotoStage DEF Stages, Closure
    <3>3. /\ One(req'[r].pc, Closure \cup {"queued"}) = 1
          /\ One(req[r].pc, Closure \cup {"queued"}) = 1
          /\ One(req'[r].pc, Closure) = 1
          /\ One(req[r].pc, Closure) = 1
          /\ One(req'[r].pc, Connection) = 0
          /\ One(req[r].pc, Connection) = 1
      BY <3>1, <3>2 DEF One, Closure, Connection
    <3>4. Follows(r)
      BY <3>1, <3>2, <3>3, <1>a, <1>b, <1>d DEF Follows
    <3> QED BY <3>1, <3>2, <3>3, <1>a, <1>b, <3>4, PoolMoves
  <2>4. CASE ReturnPermits(r)
    <3>1. /\ req[r].pc = "returning" /\ UNCHANGED <<idle, total, faults>>
          /\ admitted' = admitted - 1 /\ workers' = workers + 1
          /\ Finish(r) \/ Goto(r, "returned")
      BY <2>4 DEF ReturnPermits
    <3>2. PICK q \in {"rest", "returned"} :
            req'[r].pc = q /\ \A s \in Requests \ {r} : req'[s] = req[s]
      BY <3>1, <1>a, FinishStage, GotoStage DEF Stages, After
    <3>3. /\ One(req'[r].pc, Closure \cup {"queued"}) = 0
          /\ One(req[r].pc, Closure \cup {"queued"}) = 1
          /\ One(req'[r].pc, Closure) = 0
          /\ One(req[r].pc, Closure) = 1
          /\ One(req'[r].pc, Connection) = 0
          /\ One(req[r].pc, Connection) = 0
      BY <3>1, <3>2 DEF One, Closure, Connection
    <3>4. Follows(r)
      BY <3>1, <3>2, <3>3, <1>a, <1>b, <1>d DEF Follows
    <3> QED BY <3>1, <3>2, <3>3, <1>a, <1>b, <3>4, PoolMoves
  <2> QED BY <1>5, <2>1, <2>2, <2>3, <2>4 DEF ClosureStep
<1>6. ASSUME NEW r \in Requests, FaultStep(r) PROVE PoolOK'
  <2>1. CASE OpenFails(r)
    <3>1. /\ req[r].pc = "opening" /\ Goto(r, "returning") /\ Fault
          /\ UNCHANGED <<admitted, workers, idle>> /\ total' = total - 1
      BY <2>1 DEF OpenFails
    <3>2. req'[r].pc = "returning" /\ \A s \in Requests \ {r} : req'[s] = req[s]
      BY <3>1, <1>a, GotoStage DEF Stages, Closure
    <3>3. /\ One(req'[r].pc, Closure \cup {"queued"}) = 1
          /\ One(req[r].pc, Closure \cup {"queued"}) = 1
          /\ One(req'[r].pc, Closure) = 1
          /\ One(req[r].pc, Closure) = 1
          /\ One(req'[r].pc, Connection) = 0
          /\ One(req[r].pc, Connection) = 1
      BY <3>1, <3>2 DEF One, Closure, Connection
    <3>4. total' \in 0..Size
      <4>1. r \in Connected
        BY <3>1 DEF Connected, Connection
      <4>2. Cardinality(Connected) # 0 /\ Cardinality(Connected) \in Nat
        BY <4>1, HoldersFinite, FS_EmptySet
      <4> QED BY <4>2, <3>1, <1>d DEF PoolOK, Accounted
    <3>5. Follows(r)
      BY <3>1, <3>2, <3>3, <3>4, <1>a, <1>c, <1>d DEF Follows
    <3> QED BY <3>1, <3>2, <3>3, <3>4, <1>a, <1>c, <3>5, PoolMoves
  <2>2. CASE RollBack(r)
    <3>1. req[r].pc = "running" /\ UNCHANGED pool /\ Fault
      BY <2>2 DEF RollBack
    <3>2. PICK a \in Records : a = req[r]
      BY <1>a
    <3>3. PICK x : /\ x = [a EXCEPT !.pc = "ran", !.changed = TRUE]
                   /\ req' = [req EXCEPT ![r] = x]
      BY <2>2, <3>2, <1>a DEF RollBack
    <3>4. x.pc = "ran"
      BY <3>3 DEF Records
    <3>5. req'[r].pc = "ran" /\ \A s \in Requests \ {r} : req'[s] = req[s]
      BY <3>3, <3>4, <1>a
    <3> QED BY <3>1, <3>5, <1>a, <1>c, PoolStays DEF Closure, Connection
  <2>3. CASE Leave(r) /\ req[r].pc \in Closure
    <3>1. UNCHANGED pool /\ Fault
      BY <2>3 DEF Leave, Closure, pool
    <3>2. PICK a \in Records : a = req[r]
      BY <1>a
    <3>3. PICK x : x = [a EXCEPT !.gone = TRUE] /\ req' = [req EXCEPT ![r] = x]
      BY <2>3, <3>2, <1>a DEF Leave
    <3>4. x.pc = a.pc
      BY <3>3 DEF Records
    <3>5. req'[r].pc = req[r].pc /\ \A s \in Requests \ {r} : req'[s] = req[s]
      BY <3>2, <3>3, <3>4, <1>a
    <3> QED BY <3>1, <3>5, <1>a, <1>c, PoolStays
  <2>4. CASE Leave(r) /\ req[r].pc \notin Closure
    <3>1. Finish(r) /\ Fault /\ UNCHANGED <<workers, idle, total>>
      BY <2>4 DEF Leave
    <3>2. req'[r].pc = "rest" /\ \A s \in Requests \ {r} : req'[s] = req[s]
      BY <3>1, <1>a, FinishStage
    <3>3. CASE req[r].pc = "queued"
      <4>1. admitted' = admitted - 1
        BY <2>4, <3>3 DEF Leave
      <4>2. /\ One(req'[r].pc, Closure \cup {"queued"}) = 0
            /\ One(req[r].pc, Closure \cup {"queued"}) = 1
            /\ One(req'[r].pc, Closure) = 0
            /\ One(req[r].pc, Closure) = 0
            /\ One(req'[r].pc, Connection) = 0
            /\ One(req[r].pc, Connection) = 0
        BY <3>2, <3>3 DEF One, Closure, Connection
      <4>3. Follows(r)
        BY <3>1, <3>2, <3>3, <4>1, <4>2, <1>a, <1>c, <1>d DEF Follows
      <4> QED BY <3>1, <3>2, <3>3, <4>1, <4>2, <1>a, <1>c, <4>3, PoolMoves
    <3>4. CASE req[r].pc # "queued"
      <4>1. UNCHANGED pool
        BY <2>4, <3>4 DEF Leave, pool
      <4> QED BY <2>4, <3>1, <3>2, <3>4, <4>1, <1>a, <1>c, PoolStays DEF Closure, Connection
    <3> QED BY <3>3, <3>4
  <2> QED BY <1>6, <2>1, <2>2, <2>3, <2>4 DEF FaultStep
<1>7. CASE Evict
  BY <1>7 DEF Evict, PoolOK, Accounted, Admitted, Working, Connected, pool
<1>8. CASE Crash
  BY <1>8, PoolCrash
<1> QED BY <1>1, <1>2, <1>3, <1>4, <1>5, <1>6, <1>7, <1>8 DEF Next

LEMMA PoolInit == Init => PoolOK
<1> SUFFICES ASSUME Init PROVE PoolOK
  OBVIOUS
<1>1. PICK x : x = Rest /\ req = [r \in Requests |-> x]
  BY DEF Init
<1>2. \A r \in Requests : req[r].pc = "rest"
  BY <1>1 DEF Rest
<1>3. Admitted = {} /\ Working = {} /\ Connected = {}
  BY <1>2 DEF Admitted, Working, Connected, Closure, Connection
<1>4. Cardinality(Admitted) = 0 /\ Cardinality(Working) = 0 /\ Cardinality(Connected) = 0
  BY <1>3, FS_EmptySet
<1>5. /\ admitted = 0 /\ workers = Size /\ idle = 0 /\ total = 0
      /\ faults \in 0..MaxFaults
  BY CatalogueAssumption DEF Init
<1> QED BY <1>4, <1>5, CatalogueAssumption DEF PoolOK, Accounted

LEMMA ReadingTypeOK == Reading /\ PoolOK => TypeOK
<1> SUFFICES ASSUME Reading, PoolOK PROVE TypeOK
  OBVIOUS
<1>1. workers \in 0..Size /\ idle \in 0..total
  BY HoldersFinite, CatalogueAssumption DEF PoolOK, Accounted
<1> QED BY <1>1, CatalogueAssumption DEF Reading, Types, PoolOK, TypeOK

\* Both invariants together.
THEOREM ReadsInductive == Spec => [](Reading /\ PoolOK)
<1>1. Init => Reading /\ PoolOK
  BY ReadingInit, PoolInit
<1>2. Reading /\ PoolOK /\ [Next]_vars => (Reading /\ PoolOK)'
  <2> SUFFICES ASSUME Reading, PoolOK, [Next]_vars PROVE Reading' /\ PoolOK'
    OBVIOUS
  <2>1. Reading'
    BY ReadingNext
  <2>2. CASE Next
    BY <2>1, <2>2, PoolNext DEF Reading, Types
  <2>3. CASE UNCHANGED vars
    <3>1. UNCHANGED <<pool, req, faults>>
      BY <2>3 DEF vars, pool
    <3>2. Admitted' = Admitted /\ Working' = Working /\ Connected' = Connected
      BY <3>1 DEF Admitted, Working, Connected
    <3>3. Accounted'
      BY <3>1, <3>2 DEF pool, PoolOK, Accounted
    <3> QED BY <2>1, <3>1, <3>3 DEF pool, PoolOK
  <2> QED BY <2>1, <2>2, <2>3
<1> QED BY <1>1, <1>2, PTL DEF Spec

\* The types of the specification, whatever its constants.
THEOREM ReadsTyped == Spec => []TypeOK
  BY ReadsInductive, ReadingTypeOK, PTL

\* No permit and no place in the pool is leaked or counted twice.
THEOREM PoolAccounted == Spec => []Accounted
<1>1. PoolOK => Accounted
  BY DEF PoolOK
<1> QED BY <1>1, ReadsInductive, PTL

\* No closure that was granted a worker permit waits for a connection.
THEOREM PoolNeverWaits == Spec => []ConnectionReady
  BY ReadsInductive, PoolReady, PTL

=============================================================================

------------------------- MODULE MediaProgress_proof -------------------------
(***************************************************************************)
(* A session's position is only ever replaced by a later one, for any      *)
(* number of tabs, sessions, packets, faults and turns: what is afoot is   *)
(* never ahead of the row it was composed against, and what was composed   *)
(* against the row that stands is ahead of all the server has taken.  A    *)
(* player whose dirty flag is down has had its last packet taken; and what *)
(* a session composed last is in the browser's journal until the server    *)
(* has taken it or an error answer has removed it.                         *)
(***************************************************************************)
EXTENDS MediaProgress, TLAPS

Own(t) == {t} \X (1..MaxWriters[t])

\* A row that has been.
Past(r) == r \in Records /\ r.rev <= rec.rev

\* A packet that may still arrive.
Due(p) ==
  /\ p \in Packets
  /\ p.base <= rec.rev /\ p.seq <= last[p.writer]
  /\ p.base = rec.rev /\ p.writer # rec.writer =>
       p.seq > taken[p.writer] /\ p.seq > doomed[p.writer]

GoodEntry(e) ==
  /\ e \in Entries
  /\ Due(e.journal) /\ (e.sent = None \/ Due(e.sent))
  /\ e.answer \in {None} \cup Errors \/ Past(e.answer)

\* The player of t is ahead of what was composed, and its next sessions are new.
Fits(t, pl) ==
  /\ pl \in Players /\ pl.writer \in Own(t)
  /\ last[pl.writer] <= pl.seq
  /\ \A w \in Own(t) : w[2] > pl.writer[2] => last[w] = 0
  /\ pl.view = None \/ Past(pl.view)

NetOK    == \A q \in BagToSet(net) : q \in Requests /\ Due(q.pkt)
OutboxOK == /\ outbox \in [Tabs -> [Writers -> Entries \cup {None}]]
            /\ \A t \in Tabs, w \in Writers : outbox[t][w] = None \/ GoodEntry(outbox[t][w])
StoredOK == /\ stored \in [Browsers -> [Writers -> Packets \cup {None}]]
            /\ \A b \in Browsers, w \in Writers : stored[b][w] = None \/ Due(stored[b][w])
FetchOK  == /\ fetch \in [Tabs -> Records \cup {None}]
            /\ \A t \in Tabs : fetch[t] = None \/ Past(fetch[t])
PlayersOK == player \in [Tabs -> Players] /\ \A t \in Tabs : Fits(t, player[t])

\* The row, and what was taken and given up, against what was composed.
RowOK ==
  /\ rec \in Records
  /\ last \in [Writers -> Nat] /\ taken \in [Writers -> Nat] /\ doomed \in [Writers -> Nat]
  /\ rec.writer # None => taken[rec.writer] = rec.seq /\ doomed[rec.writer] < rec.seq
  /\ \A w \in Writers : taken[w] <= last[w] /\ doomed[w] <= last[w]

Counted ==
  /\ faults \in 0..MaxFaults /\ turns \in 0..MaxTurns
  /\ composed \in [Tabs -> Nat] /\ discarded \subseteq Writers /\ trashed \in BOOLEAN

IInv == RowOK /\ NetOK /\ OutboxOK /\ StoredOK /\ FetchOK /\ PlayersOK /\ Counted

\* What the row may become.
Orderly ==
  rec' # rec => /\ rec'.writer \in Writers
                /\ rec'.seq > taken[rec'.writer] /\ rec'.seq > doomed[rec'.writer]

-----------------------------------------------------------------------------
(* Bags and sessions.                                                      *)

LEMMA FewerRequests ==
  ASSUME NEW q, net' = net (-) SetToBag({q})
  PROVE  BagToSet(net') \subseteq BagToSet(net)
BY DEF BagToSet, (-), SetToBag

LEMMA MoreRequests ==
  ASSUME NEW S, net' = net (+) SetToBag(S)
  PROVE  BagToSet(net') = BagToSet(net) \cup S
BY DEF BagToSet, (+), SetToBag

LEMMA OwnWriters ==
  ASSUME NEW t \in Tabs
  PROVE  /\ Own(t) \subseteq Writers
         /\ \A w \in Own(t) : w = <<t, w[2]>> /\ w[1] = t /\ w[2] \in 1..MaxWriters[t]
         /\ \A k \in 1..MaxWriters[t] : <<t, k>> \in Own(t)
BY DEF Own, Writers

LEMMA OthersWriters ==
  ASSUME NEW t \in Tabs, NEW u \in Tabs, NEW w \in Own(t), w \in Own(u)
  PROVE  t = u
BY OwnWriters

-----------------------------------------------------------------------------
(* What stays due.                                                         *)

\* Packets, rows and entries that were good still are.
Onward ==
  /\ rec' \in Records /\ rec.rev <= rec'.rev
  /\ \A p : Due(p) => Due(p)'
  /\ \A r : Past(r) => Past(r)'
  /\ \A e : GoodEntry(e) => GoodEntry(e)'

\* The client's steps: the row stands, and more may be composed.
Composing ==
  /\ UNCHANGED <<rec, taken, doomed>>
  /\ last' \in [Writers -> Nat]
  /\ \A w \in Writers : last[w] <= last'[w]

LEMMA ComposingOn ==
  ASSUME RowOK, Composing
  PROVE  Onward /\ RowOK'
<1>1. RowOK'
  BY DEF RowOK, Composing, Records
<1>2. \A p : Due(p) => Due(p)'
  BY DEF RowOK, Composing, Due, Packets
<1>3. \A r : Past(r) => Past(r)'
  BY DEF Composing, Past
<1>4. \A e : GoodEntry(e) => GoodEntry(e)'
  BY <1>2, <1>3 DEF GoodEntry
<1>5. rec' \in Records /\ rec.rev <= rec'.rev
  BY DEF RowOK, Composing, Records
<1> QED
  BY <1>1, <1>2, <1>3, <1>4, <1>5 DEF Onward

LEMMA StoredStays ==
  ASSUME StoredOK, Onward, UNCHANGED stored
  PROVE  StoredOK'
BY DEF StoredOK, Onward

LEMMA OutboxStays ==
  ASSUME OutboxOK, Onward, UNCHANGED outbox
  PROVE  OutboxOK'
BY DEF OutboxOK, Onward

LEMMA NetStays ==
  ASSUME NetOK, Onward, BagToSet(net') \subseteq BagToSet(net)
  PROVE  NetOK'
BY DEF NetOK, Onward

LEMMA FetchStays ==
  ASSUME FetchOK, Onward, UNCHANGED fetch
  PROVE  FetchOK'
BY DEF FetchOK, Onward

LEMMA PlayersStay ==
  ASSUME PlayersOK, Onward, UNCHANGED <<player, last>>
  PROVE  PlayersOK'
BY DEF PlayersOK, Fits, Onward

-----------------------------------------------------------------------------
(* The server's decision.                                                  *)

LEMMA AcceptedOK ==
  ASSUME RowOK, NEW p, Due(p), decide_write(rec, p) = "accept", Accepted(p), UNCHANGED last
  PROVE  Onward /\ RowOK' /\ Orderly /\ rec' \in Records /\ rec'.writer \in Writers
<1>1. /\ p.writer \in Writers /\ p.seq \in Nat /\ p.base \in Nat
      /\ rec.rev \in Nat /\ rec.seq \in Nat /\ rec \in Records
  BY DEF RowOK, Due, Packets, Records
<1>2. /\ rec'.rev = rec.rev + 1 /\ rec'.writer = p.writer /\ rec'.seq = p.seq
      /\ rec' \in Records
  BY <1>1 DEF Accepted, Saved, Records
<1>3. p.seq > taken[p.writer] /\ p.seq > doomed[p.writer]
  <2>1. CASE rec.writer = p.writer
    <3>1. p.seq > rec.seq
      BY <2>1, <1>1 DEF decide_write
    <3>2. rec.writer # None
      BY <2>1, <1>1, NoneAssumption
    <3>3. taken[p.writer] = rec.seq /\ doomed[p.writer] < rec.seq
      BY <3>2, <2>1 DEF RowOK
    <3>4. doomed[p.writer] \in Nat
      BY <1>1 DEF RowOK
    <3> QED  BY <3>1, <3>3, <3>4, <1>1
  <2>2. CASE rec.writer # p.writer
    <3>1. p.base = rec.rev
      BY <2>2 DEF decide_write
    <3> QED  BY <2>2, <3>1 DEF Due
  <2> QED  BY <2>1, <2>2
<1>4. Orderly
  BY <1>1, <1>2, <1>3 DEF Orderly
<1>5. RowOK'
  <2>1. taken' \in [Writers -> Nat] /\ doomed' \in [Writers -> Nat]
    BY <1>1 DEF Accepted, RowOK
  <2>2. taken'[p.writer] = p.seq /\ doomed'[p.writer] = doomed[p.writer]
    BY <1>1 DEF Accepted, RowOK
  <2>3. \A w \in Writers : taken'[w] <= last'[w]
    BY <1>1 DEF Accepted, RowOK, Due
  <2>4. \A w \in Writers : doomed'[w] <= last'[w]
    BY <1>1 DEF Accepted, RowOK
  <2>5. last' \in [Writers -> Nat]
    BY DEF RowOK
  <2>6. taken'[rec'.writer] = rec'.seq /\ doomed'[rec'.writer] < rec'.seq
    BY <1>2, <1>3, <2>2
  <2> QED  BY <1>2, <2>1, <2>3, <2>4, <2>5, <2>6 DEF RowOK
<1>6. ASSUME NEW x, Due(x)  PROVE Due(x)'
  <2>1. x \in Packets /\ x.base \in Nat /\ x.base <= rec.rev /\ x.seq <= last'[x.writer]
    BY <1>6 DEF Due, Packets
  <2>2. x.base <= rec'.rev /\ x.base # rec'.rev
    BY <1>1, <1>2, <2>1
  <2> QED  BY <2>1, <2>2 DEF Due
<1>7. ASSUME NEW r, Past(r)  PROVE Past(r)'
  BY <1>1, <1>2, <1>7 DEF Past, Records
<1>8. \A e : GoodEntry(e) => GoodEntry(e)'
  BY <1>6, <1>7 DEF GoodEntry
<1>9. rec.rev <= rec'.rev
  BY <1>1, <1>2
<1>10. Onward
  BY <1>2, <1>6, <1>7, <1>8, <1>9 DEF Onward
<1> QED
  BY <1>1, <1>2, <1>4, <1>5, <1>10

\* What one decision of the server does, and what it answers.
LEMMA DecidedOK ==
  ASSUME RowOK, NEW p, Due(p), NEW v, v = decide_write(rec, p), Decided(p, v),
         UNCHANGED last
  PROVE  /\ Onward /\ RowOK' /\ Orderly
         /\ \/ Answer(p, v) = Conflict
            \/ Answer(p, v) \in Records /\ Answer(p, v).rev <= rec'.rev
<1>1. p.writer \in Writers /\ rec \in Records /\ rec.rev \in Nat
  BY DEF RowOK, Due, Packets, Records
<1>2. CASE v = "accept" /\ Accepted(p)
  <2>1. Onward /\ RowOK' /\ Orderly /\ rec' \in Records
    BY <1>2, AcceptedOK
  <2>2. Answer(p, v) = rec' /\ rec'.rev \in Nat
    BY <1>2, <2>1 DEF Answer, Accepted, Records
  <2> QED  BY <2>1, <2>2
<1>3. CASE v # "accept" /\ UNCHANGED <<rec, ghosts>>
  <2>1. RowOK' /\ Orderly
    BY <1>3 DEF RowOK, Orderly, ghosts
  <2>2. \A x : Due(x) => Due(x)'
    BY <1>3 DEF Due, ghosts
  <2>3. \A r : Past(r) => Past(r)'
    BY <1>3 DEF Past
  <2>4. \A e : GoodEntry(e) => GoodEntry(e)'
    BY <2>2, <2>3 DEF GoodEntry
  <2>5. v \in {"duplicate", "conflict"}
    BY <1>3 DEF decide_write
  <2>6. \/ Answer(p, v) = Conflict
        \/ Answer(p, v) \in Records /\ Answer(p, v).rev <= rec'.rev
    BY <1>1, <1>3, <2>5 DEF Answer
  <2> QED  BY <1>1, <1>3, <2>1, <2>2, <2>3, <2>4, <2>6 DEF Onward
<1> QED
  BY <1>2, <1>3 DEF Decided

-----------------------------------------------------------------------------
(* One place of the outbox, of a journal, one player.                      *)

LEMMA OutboxSet ==
  ASSUME OutboxOK, Onward, NEW t \in Tabs, NEW w \in Writers,
         NEW e, e = None \/ GoodEntry(e)', outbox' = [outbox EXCEPT ![t][w] = e]
  PROVE  OutboxOK'
<1>1. e \in Entries \cup {None}
  BY DEF GoodEntry
<1>2. outbox' \in [Tabs -> [Writers -> Entries \cup {None}]]
  BY <1>1 DEF OutboxOK
<1>3. ASSUME NEW u \in Tabs, NEW x \in Writers
      PROVE  outbox'[u][x] = IF u = t /\ x = w THEN e ELSE outbox[u][x]
  BY DEF OutboxOK
<1>4. \A u \in Tabs, x \in Writers : outbox'[u][x] = None \/ GoodEntry(outbox[u][x])'
  BY <1>3 DEF OutboxOK, Onward
<1> QED
  BY <1>2, <1>4 DEF OutboxOK

LEMMA StoredSet ==
  ASSUME StoredOK, Onward, NEW b \in Browsers, NEW w \in Writers,
         NEW p, p = None \/ Due(p)', stored' = [stored EXCEPT ![b][w] = p]
  PROVE  StoredOK'
<1>1. p \in Packets \cup {None}
  BY DEF Due
<1>2. stored' \in [Browsers -> [Writers -> Packets \cup {None}]]
  BY <1>1 DEF StoredOK
<1>3. ASSUME NEW u \in Browsers, NEW x \in Writers
      PROVE  stored'[u][x] = IF u = b /\ x = w THEN p ELSE stored[u][x]
  BY DEF StoredOK
<1>4. \A u \in Browsers, x \in Writers : stored'[u][x] = None \/ Due(stored[u][x])'
  BY <1>3 DEF StoredOK, Onward
<1> QED
  BY <1>2, <1>4 DEF StoredOK

LEMMA FetchSet ==
  ASSUME FetchOK, Onward, NEW t \in Tabs, NEW r, r = None \/ Past(r)',
         fetch' = [fetch EXCEPT ![t] = r]
  PROVE  FetchOK'
<1>1. r \in Records \cup {None}
  BY DEF Past
<1>2. \A u \in Tabs : fetch'[u] = IF u = t THEN r ELSE fetch[u]
  BY DEF FetchOK
<1> QED
  BY <1>1, <1>2 DEF FetchOK, Onward

LEMMA PlayerSet ==
  ASSUME PlayersOK, Onward, NEW t \in Tabs, NEW pl, Fits(t, pl)',
         \A w \in Writers \ Own(t) : last'[w] = last[w],
         player' = [player EXCEPT ![t] = pl]
  PROVE  PlayersOK'
<1>1. pl \in Players
  BY DEF Fits
<1>2. player' \in [Tabs -> Players]
  BY <1>1 DEF PlayersOK
<1>3. ASSUME NEW u \in Tabs, u # t  PROVE Fits(u, player[u])'
  <2>1. player'[u] = player[u] /\ Fits(u, player[u])
    BY <1>3 DEF PlayersOK
  <2>2. \A w \in Own(u) : last'[w] = last[w]
    BY <1>3, OwnWriters, OthersWriters
  <2>3. PICK o : o = player[u]
    OBVIOUS
  <2>4. Fits(u, o)'
    BY <2>1, <2>2, <2>3 DEF Fits, Onward
  <2> QED  BY <2>1, <2>3, <2>4
<1>4. Fits(t, player[t])'
  BY DEF PlayersOK
<1> QED
  BY <1>2, <1>3, <1>4 DEF PlayersOK

-----------------------------------------------------------------------------
(* The server's steps.                                                     *)

LEMMA ServeKeeps ==
  ASSUME IInv, NEW q \in BagToSet(net), Serve(q)
  PROVE  IInv' /\ Orderly
<1>1. q.from \in Tabs /\ q.pkt \in Packets /\ q.pkt.writer \in Writers /\ Due(q.pkt)
  BY DEF IInv, NetOK, Requests, Packets
<1>2. PICK p : p = q.pkt
  OBVIOUS
<1>3. PICK v : v = decide_write(rec, p)
  OBVIOUS
<1>4. PICK e : e = outbox[q.from][p.writer]
  OBVIOUS
<1>5. PICK a : a = Answer(p, v)
  OBVIOUS
<1>6. PICK f : f = [e EXCEPT !.answer = a]
  OBVIOUS
<1>7. Due(p) /\ Decided(p, v) /\ UNCHANGED last /\ RowOK
  BY <1>1, <1>2, <1>3 DEF Serve, local, IInv
<1>8. /\ Onward /\ RowOK' /\ Orderly
      /\ a = Conflict \/ (a \in Records /\ a.rev <= rec'.rev)
  BY <1>3, <1>5, <1>7, DecidedOK
<1>9. e # None /\ GoodEntry(e)
  BY <1>1, <1>2, <1>4 DEF Serve, Awaits, IInv, OutboxOK
<1>10. GoodEntry(f)'
  <2>1. GoodEntry(e)'
    BY <1>8, <1>9 DEF Onward
  <2>2. a \in Errors \/ Past(a)'
    BY <1>8 DEF Past, Errors
  <2>3. f \in Entries
    BY <1>6, <1>8, <1>9 DEF GoodEntry, Entries, Errors
  <2>4. f.journal = e.journal /\ f.sent = e.sent /\ f.answer = a
    BY <1>6, <1>9 DEF GoodEntry, Entries
  <2> QED  BY <2>1, <2>2, <2>3, <2>4 DEF GoodEntry
<1>11. outbox' = [outbox EXCEPT ![q.from][p.writer] = f]
  BY <1>1, <1>2, <1>3, <1>4, <1>5, <1>6 DEF Serve, IInv, OutboxOK
<1>12. OutboxOK'
  <2>1. p.writer \in Writers
    BY <1>1, <1>2
  <2> QED  BY <1>1, <1>8, <1>10, <1>11, <2>1, OutboxSet DEF IInv
<1>13. NetOK'
  BY <1>8, FewerRequests, NetStays DEF Serve, IInv
<1>14. UNCHANGED <<trashed, discarded, stored, fetch, player, last, composed, faults, turns>>
  BY DEF Serve, local
<1>15. StoredOK' /\ FetchOK' /\ PlayersOK'
  BY <1>8, <1>14, StoredStays, FetchStays, PlayersStay DEF IInv
<1>16. Counted'
  BY <1>8, <1>14 DEF IInv, Counted
<1> QED
  BY <1>8, <1>12, <1>13, <1>15, <1>16 DEF IInv

LEMMA Standing ==
  ASSUME RowOK, UNCHANGED <<rec, last, ghosts>>
  PROVE  Onward /\ RowOK' /\ Orderly
<1>1. Composing
  BY DEF Composing, RowOK, ghosts
<1>2. Orderly
  BY DEF Orderly
<1> QED
  BY <1>1, <1>2, ComposingOn

LEMMA TurnAwayKeeps ==
  ASSUME IInv, NEW q \in BagToSet(net), TurnAway(q)
  PROVE  IInv' /\ Orderly
<1>1. q.from \in Tabs /\ q.pkt.writer \in Writers
  BY DEF IInv, NetOK, Requests, Packets
<1>2. PICK t, w : t = q.from /\ w = q.pkt.writer
  OBVIOUS
<1>3. PICK e : e = outbox[t][w]
  OBVIOUS
<1>4. PICK f : f = [e EXCEPT !.answer = Missing]
  OBVIOUS
<1>5. Onward /\ RowOK' /\ Orderly
  BY Standing DEF IInv, TurnAway, file, local
<1>6. GoodEntry(e)
  BY <1>1, <1>2, <1>3 DEF TurnAway, Awaits, IInv, OutboxOK
<1>7. GoodEntry(f)'
  <2>1. GoodEntry(e)'
    BY <1>5, <1>6 DEF Onward
  <2>2. f \in Entries /\ f.journal = e.journal /\ f.sent = e.sent /\ f.answer = Missing
    BY <1>4, <1>6 DEF GoodEntry, Entries
  <2> QED  BY <2>1, <2>2 DEF GoodEntry, Errors
<1>8. OutboxOK'
  <2>1. outbox' = [outbox EXCEPT ![t][w] = f]
    BY <1>1, <1>2, <1>3, <1>4 DEF TurnAway, IInv, OutboxOK
  <2> QED  BY <1>1, <1>2, <1>5, <1>7, <2>1, OutboxSet DEF IInv
<1>9. NetOK'
  <2>1. net' = net (-) SetToBag({q})
    BY DEF TurnAway
  <2> QED  BY <1>5, <2>1, FewerRequests, NetStays DEF IInv
<1>10. UNCHANGED <<file, stored, fetch, player, last, composed, turns, discarded>>
  BY DEF TurnAway, local
<1>11. StoredOK' /\ FetchOK' /\ PlayersOK'
  BY <1>5, <1>10, StoredStays, FetchStays, PlayersStay DEF IInv
<1>12. faults' \in 0..MaxFaults
  BY BoundsAssumption DEF TurnAway, IInv, Counted
<1>13. Counted'
  BY <1>10, <1>12 DEF IInv, Counted, file
<1> QED
  BY <1>5, <1>8, <1>9, <1>11, <1>13 DEF IInv

\* The file comes and goes, and a request with nobody waiting or an answer is lost.
LEMMA UnheardKeeps ==
  ASSUME IInv, \/ Trash \/ Untrash
               \/ \E q \in BagToSet(net) : ServeUnheard(q) \/ LoseRequest(q)
  PROVE  IInv' /\ Orderly
<1>1. UNCHANGED <<outbox, stored, fetch, player, last, composed, turns, discarded>>
  BY DEF ServeUnheard, LoseRequest, Trash, Untrash, local
<1>2. Onward /\ RowOK' /\ Orderly
  <2>1. ASSUME NEW q \in BagToSet(net), Decided(q.pkt, decide_write(rec, q.pkt))
        PROVE  Onward /\ RowOK' /\ Orderly
    <3>1. PICK p : p = q.pkt
      OBVIOUS
    <3>2. PICK v : v = decide_write(rec, p)
      OBVIOUS
    <3>3. Decided(p, v) /\ RowOK /\ Due(p)
      BY <2>1, <3>1, <3>2 DEF IInv, NetOK
    <3> QED  BY <1>1, <3>2, <3>3, DecidedOK
  <2>2. CASE UNCHANGED <<rec, ghosts>>
    BY <1>1, <2>2, Standing DEF IInv
  <2> QED  BY <2>1, <2>2 DEF ServeUnheard, LoseRequest, Trash, Untrash, file
<1>3. BagToSet(net') \subseteq BagToSet(net)
  <2>1. ASSUME NEW q, net' = net (-) SetToBag({q})
        PROVE  BagToSet(net') \subseteq BagToSet(net)
    BY <2>1, FewerRequests
  <2> QED  BY <2>1 DEF ServeUnheard, LoseRequest, Trash, Untrash
<1>4. NetOK' /\ StoredOK' /\ FetchOK' /\ PlayersOK' /\ OutboxOK'
  BY <1>1, <1>2, <1>3, NetStays, StoredStays, FetchStays, PlayersStay, OutboxStays DEF IInv
<1>5. faults' \in 0..MaxFaults
  <2>1. faults' = faults \/ (faults < MaxFaults /\ faults' = faults + 1)
    BY Zenon DEF ServeUnheard, LoseRequest, Trash, Untrash
  <2> QED  BY <2>1, BoundsAssumption DEF IInv, Counted
<1>6. trashed' \in BOOLEAN
  BY Zenon DEF ServeUnheard, LoseRequest, Trash, Untrash, file, IInv, Counted
<1>7. Counted'
  BY <1>1, <1>5, <1>6 DEF IInv, Counted
<1> QED
  BY <1>2, <1>4, <1>7 DEF IInv

-----------------------------------------------------------------------------
(* The outbox's steps.                                                     *)

LEMMA NetAdd ==
  ASSUME NetOK, Onward, NEW S, \A q \in S : q \in Requests /\ Due(q.pkt)',
         net' = net (+) SetToBag(S)
  PROVE  NetOK'
<1>1. BagToSet(net') = BagToSet(net) \cup S
  BY MoreRequests
<1> QED
  BY <1>1 DEF NetOK, Onward

LEMMA PostDue ==
  ASSUME NEW t \in Tabs, NEW p, Due(p)'
  PROVE  \A q \in {[from |-> t, pkt |-> p]} : q \in Requests /\ Due(q.pkt)'
BY DEF Requests, Due

LEMMA RetryKeeps ==
  ASSUME IInv, NEW t \in Tabs, NEW w \in Writers, Retry(t, w)
  PROVE  IInv' /\ Orderly
<1>1. PICK e : e = outbox[t][w]
  OBVIOUS
<1>2. PICK f : f = [e EXCEPT !.sent = e.journal]
  OBVIOUS
<1>3. GoodEntry(e) /\ e.sent = None
  BY <1>1 DEF Retry, Waiting, IInv, OutboxOK
<1>4. Onward /\ RowOK' /\ Orderly
  BY Standing DEF IInv, Retry, file, local
<1>5. GoodEntry(f)'
  <2>1. GoodEntry(e)'
    BY <1>3, <1>4 DEF Onward
  <2>2. f \in Entries
    BY <1>2, <1>3 DEF GoodEntry, Entries, Due
  <2>3. f.journal = e.journal /\ f.sent = e.journal /\ f.answer = e.answer
    BY <1>2, <1>3 DEF GoodEntry, Entries
  <2> QED  BY <2>1, <2>2, <2>3 DEF GoodEntry
<1>6. OutboxOK'
  <2>1. outbox' = [outbox EXCEPT ![t][w] = f]
    BY <1>1, <1>2 DEF Retry, IInv, OutboxOK
  <2> QED  BY <1>4, <1>5, <2>1, OutboxSet DEF IInv
<1>7. NetOK'
  <2>1. PICK p : p = e.journal
    OBVIOUS
  <2>2. Due(p)'
    BY <1>3, <1>4, <2>1 DEF GoodEntry, Onward
  <2>3. PICK S : S = {[from |-> t, pkt |-> p]}
    OBVIOUS
  <2>4. net' = net (+) SetToBag(S)
    BY <1>1, <2>1, <2>3 DEF Retry, Post
  <2>5. \A q \in S : q \in Requests /\ Due(q.pkt)'
    BY <2>2, <2>3, PostDue
  <2> QED  BY <1>4, <2>4, <2>5, NetAdd DEF IInv
<1>8. StoredOK' /\ FetchOK' /\ PlayersOK'
  BY <1>4, StoredStays, FetchStays, PlayersStay DEF IInv, Retry, local
<1>9. Counted'
  BY DEF IInv, Retry, file, local, Counted
<1> QED
  BY <1>4, <1>6, <1>7, <1>8, <1>9 DEF IInv

LEMMA FailKeeps ==
  ASSUME IInv, NEW t \in Tabs, NEW w \in Writers, Fail(t, w)
  PROVE  IInv' /\ Orderly
<1>1. PICK e : e = outbox[t][w]
  OBVIOUS
<1>2. PICK f : f = [e EXCEPT !.sent = None]
  OBVIOUS
<1>3. GoodEntry(e)
  BY <1>1 DEF Fail, Waiting, IInv, OutboxOK
<1>4. Onward /\ RowOK' /\ Orderly
  BY Standing DEF IInv, Fail, file, local
<1>5. GoodEntry(f)'
  <2>1. GoodEntry(e)'
    BY <1>3, <1>4 DEF Onward
  <2>2. f \in Entries
    BY <1>2, <1>3 DEF GoodEntry, Entries
  <2>3. f.journal = e.journal /\ f.sent = None /\ f.answer = e.answer
    BY <1>2, <1>3 DEF GoodEntry, Entries
  <2> QED  BY <2>1, <2>2, <2>3 DEF GoodEntry
<1>6. OutboxOK'
  <2>1. outbox' = [outbox EXCEPT ![t][w] = f]
    BY <1>1, <1>2 DEF Fail
  <2> QED  BY <1>4, <1>5, <2>1, OutboxSet DEF IInv
<1>7. NetOK'
  BY <1>4, NetStays DEF IInv, Fail
<1>8. StoredOK' /\ FetchOK' /\ PlayersOK'
  BY <1>4, StoredStays, FetchStays, PlayersStay DEF IInv, Fail, local
<1>9. Counted'
  BY BoundsAssumption DEF IInv, Fail, file, local, Counted
<1> QED
  BY <1>4, <1>6, <1>7, <1>8, <1>9 DEF IInv

LEMMA AnsweredKeeps ==
  ASSUME IInv, NEW t \in Tabs, NEW w \in Writers, Answered(t, w)
  PROVE  IInv' /\ Orderly
<1>1. PICK e : e = outbox[t][w]
  OBVIOUS
<1>2. PICK pl : pl = Notified(t, e)
  OBVIOUS
<1>3. GoodEntry(e) /\ e.answer # None /\ (e.answer \in Errors \/ Past(e.answer))
  BY <1>1 DEF Answered, Waiting, IInv, OutboxOK, GoodEntry
<1>4. Onward /\ RowOK' /\ Orderly
  BY Standing DEF IInv, Answered, file
<1>5. Fits(t, pl)'
  <2>1. PICK o : o = player[t]
    OBVIOUS
  <2>2. Fits(t, o)
    BY <2>1 DEF IInv, PlayersOK
  <2>3. /\ pl \in Players /\ pl.writer = o.writer /\ pl.seq = o.seq
        /\ pl.view = o.view \/ (e.answer \notin Errors /\ pl.view = e.answer)
    <3>1. CASE o.writer # e.sent.writer
      <4>1. pl = o
        BY <1>2, <2>1, <3>1 DEF Notified
      <4> QED  BY <2>2, <4>1 DEF Fits
    <3>2. CASE o.writer = e.sent.writer /\ e.answer = Conflict
      <4>1. pl = [o EXCEPT !.fenced = TRUE, !.changed = FALSE]
        BY <1>2, <2>1, <3>2 DEF Notified
      <4> QED  BY <2>2, <4>1 DEF Fits, Players
    <3>3. CASE o.writer = e.sent.writer /\ e.answer \notin Errors
      <4>1. PICK v : v = Later(o.view, e.answer)
        OBVIOUS
      <4>2. PICK c : c = (o.changed /\ o.seq # e.sent.seq)
        OBVIOUS
      <4>3. pl = [o EXCEPT !.view = v, !.changed = c]
        BY <1>2, <2>1, <2>2, <3>3, <4>1, <4>2 DEF Notified, Errors
      <4>4. c \in BOOLEAN
        BY <4>2
      <4>5. v \in Records \cup {None}
        BY <1>3, <2>2, <3>3, <4>1 DEF Fits, Past, Later, Players
      <4>6. v = o.view \/ v = e.answer
        BY <4>1 DEF Later
      <4> QED  BY <2>2, <3>3, <4>3, <4>4, <4>5, <4>6 DEF Fits, Players
    <3>4. CASE o.writer = e.sent.writer /\ e.answer = Missing
      <4>1. pl = o
        BY <1>2, <2>1, <3>4, NoneAssumption DEF Notified
      <4> QED  BY <2>2, <4>1 DEF Fits
    <3> QED  BY <3>1, <3>2, <3>3, <3>4 DEF Errors
  <2>4. pl.view = None \/ Past(pl.view)
    BY <1>3, <2>2, <2>3 DEF Fits
  <2>5. Fits(t, pl)
    BY <2>2, <2>3, <2>4 DEF Fits
  <2>6. UNCHANGED <<last, rec>>
    BY DEF Answered, file
  <2> QED  BY <2>5, <2>6 DEF Fits, Past
<1>6. PlayersOK'
  <2>1. player' = [player EXCEPT ![t] = pl] /\ UNCHANGED last
    BY <1>1, <1>2 DEF Answered
  <2> QED  BY <1>4, <1>5, <2>1, PlayerSet DEF IInv
<1>7. ASSUME /\ outbox' = [outbox EXCEPT ![t][w] = [e EXCEPT !.sent = e.journal, !.answer = None]]
             /\ net' = net (+) Post(t, e.journal)
             /\ UNCHANGED stored
      PROVE  NetOK' /\ OutboxOK' /\ StoredOK'
  <2>1. PICK f : f = [e EXCEPT !.sent = e.journal, !.answer = None]
    OBVIOUS
  <2>2. GoodEntry(f)'
    <3>1. GoodEntry(e)'
      BY <1>3, <1>4 DEF Onward
    <3>2. f \in Entries
      BY <1>3, <2>1 DEF GoodEntry, Entries, Due
    <3>3. f.journal = e.journal /\ f.sent = e.journal /\ f.answer = None
      BY <1>3, <2>1 DEF GoodEntry, Entries
    <3> QED  BY <3>1, <3>2, <3>3 DEF GoodEntry
  <2>3. OutboxOK'
    BY <1>4, <1>7, <2>1, <2>2, OutboxSet DEF IInv
  <2>4. NetOK'
    <3>1. PICK p : p = e.journal
      OBVIOUS
    <3>2. Due(p)'
      BY <1>3, <1>4, <3>1 DEF GoodEntry, Onward
    <3>3. PICK S : S = {[from |-> t, pkt |-> p]}
      OBVIOUS
    <3>4. net' = net (+) SetToBag(S)
      BY <1>7, <3>1, <3>3 DEF Post
    <3>5. \A q \in S : q \in Requests /\ Due(q.pkt)'
      BY <3>2, <3>3, PostDue
    <3> QED  BY <1>4, <3>4, <3>5, NetAdd DEF IInv
  <2>5. StoredOK'
    BY <1>4, <1>7, StoredStays DEF IInv
  <2> QED  BY <2>3, <2>4, <2>5
<1>8. ASSUME /\ outbox' = [outbox EXCEPT ![t][w] = None]
             /\ stored' = IF Removable(t, w, e)
                            THEN [stored EXCEPT ![Browser(t)][w] = None] ELSE stored
             /\ UNCHANGED net
      PROVE  NetOK' /\ OutboxOK' /\ StoredOK'
  <2>1. OutboxOK'
    <3>1. PICK n : n = None
      OBVIOUS
    <3> QED  BY <1>4, <1>8, <3>1, OutboxSet DEF IInv
  <2>2. NetOK'
    BY <1>4, <1>8, NetStays DEF IInv
  <2>3. StoredOK'
    <3>1. CASE UNCHANGED stored
      BY <1>4, <3>1, StoredStays DEF IInv
    <3>2. CASE stored' = [stored EXCEPT ![Browser(t)][w] = None]
      <4>1. PICK b \in Browsers : b = Browser(t)
        BY DEF Browsers
      <4>2. PICK n : n = None
        OBVIOUS
      <4> QED  BY <1>4, <3>2, <4>1, <4>2, StoredSet DEF IInv
    <3> QED  BY <1>8, <3>1, <3>2
  <2> QED  BY <2>1, <2>2, <2>3
<1>9. NetOK' /\ OutboxOK' /\ StoredOK'
  BY <1>1, <1>7, <1>8 DEF Answered
<1>10. FetchOK'
  BY <1>4, FetchStays DEF IInv, Answered
<1>11. Counted'
  BY DEF IInv, Answered, file, Counted
<1> QED
  BY <1>4, <1>6, <1>9, <1>10, <1>11 DEF IInv

-----------------------------------------------------------------------------
(* The player's steps.                                                     *)

\* What a player's step may do to what it reads and to the counts.
StepOf(t) ==
  /\ \/ UNCHANGED fetch
     \/ fetch' = [fetch EXCEPT ![t] = None]
     \/ fetch' = [fetch EXCEPT ![t] = rec]
  /\ faults' \in 0..MaxFaults /\ turns' \in 0..MaxTurns
  /\ UNCHANGED <<rec, trashed, ghosts>>

LEMMA StepFetch ==
  ASSUME FetchOK, Onward, RowOK, NEW t \in Tabs, StepOf(t)
  PROVE  FetchOK'
<1>1. PICK n : n = None
  OBVIOUS
<1>2. PICK r : r = rec
  OBVIOUS
<1>3. Past(r)'
  BY <1>2 DEF StepOf, RowOK, Past, Records
<1>4. CASE UNCHANGED fetch
  BY <1>4, FetchStays
<1>5. CASE fetch' = [fetch EXCEPT ![t] = None]
  BY <1>1, <1>5, FetchSet
<1>6. CASE fetch' = [fetch EXCEPT ![t] = rec]
  BY <1>2, <1>3, <1>6, FetchSet
<1> QED
  BY <1>4, <1>5, <1>6 DEF StepOf

\* A player goes on as pl and composes nothing.
LEMMA PlayerKeeps ==
  ASSUME IInv, NEW t \in Tabs, NEW pl, Fits(t, pl), StepOf(t),
         UNCHANGED packets, player' = [player EXCEPT ![t] = pl]
  PROVE  IInv' /\ Orderly
<1>1. UNCHANGED <<net, outbox, stored, composed, last, discarded, rec, ghosts>>
  BY DEF packets, StepOf
<1>2. Onward /\ RowOK' /\ Orderly
  BY <1>1, Standing DEF IInv
<1>3. Fits(t, pl)'
  BY <1>1 DEF Fits, Past
<1>4. PlayersOK'
  BY <1>1, <1>2, <1>3, PlayerSet DEF IInv
<1>5. NetOK' /\ OutboxOK' /\ StoredOK' /\ FetchOK'
  BY <1>1, <1>2, NetStays, OutboxStays, StoredStays, StepFetch DEF IInv
<1>6. Counted'
  BY <1>1 DEF StepOf, IInv, Counted
<1> QED
  BY <1>2, <1>4, <1>5, <1>6 DEF IInv

\* The player that pl becomes when it has composed its next packet.
Follows(t, pl, next) ==
  /\ next \in Players /\ next.writer \in Own(t)
  /\ next.view = None \/ Past(next.view)
  /\ \/ next.writer = pl.writer /\ next.seq > pl.seq
     \/ next.writer[2] > pl.writer[2]

LEMMA FlushKeeps ==
  ASSUME IInv, NEW t \in Tabs, NEW pl, Fits(t, pl), CanFlush(pl), Flushed(t, pl),
         NEW next, Follows(t, pl, next), StepOf(t), player' = [player EXCEPT ![t] = next]
  PROVE  IInv' /\ Orderly
<1>1. PICK w : w = pl.writer
  OBVIOUS
<1>2. PICK k : k = pl.seq + 1
  OBVIOUS
<1>3. PICK p : p = [writer |-> w, seq |-> k, base |-> pl.view.rev]
  OBVIOUS
<1>4. /\ w \in Own(t) /\ w \in Writers /\ k \in Nat /\ pl.seq \in Nat
      /\ pl.view \in Records /\ pl.view.rev \in Nat /\ pl.view.rev <= rec.rev
  BY <1>1, <1>2, OwnWriters DEF Fits, Players, CanFlush, Past, Records
<1>5. last' = [last EXCEPT ![w] = k] /\ Enqueue(t, p) /\ Compose(t)
  BY <1>1, <1>2, <1>3 DEF Flushed
<1>6. last \in [Writers -> Nat] /\ last[w] <= pl.seq
  BY <1>1 DEF IInv, RowOK, Fits
<1>7. Composing
  <2>1. last' \in [Writers -> Nat]
    BY <1>4, <1>5, <1>6
  <2>2. \A x \in Writers : last[x] <= last'[x]
    BY <1>2, <1>4, <1>5, <1>6
  <2> QED  BY <2>1, <2>2 DEF Composing, StepOf, ghosts
<1>8. Onward /\ RowOK'
  BY <1>7, ComposingOn DEF IInv
<1>9. Orderly
  BY DEF StepOf, Orderly
<1>10. Due(p)'
  <2>1. p \in Packets /\ p.writer = w /\ p.seq = k /\ p.base = pl.view.rev
    BY <1>3, <1>4 DEF Packets
  <2>2. taken[w] < k /\ doomed[w] < k
    <3>1. taken[w] <= last[w] /\ doomed[w] <= last[w] /\ taken[w] \in Nat /\ doomed[w] \in Nat
      BY <1>4 DEF IInv, RowOK
    <3> QED  BY <3>1, <1>2, <1>4, <1>6
  <2>3. UNCHANGED <<rec, taken, doomed>>
    BY DEF StepOf, ghosts
  <2>4. last'[w] = k
    BY <1>4, <1>5, <1>6
  <2> QED  BY <1>4, <2>1, <2>2, <2>3, <2>4 DEF Due
<1>11. NetOK' /\ OutboxOK'
  <2>1. p.writer = w
    BY <1>3
  <2>2. CASE /\ Waiting(t, w) /\ UNCHANGED net
             /\ outbox' = [outbox EXCEPT ![t][w].journal = p]
    <3>1. PICK e : e = outbox[t][w]
      OBVIOUS
    <3>2. GoodEntry(e)
      BY <1>4, <2>2, <3>1 DEF Waiting, IInv, OutboxOK
    <3>3. PICK f : f = [e EXCEPT !.journal = p]
      OBVIOUS
    <3>4. GoodEntry(f)'
      <4>1. GoodEntry(e)'
        BY <1>8, <3>2 DEF Onward
      <4>2. f \in Entries
        BY <1>10, <3>2, <3>3 DEF GoodEntry, Entries, Due
      <4>3. f.journal = p /\ f.sent = e.sent /\ f.answer = e.answer
        BY <3>2, <3>3 DEF GoodEntry, Entries
      <4> QED  BY <1>10, <4>1, <4>2, <4>3 DEF GoodEntry
    <3>5. outbox' = [outbox EXCEPT ![t][w] = f]
      BY <1>4, <2>2, <3>1, <3>3 DEF IInv, OutboxOK
    <3>6. OutboxOK'
      BY <1>4, <1>8, <3>4, <3>5, OutboxSet DEF IInv
    <3> QED  BY <1>8, <2>2, <3>6, NetStays DEF IInv
  <2>3. CASE /\ ~Waiting(t, w) /\ net' = net (+) Post(t, p)
             /\ outbox' = [outbox EXCEPT ![t][w] = Busy(p)]
    <3>1. PICK f : f = Busy(p)
      OBVIOUS
    <3>2. GoodEntry(f)'
      <4>1. /\ f = [journal |-> p, sent |-> p, answer |-> None]
            /\ f.journal = p /\ f.sent = p /\ f.answer = None
        BY <3>1 DEF Busy
      <4>2. f \in Entries
        BY <1>10, <4>1 DEF Entries, Due
      <4> QED  BY <1>10, <4>1, <4>2 DEF GoodEntry
    <3>3. OutboxOK'
      BY <1>4, <1>8, <2>3, <3>1, <3>2, OutboxSet DEF IInv
    <3>4. PICK S : S = {[from |-> t, pkt |-> p]}
      OBVIOUS
    <3>5. \A q \in S : q \in Requests /\ Due(q.pkt)'
      BY <1>10, <3>4, PostDue
    <3>6. net' = net (+) SetToBag(S)
      BY <2>3, <3>4 DEF Post
    <3> QED  BY <1>8, <3>3, <3>5, <3>6, NetAdd DEF IInv
  <2> QED  BY <1>5, <2>1, <2>2, <2>3 DEF Enqueue
<1>12. StoredOK'
  <2>1. PICK b \in Browsers : b = Browser(t)
    BY DEF Browsers
  <2>2. stored' = [stored EXCEPT ![b][w] = p]
    BY <1>3, <1>5, <2>1 DEF Enqueue
  <2> QED  BY <1>4, <1>8, <1>10, <2>1, <2>2, StoredSet DEF IInv
<1>13. Fits(t, next)'
  <2>1. /\ next \in Players /\ next.writer \in Own(t) /\ next.seq \in Nat
        /\ next.writer[2] \in Nat /\ w[2] \in Nat
    BY <1>4, OwnWriters, BoundsAssumption DEF Follows, Players
  <2>2. next.view = None \/ Past(next.view)'
    BY <1>8 DEF Follows, Onward
  <2>3. \A x \in Own(t) : x # w => last'[x] = last[x]
    BY <1>5, <1>6, OwnWriters
  <2>4. \A x \in Own(t) : x[2] > w[2] => last[x] = 0
    BY <1>1 DEF Fits
  <2>5. next.writer[2] >= w[2]
    BY <1>1, <2>1 DEF Follows
  <2>6. ASSUME NEW x \in Own(t), x[2] > next.writer[2]
        PROVE  last'[x] = 0
    <3>1. x[2] \in Nat
      BY OwnWriters, BoundsAssumption
    <3>2. x[2] > w[2] /\ x # w
      BY <2>1, <2>5, <2>6, <3>1
    <3> QED  BY <2>3, <2>4, <3>2
  <2>7. last'[next.writer] <= next.seq
    <3>1. CASE next.writer = w /\ next.seq > pl.seq
      BY <1>2, <1>4, <1>5, <1>6, <2>1, <3>1
    <3>2. CASE next.writer[2] > w[2]
      <4>1. next.writer # w
        BY <2>1, <3>2
      <4>2. last'[next.writer] = 0
        BY <2>1, <2>3, <2>4, <3>2, <4>1
      <4> QED  BY <2>1, <4>2
    <3> QED  BY <1>1, <3>1, <3>2 DEF Follows
  <2> QED  BY <2>1, <2>2, <2>6, <2>7 DEF Fits
<1>14. PlayersOK'
  <2>1. \A x \in Writers \ Own(t) : last'[x] = last[x]
    BY <1>4, <1>5, <1>6
  <2> QED  BY <1>8, <1>13, <2>1, PlayerSet DEF IInv
<1>15. FetchOK'
  BY <1>8, StepFetch DEF IInv
<1>16. Counted'
  <2>1. composed' \in [Tabs -> Nat]
    BY <1>5 DEF Compose, IInv, Counted
  <2>2. discarded' \subseteq Writers
    BY <1>5 DEF Enqueue, IInv, Counted
  <2> QED  BY <2>1, <2>2 DEF StepOf, IInv, Counted
<1> QED
  BY <1>8, <1>9, <1>11, <1>12, <1>14, <1>15, <1>16 DEF IInv

LEMMA PersistKeeps ==
  ASSUME IInv, NEW t \in Tabs, NEW pl, Fits(t, pl), StepOf(t), Persisted(t, pl)
  PROVE  IInv' /\ Orderly
<1>1. CASE /\ CanFlush(pl) /\ Flushed(t, pl)
           /\ player' = [player EXCEPT ![t] = [pl EXCEPT !.seq = @ + 1]]
  <2>1. PICK next : next = [pl EXCEPT !.seq = @ + 1]
    OBVIOUS
  <2>2. Follows(t, pl, next)
    BY <2>1 DEF Fits, Follows, Players
  <2> QED  BY <1>1, <2>1, <2>2, FlushKeeps
<1>2. CASE UNCHANGED packets /\ player' = [player EXCEPT ![t] = pl]
  BY <1>2, PlayerKeeps
<1> QED
  BY <1>1, <1>2 DEF Persisted

LEMMA LeftKeeps ==
  ASSUME IInv, NEW t \in Tabs, NEW pl, Fits(t, pl), StepOf(t), NEW next,
         CanFlush(pl) /\ pl.ready => Follows(t, pl, next),
         ~(CanFlush(pl) /\ pl.ready) => Fits(t, next),
         Left(t, pl, next)
  PROVE  IInv' /\ Orderly
<1>1. CASE CanFlush(pl) /\ pl.ready
  BY <1>1, FlushKeeps DEF Left
<1>2. CASE ~(CanFlush(pl) /\ pl.ready)
  BY <1>2, PlayerKeeps DEF Left
<1> QED
  BY <1>1, <1>2

LEMMA FitsSame ==
  ASSUME NEW t, NEW o, Fits(t, o), NEW pl \in Players,
         pl.writer = o.writer, pl.seq >= o.seq, pl.view = None \/ Past(pl.view),
         last \in [Writers -> Nat], t \in Tabs
  PROVE  Fits(t, pl)
<1>1. o.seq \in Nat /\ pl.seq \in Nat /\ last[o.writer] \in Nat
  BY OwnWriters DEF Fits, Players
<1> QED
  BY <1>1 DEF Fits

LEMMA FitsNew ==
  ASSUME NEW t \in Tabs, NEW o, Fits(t, o), NEW pl \in Players,
         pl.writer = <<t, o.writer[2] + 1>>, o.writer[2] < MaxWriters[t],
         pl.view = None \/ Past(pl.view), last \in [Writers -> Nat]
  PROVE  Fits(t, pl) /\ pl.writer[2] > o.writer[2]
<1>1. o.writer[2] \in Nat /\ MaxWriters[t] \in Nat /\ o.writer[2] >= 1
  BY OwnWriters, BoundsAssumption DEF Fits
<1>2. o.writer[2] + 1 \in 1..MaxWriters[t]
  BY <1>1
<1>3. pl.writer \in Own(t) /\ pl.writer[2] = o.writer[2] + 1
  BY <1>2, OwnWriters
<1>4. last[pl.writer] = 0
  BY <1>1, <1>3 DEF Fits
<1>5. \A x \in Own(t) : x[2] > pl.writer[2] => last[x] = 0
  <2>1. SUFFICES ASSUME NEW x \in Own(t), x[2] > pl.writer[2]  PROVE last[x] = 0
    OBVIOUS
  <2>2. x[2] \in Nat
    BY OwnWriters, BoundsAssumption
  <2> QED  BY <1>1, <1>3, <2>1, <2>2 DEF Fits
<1>6. pl.seq \in Nat
  BY DEF Players
<1> QED
  BY <1>1, <1>3, <1>4, <1>5, <1>6 DEF Fits

\* What every step of a player begins from.
LEMMA PlayerFacts ==
  ASSUME IInv, NEW t \in Tabs
  PROVE  /\ Fits(t, player[t]) /\ player[t] \in Players
         /\ player[t].writer \in Writers /\ player[t].seq \in Nat
         /\ last \in [Writers -> Nat]
         /\ fetch[t] = None \/ Past(fetch[t])
         /\ faults \in 0..MaxFaults /\ turns \in 0..MaxTurns
BY DEF IInv, PlayersOK, RowOK, Fits, FetchOK, Counted, Players

LEMMA TurnBound ==
  ASSUME IInv, Turn
  PROVE  turns' \in 0..MaxTurns
BY BoundsAssumption DEF IInv, Counted, Turn

LEMMA IntendedFits ==
  ASSUME IInv, NEW t \in Tabs, player[t].fenced => HasWriter(t)
  PROVE  Fits(t, Intended(t))
<1>1. PICK o : o = player[t]
  OBVIOUS
<1>2. PICK n : n = NextWriter(t)
  OBVIOUS
<1>3. Fits(t, o) /\ o \in Players /\ last \in [Writers -> Nat]
  BY <1>1, PlayerFacts
<1>4. CASE ~o.fenced
  BY <1>1, <1>3, <1>4 DEF Intended
<1>5. CASE o.fenced
  <2>1. PICK pl : pl = [o EXCEPT !.writer = n, !.seq = 0, !.fenced = FALSE]
    OBVIOUS
  <2>2. n = <<t, o.writer[2] + 1>> /\ o.writer[2] < MaxWriters[t]
    BY <1>1, <1>2, <1>5 DEF NextWriter, HasWriter
  <2>3. n \in Writers
    <3>1. o.writer[2] \in Nat /\ o.writer[2] >= 1 /\ MaxWriters[t] \in Nat
      BY <1>3, OwnWriters, BoundsAssumption DEF Fits
    <3>2. o.writer[2] + 1 \in 1..MaxWriters[t]
      BY <2>2, <3>1
    <3> QED  BY <2>2, <3>2, OwnWriters
  <2>4. pl \in Players /\ pl.writer = n /\ pl.view = o.view
    BY <1>3, <2>1, <2>3 DEF Players
  <2>5. Fits(t, pl)
    BY <1>3, <2>2, <2>4, FitsNew DEF Fits
  <2> QED  BY <1>1, <1>2, <1>5, <2>1, <2>5 DEF Intended
<1> QED
  BY <1>4, <1>5

LEMMA PlayKeeps ==
  ASSUME IInv, NEW t \in Tabs, Play(t)
  PROVE  IInv' /\ Orderly
<1>1. PICK o : o = player[t]
  OBVIOUS
<1>2. PICK pl : pl = [o EXCEPT !.changed = TRUE, !.latest = TRUE]
  OBVIOUS
<1>3. Fits(t, o) /\ o \in Players
  BY <1>1, PlayerFacts
<1>4. Fits(t, pl)
  BY <1>2, <1>3 DEF Fits, Players
<1>5. StepOf(t)
  BY PlayerFacts DEF Play, StepOf, file
<1>6. Persisted(t, pl)
  BY <1>1, <1>2 DEF Play
<1> QED
  BY <1>4, <1>5, <1>6, PersistKeeps

LEMMA SeekKeeps ==
  ASSUME IInv, NEW t \in Tabs, Seek(t)
  PROVE  IInv' /\ Orderly
<1>1. PICK o : o = Intended(t)
  OBVIOUS
<1>2. PICK pl : pl = [o EXCEPT !.pending = FALSE, !.ready = TRUE, !.changed = TRUE,
                               !.latest = TRUE]
  OBVIOUS
<1>3. Fits(t, o)
  BY <1>1, IntendedFits DEF Seek
<1>4. Fits(t, pl)
  BY <1>2, <1>3 DEF Fits, Players
<1>5. StepOf(t)
  BY PlayerFacts, TurnBound DEF Seek, StepOf, file
<1>6. Persisted(t, pl)
  BY <1>1, <1>2 DEF Seek
<1> QED
  BY <1>4, <1>5, <1>6, PersistKeeps

LEMMA IntentKeeps ==
  ASSUME IInv, NEW t \in Tabs, Intent(t)
  PROVE  IInv' /\ Orderly
<1>1. PICK pl : pl = Intended(t)
  OBVIOUS
<1>2. Fits(t, pl)
  BY <1>1, IntendedFits DEF Intent
<1>3. StepOf(t)
  BY PlayerFacts, TurnBound DEF Intent, StepOf, file
<1> QED
  BY <1>1, <1>2, <1>3, PlayerKeeps DEF Intent

LEMMA RestoreKeeps ==
  ASSUME IInv, NEW t \in Tabs, Restore(t)
  PROVE  IInv' /\ Orderly
<1>1. PICK o : o = player[t]
  OBVIOUS
<1>2. PICK pl : pl = [o EXCEPT !.ready = TRUE, !.pending = FALSE]
  OBVIOUS
<1>3. Fits(t, o) /\ o \in Players
  BY <1>1, PlayerFacts
<1>4. Fits(t, pl)
  BY <1>2, <1>3 DEF Fits, Players
<1>5. StepOf(t)
  BY PlayerFacts DEF Restore, StepOf, file
<1>6. player' = [player EXCEPT ![t] = pl]
  BY <1>1, <1>2 DEF Restore, IInv, PlayersOK
<1> QED
  BY <1>4, <1>5, <1>6, PlayerKeeps DEF Restore

\* A player that saves for the last time still fits.
LEMMA LastSaveFits ==
  ASSUME IInv, NEW t \in Tabs
  PROVE  /\ Fits(t, LastSave(t)) /\ LastSave(t).writer = player[t].writer
<1>1. PICK o : o = player[t]
  OBVIOUS
<1>2. PICK pl : pl = [o EXCEPT !.latest = TRUE]
  OBVIOUS
<1>3. Fits(t, o) /\ o \in Players
  BY <1>1, PlayerFacts
<1>4. Fits(t, pl) /\ pl.writer = o.writer
  BY <1>2, <1>3 DEF Fits, Players
<1>5. LastSave(t) = pl \/ LastSave(t) = o
  BY <1>1, <1>2 DEF LastSave
<1> QED
  BY <1>1, <1>3, <1>4, <1>5

LEMMA NewPlayerTyped ==
  ASSUME NEW w \in Writers
  PROVE  /\ NewPlayer(w) \in Players /\ NewPlayer(w).writer = w
         /\ NewPlayer(w).view = None
BY DEF NewPlayer, Players

LEMMA ReplayKeeps ==
  ASSUME IInv, NEW t \in Tabs, NEW restart \in BOOLEAN, Replay(t, restart)
  PROVE  IInv' /\ Orderly
<1>1. PICK pl : pl = LastSave(t)
  OBVIOUS
<1>2. PICK resume : resume = (restart \/ player[t].ready)
  OBVIOUS
<1>3. PICK k : k = Reloaded(pl)
  OBVIOUS
<1>4. PICK o : o = NewPlayer(pl.writer)
  OBVIOUS
<1>5. PICK next : next = [o EXCEPT !.seq = k, !.pending = resume, !.changed = resume]
  OBVIOUS
<1>6. Fits(t, pl) /\ pl.seq \in Nat /\ pl.writer \in Writers /\ pl.writer \in Own(t)
  BY <1>1, LastSaveFits DEF Fits, Players
<1>7. resume \in BOOLEAN
  BY <1>2
<1>8. k \in Nat /\ k > pl.seq
  BY <1>3, <1>6 DEF Reloaded
<1>9. o \in Players /\ o.writer = pl.writer /\ o.view = None
  BY <1>4, <1>6, NewPlayerTyped
<1>10. next \in Players /\ next.writer = pl.writer /\ next.view = None /\ next.seq = k
  BY <1>5, <1>7, <1>8, <1>9 DEF Players
<1>11. Fits(t, next)
  BY <1>6, <1>8, <1>10, FitsSame, PlayerFacts
<1>12. Follows(t, pl, next)
  BY <1>6, <1>8, <1>10 DEF Follows
<1>13. Left(t, pl, next)
  BY <1>1, <1>2, <1>3, <1>4, <1>5 DEF Replay
<1>14. StepOf(t)
  BY PlayerFacts, TurnBound DEF Replay, Left, StepOf, file
<1> QED
  BY <1>6, <1>11, <1>12, <1>13, <1>14, LeftKeeps

LEMMA NextPlayerFits ==
  ASSUME IInv, NEW t \in Tabs, HasWriter(t), NEW n, n = NewPlayer(NextWriter(t))
  PROVE  Fits(t, n) /\ n.writer[2] > player[t].writer[2]
<1>1. PICK o : o = player[t]
  OBVIOUS
<1>2. Fits(t, o) /\ o \in Players /\ last \in [Writers -> Nat]
  BY <1>1, PlayerFacts
<1>3. NextWriter(t) = <<t, o.writer[2] + 1>> /\ o.writer[2] < MaxWriters[t]
  BY <1>1 DEF NextWriter, HasWriter
<1>4. NextWriter(t) \in Writers
  <2>1. o.writer[2] \in Nat /\ o.writer[2] >= 1 /\ MaxWriters[t] \in Nat
    BY <1>2, OwnWriters, BoundsAssumption DEF Fits
  <2>2. o.writer[2] + 1 \in 1..MaxWriters[t]
    BY <1>3, <2>1
  <2> QED  BY <1>3, <2>2, OwnWriters
<1>5. n \in Players /\ n.writer = <<t, o.writer[2] + 1>> /\ n.view = None
  BY <1>3, <1>4, NewPlayerTyped
<1> QED
  BY <1>1, <1>2, <1>3, <1>5, FitsNew

LEMMA ReopenKeeps ==
  ASSUME IInv, NEW t \in Tabs, Reopen(t)
  PROVE  IInv' /\ Orderly
<1>1. PICK pl : pl = LastSave(t)
  OBVIOUS
<1>2. PICK next : next = NewPlayer(NextWriter(t))
  OBVIOUS
<1>3. Fits(t, pl) /\ pl.writer = player[t].writer
  BY <1>1, LastSaveFits
<1>4. Fits(t, next) /\ next.writer[2] > pl.writer[2]
  BY <1>2, <1>3, NextPlayerFits DEF Reopen
<1>5. Follows(t, pl, next)
  BY <1>4 DEF Fits, Follows
<1>6. Left(t, pl, next)
  BY <1>1, <1>2 DEF Reopen
<1>7. StepOf(t)
  BY PlayerFacts, TurnBound DEF Reopen, Left, StepOf, file
<1> QED
  BY <1>3, <1>4, <1>5, <1>6, <1>7, LeftKeeps

LEMMA RestartKeeps ==
  ASSUME IInv, NEW t \in Tabs, Restart(t)
  PROVE  IInv' /\ Orderly
<1>1. Onward /\ RowOK' /\ Orderly
  BY Standing DEF IInv, Restart, file
<1>2. PICK next : next = NewPlayer(NextWriter(t))
  OBVIOUS
<1>3. UNCHANGED <<rec, trashed, last, discarded, stored, composed, ghosts>>
  BY DEF Restart, file
<1>4. PlayersOK'
  <2>1. Fits(t, next)
    BY <1>2, NextPlayerFits DEF Restart
  <2>2. Fits(t, next)'
    BY <1>3, <2>1 DEF Fits, Past
  <2>3. player' = [player EXCEPT ![t] = next]
    BY <1>2 DEF Restart
  <2> QED  BY <1>1, <1>3, <2>2, <2>3, PlayerSet DEF IInv
<1>5. PICK b \in Browsers : b = Browser(t)
  BY DEF Browsers
<1>6. \A w \in Writers : stored[b][w] = None \/ Due(stored[b][w])
  BY DEF IInv, StoredOK
<1>7. OutboxOK'
  <2>1. PICK f : f = [w \in Writers |-> LET p == stored[b][w] IN IF p = None THEN None ELSE Busy(p)]
    OBVIOUS
  <2>2. outbox' = [outbox EXCEPT ![t] = f]
    BY <1>5, <2>1 DEF Restart
  <2>3. ASSUME NEW w \in Writers  PROVE f[w] = None \/ GoodEntry(f[w])'
    <3>1. PICK p : p = stored[b][w]
      OBVIOUS
    <3>2. f[w] = IF p = None THEN None ELSE Busy(p)
      BY <2>1, <3>1
    <3>3. CASE p = None
      BY <3>2, <3>3
    <3>4. CASE p # None
      <4>1. Due(p)'
        BY <1>1, <1>6, <3>1, <3>4 DEF Onward
      <4>2. PICK e : e = Busy(p)
        OBVIOUS
      <4>3. /\ e = [journal |-> p, sent |-> p, answer |-> None]
            /\ e.journal = p /\ e.sent = p /\ e.answer = None
        BY <4>2 DEF Busy
      <4>4. e \in Entries
        BY <4>1, <4>3 DEF Entries, Due
      <4>5. GoodEntry(e)'
        BY <4>1, <4>3, <4>4 DEF GoodEntry
      <4> QED  BY <3>2, <3>4, <4>2, <4>5
    <3> QED  BY <3>3, <3>4
  <2>4. f \in [Writers -> Entries \cup {None}]
    <3>1. \A w \in Writers : f[w] \in Entries \cup {None}
      BY <2>3 DEF GoodEntry
    <3> QED  BY <2>1, <3>1
  <2>5. outbox' \in [Tabs -> [Writers -> Entries \cup {None}]]
    BY <2>2, <2>4 DEF IInv, OutboxOK
  <2>6. ASSUME NEW u \in Tabs, NEW w \in Writers
        PROVE  outbox'[u][w] = IF u = t THEN f[w] ELSE outbox[u][w]
    BY <2>2 DEF IInv, OutboxOK
  <2>7. \A u \in Tabs, w \in Writers : outbox'[u][w] = None \/ GoodEntry(outbox[u][w])'
    BY <1>1, <2>3, <2>6 DEF IInv, OutboxOK, Onward
  <2> QED  BY <2>5, <2>7 DEF OutboxOK
<1>8. NetOK'
  <2>1. PICK S : S = {[from |-> t, pkt |-> p] : p \in {stored[b][w] : w \in Writers} \ {None}}
    OBVIOUS
  <2>2. net' = net (+) SetToBag(S)
    BY <1>5, <2>1 DEF Restart
  <2>3. ASSUME NEW q \in S  PROVE q \in Requests /\ Due(q.pkt)'
    <3>1. PICK p \in {stored[b][w] : w \in Writers} \ {None} : q = [from |-> t, pkt |-> p]
      BY <2>1
    <3>2. Due(p)'
      BY <1>1, <1>6, <3>1 DEF Onward
    <3> QED  BY <3>1, <3>2 DEF Requests, Due
  <2> QED  BY <1>1, <2>2, <2>3, NetAdd DEF IInv
<1>9. StoredOK'
  BY <1>1, <1>3, StoredStays DEF IInv
<1>10. FetchOK'
  <2>1. PICK n : n = None
    OBVIOUS
  <2>2. fetch' = [fetch EXCEPT ![t] = n]
    BY <2>1 DEF Restart
  <2> QED  BY <1>1, <2>1, <2>2, FetchSet DEF IInv
<1>11. Counted'
  BY <1>3, TurnBound DEF IInv, Counted, Restart
<1> QED
  BY <1>1, <1>4, <1>7, <1>8, <1>9, <1>10, <1>11 DEF IInv

-----------------------------------------------------------------------------
(* What the player reads.                                                  *)

LEMMA ReadKeeps ==
  ASSUME IInv, NEW t \in Tabs, LoadRead(t) \/ PollRead(t)
  PROVE  IInv' /\ Orderly
<1>1. PICK pl : pl = player[t]
  OBVIOUS
<1>2. Fits(t, pl)
  BY <1>1, PlayerFacts
<1>3. StepOf(t) /\ UNCHANGED packets
  BY PlayerFacts DEF LoadRead, PollRead, StepOf, file
<1>4. player' = [player EXCEPT ![t] = pl]
  BY <1>1 DEF LoadRead, PollRead, IInv, PlayersOK
<1> QED
  BY <1>2, <1>3, <1>4, PlayerKeeps

LEMMA LoadingKeeps ==
  ASSUME IInv, NEW t \in Tabs, LoadFails(t) \/ PollLoads(t)
  PROVE  IInv' /\ Orderly
<1>1. PICK o : o = player[t]
  OBVIOUS
<1>2. Fits(t, o) /\ o \in Players
  BY <1>1, PlayerFacts
<1>3. PICK b \in BOOLEAN : player' = [player EXCEPT ![t].loading = b]
  BY DEF LoadFails, PollLoads
<1>4. PICK pl : pl = [o EXCEPT !.loading = b]
  OBVIOUS
<1>5. Fits(t, pl)
  BY <1>2, <1>4 DEF Fits, Players
<1>6. player' = [player EXCEPT ![t] = pl]
  BY <1>1, <1>3, <1>4 DEF IInv, PlayersOK
<1>7. StepOf(t) /\ UNCHANGED packets
  BY PlayerFacts, BoundsAssumption DEF LoadFails, PollLoads, StepOf, file
<1> QED
  BY <1>5, <1>6, <1>7, PlayerKeeps

LEMMA LoadedKeeps ==
  ASSUME IInv, NEW t \in Tabs, Loaded(t)
  PROVE  IInv' /\ Orderly
<1>1. PICK o : o = player[t]
  OBVIOUS
<1>2. PICK r : r = fetch[t]
  OBVIOUS
<1>3. PICK pl : pl = [o EXCEPT !.loading = FALSE]
  OBVIOUS
<1>4. Fits(t, o) /\ o \in Players /\ Past(r)
  BY <1>1, <1>2, PlayerFacts DEF Loaded
<1>5. StepOf(t)
  BY PlayerFacts DEF Loaded, StepOf, file
<1>6. Fits(t, pl) /\ pl \in Players
  BY <1>3, <1>4 DEF Fits, Players
<1>7. r \in Records
  BY <1>4 DEF Past
<1>8. CASE player' = [player EXCEPT ![t] = pl] /\ UNCHANGED packets
  BY <1>5, <1>6, <1>8, PlayerKeeps
<1>9. CASE Persisted(t, [pl EXCEPT !.view = r])
  <2>1. PICK n : n = [pl EXCEPT !.view = r]
    OBVIOUS
  <2>2. Fits(t, n)
    BY <1>4, <1>6, <1>7, <2>1 DEF Fits, Players
  <2> QED  BY <1>5, <1>9, <2>1, <2>2, PersistKeeps
<1>10. CASE /\ player' = [player EXCEPT ![t] = [pl EXCEPT !.view = r, !.pending = TRUE]]
            /\ UNCHANGED packets
  <2>1. PICK n : n = [pl EXCEPT !.view = r, !.pending = TRUE]
    OBVIOUS
  <2>2. Fits(t, n)
    BY <1>4, <1>6, <1>7, <2>1 DEF Fits, Players
  <2> QED  BY <1>5, <1>10, <2>1, <2>2, PlayerKeeps
<1> QED
  BY <1>1, <1>2, <1>3, <1>8, <1>9, <1>10 DEF Loaded

LEMMA PolledKeeps ==
  ASSUME IInv, NEW t \in Tabs, Polled(t)
  PROVE  IInv' /\ Orderly
<1>1. PICK o : o = player[t]
  OBVIOUS
<1>2. PICK r : r = fetch[t]
  OBVIOUS
<1>3. PICK pl : pl = Received(o, r)
  OBVIOUS
<1>4. Fits(t, o) /\ o \in Players /\ Past(r) /\ r \in Records
  BY <1>1, <1>2, PlayerFacts DEF Polled, Past
<1>5. Fits(t, pl)
  <2>1. CASE pl = o
    BY <1>4, <2>1
  <2>2. CASE pl = [o EXCEPT !.view = r]
    BY <1>4, <2>2 DEF Fits, Players
  <2>3. CASE pl = [o EXCEPT !.view = r, !.changed = FALSE, !.latest = FALSE, !.fenced = TRUE,
                            !.ready = FALSE, !.pending = TRUE]
    BY <1>4, <2>3 DEF Fits, Players
  <2> QED  BY <1>3, <2>1, <2>2, <2>3 DEF Received
<1>6. player' = [player EXCEPT ![t] = pl]
  BY <1>1, <1>2, <1>3 DEF Polled
<1>7. StepOf(t)
  BY PlayerFacts DEF Polled, StepOf, file
<1> QED
  BY <1>5, <1>6, <1>7, PlayerKeeps DEF Polled

-----------------------------------------------------------------------------
(* The theorems.                                                           *)

LEMMA InitHolds == Init => IInv
<1> SUFFICES ASSUME Init PROVE IInv
  OBVIOUS
<1>1. RowOK
  BY DEF Init, RowOK, EmptyRec, Records
<1>2. NetOK
  BY DEF Init, NetOK, EmptyBag, BagToSet, SetToBag
<1>3. OutboxOK
  <2>1. \A t \in Tabs, w \in Writers : outbox[t][w] = None
    BY DEF Init
  <2>2. outbox \in [Tabs -> [Writers -> Entries \cup {None}]]
    BY DEF Init
  <2> QED  BY <2>1, <2>2 DEF OutboxOK
<1>4. StoredOK
  <2>1. \A b \in Browsers, w \in Writers : stored[b][w] = None
    BY DEF Init
  <2>2. stored \in [Browsers -> [Writers -> Packets \cup {None}]]
    BY DEF Init
  <2> QED  BY <2>1, <2>2 DEF StoredOK
<1>5. FetchOK
  BY DEF Init, FetchOK
<1>6. PlayersOK
  <2>1. ASSUME NEW t \in Tabs  PROVE Fits(t, player[t])
    <3>1. PICK pl : pl = NewPlayer(<<t, 1>>)
      OBVIOUS
    <3>2. <<t, 1>> \in Own(t) /\ <<t, 1>> \in Writers
      BY OwnWriters, BoundsAssumption
    <3>3. /\ pl \in Players /\ pl.writer = <<t, 1>> /\ pl.view = None /\ pl.seq \in Nat
          /\ pl.writer \in Own(t)
      BY <3>1, <3>2, NewPlayerTyped DEF Players
    <3>4. last \in [Writers -> Nat] /\ \A w \in Writers : last[w] = 0
      BY DEF Init
    <3>5. Fits(t, pl)
      BY <3>2, <3>3, <3>4, OwnWriters DEF Fits
    <3> QED  BY <3>1, <3>5 DEF Init
  <2>2. \A t \in Tabs : player[t] \in Players
    BY <2>1 DEF Fits
  <2> QED  BY <2>1, <2>2 DEF PlayersOK, Init
<1>7. Counted
  <2>1. trashed \in BOOLEAN
    BY Zenon DEF Init
  <2> QED  BY <2>1, BoundsAssumption DEF Init, Counted
<1> QED
  BY <1>1, <1>2, <1>3, <1>4, <1>5, <1>6, <1>7 DEF IInv

LEMMA StutterKeeps ==
  ASSUME IInv, UNCHANGED vars
  PROVE  IInv' /\ Orderly
<1>1. UNCHANGED <<rec, trashed, net, player, fetch, outbox, stored, faults, turns, composed,
                  last, discarded>>
  BY DEF vars
<1>2. UNCHANGED ghosts
  BY DEF vars, ghosts
<1>3. Onward /\ RowOK' /\ Orderly
  BY <1>1, <1>2, Standing DEF IInv
<1>4. NetOK' /\ OutboxOK' /\ StoredOK' /\ FetchOK' /\ PlayersOK'
  BY <1>1, <1>3, NetStays, OutboxStays, StoredStays, FetchStays, PlayersStay DEF IInv
<1>5. Counted'
  BY <1>1 DEF IInv, Counted
<1> QED
  BY <1>3, <1>4, <1>5 DEF IInv

LEMMA StepHolds == IInv /\ [Next]_vars => IInv' /\ Orderly
<1> SUFFICES ASSUME IInv, [Next]_vars PROVE IInv' /\ Orderly
  OBVIOUS
<1>1. CASE UNCHANGED vars
  BY <1>1, StutterKeeps
<1>2. CASE Server
  BY <1>2, ServeKeeps, TurnAwayKeeps, UnheardKeeps DEF Server
<1>3. ASSUME NEW t \in Tabs, Outbox(t)  PROVE IInv' /\ Orderly
  BY <1>3, RetryKeeps, FailKeeps, AnsweredKeeps DEF Outbox
<1>4. ASSUME NEW t \in Tabs, User(t)  PROVE IInv' /\ Orderly
  BY <1>4, PlayKeeps, SeekKeeps, IntentKeeps, ReopenKeeps, RestartKeeps, ReplayKeeps DEF User
<1>5. ASSUME NEW t \in Tabs, Reads(t)  PROVE IInv' /\ Orderly
  BY <1>5, RestoreKeeps, ReadKeeps, LoadingKeeps, LoadedKeeps, PolledKeeps DEF Reads
<1> QED
  BY <1>1, <1>2, <1>3, <1>4, <1>5 DEF Next

\* For any number of tabs, sessions, packets, faults and turns the invariant
\* holds: whatever is still afoot was composed against a row that has been.
THEOREM ProgressInvariant == Spec => []IInv
<1> QED
  BY InitHolds, StepHolds, PTL DEF Spec

\* The row, the requests, the players, the outboxes and the journals keep their types.
THEOREM ProgressTyped == Spec => []TypeOK
<1>1. IInv => TypeOK
  <2> SUFFICES ASSUME IInv PROVE TypeOK
    OBVIOUS
  <2>1. rec \in Records /\ last \in [Writers -> Nat] /\ taken \in [Writers -> Nat]
    BY DEF IInv, RowOK
  <2>2. BagToSet(net) \subseteq Requests
    BY DEF IInv, NetOK
  <2>3. /\ player \in [Tabs -> Players] /\ fetch \in [Tabs -> Records \cup {None}]
        /\ outbox \in [Tabs -> [Writers -> Entries \cup {None}]]
        /\ stored \in [Browsers -> [Writers -> Packets \cup {None}]]
    BY DEF IInv, PlayersOK, FetchOK, OutboxOK, StoredOK
  <2>4. /\ faults \in 0..MaxFaults /\ turns \in 0..MaxTurns /\ composed \in [Tabs -> Nat]
        /\ doomed \in [Writers -> Nat] /\ discarded \subseteq Writers /\ trashed \in BOOLEAN
    BY DEF IInv, RowOK, Counted
  <2> QED  BY <2>1, <2>2, <2>3, <2>4 DEF TypeOK
<1> QED
  BY <1>1, ProgressInvariant, PTL

\* The server takes the packets of one session in the order its player composed
\* them: what is retried, duplicated or reordered never replaces a later position
\* of the same session (decide_write, progress.rs:182-210).
THEOREM ProgressNeverRewinds == Spec => NeverRewinds
<1>1. IInv /\ [Next]_vars =>
        [\A w \in Writers : rec' # rec /\ rec'.writer = w => rec'.seq > taken[w]]_vars
  BY StepHolds DEF Orderly
<1> QED
  BY <1>1, ProgressInvariant, PTL DEF Spec, NeverRewinds

\* A packet composed before another session took over is never accepted after it,
\* however late it arrives (progress.rs:111-112).
THEOREM ProgressLateStaysOut == Spec => LateStaysOut
<1>1. IInv /\ [Next]_vars =>
        [rec' # rec /\ rec'.writer # None => rec'.seq > doomed[rec'.writer]]_vars
  BY StepHolds DEF Orderly
<1> QED
  BY <1>1, ProgressInvariant, PTL DEF Spec, LateStaysOut

-----------------------------------------------------------------------------
(* What an answer is worth, and what a journal and a clean player stand for. *)

\* An entry is about its own session's packets, and an answer that is a row tells of
\* no less than what was sent and of no more than the server has taken.
Honest(w, e) ==
  /\ e.journal.writer = w
  /\ e.sent # None => e.sent.writer = w
  /\ e.answer \in Records =>
       /\ e.sent # None
       /\ e.sent.seq <= e.answer.seq /\ e.answer.seq <= taken[w]

\* p holds the last packet of w, if the server has yet to take it.
Kept(w, p) == last[w] > taken[w] /\ w \notin discarded => p # None /\ p.seq = last[w]

\* pl has nothing to send and nothing unsaved.
Clean(pl) ==
  pl.latest /\ ~pl.fenced /\ ~pl.changed => taken[pl.writer] >= last[pl.writer]

EntriesHonest == \A t \in Tabs, w \in Writers : outbox[t][w] = None \/ Honest(w, outbox[t][w])
JournalsFiled == \A b \in Browsers, w \in Writers :
                   stored[b][w] = None \/ stored[b][w].writer = w
JournalsKept  == \A w \in Writers : Kept(w, stored[Browser(w[1])][w])
PlayersClean  == \A t \in Tabs : Clean(player[t])

Faithful == EntriesHonest /\ JournalsFiled /\ JournalsKept /\ PlayersClean

LEMMA TabOfWriter ==
  ASSUME NEW w \in Writers
  PROVE  w[1] \in Tabs /\ w \in Own(w[1]) /\ Browser(w[1]) \in Browsers
BY DEF Writers, Own, Browsers

\* The server only takes more.
Grown ==
  /\ taken \in [Writers -> Nat] /\ taken' \in [Writers -> Nat]
  /\ \A w \in Writers : taken[w] <= taken'[w]

LEMMA DecidedGrows ==
  ASSUME IInv, IInv', Orderly, NEW p \in Packets, NEW v, Decided(p, v)
  PROVE  Grown
<1>1. taken \in [Writers -> Nat] /\ taken' \in [Writers -> Nat] /\ rec \in Records
  BY DEF IInv, RowOK
<1>2. p.writer \in Writers /\ p.seq \in Nat
  BY DEF Packets
<1>3. CASE Accepted(p)
  <2>1. rec' # rec /\ rec'.writer = p.writer /\ rec'.seq = p.seq
    BY <1>1, <1>3 DEF Accepted, Saved, Records
  <2>2. p.seq > taken[p.writer]
    BY <2>1 DEF Orderly
  <2> QED  BY <1>1, <1>2, <1>3, <2>2 DEF Accepted, Grown
<1>4. CASE UNCHANGED taken
  BY <1>1, <1>4 DEF Grown
<1> QED
  BY <1>3, <1>4 DEF Decided, ghosts

LEMMA SameGrown ==
  ASSUME IInv, UNCHANGED ghosts
  PROVE  Grown
BY DEF IInv, RowOK, ghosts, Grown

LEMMA HonestStays ==
  ASSUME Grown, NEW w \in Writers, NEW e, Honest(w, e)
  PROVE  Honest(w, e)'
<1>1. e.answer \in Records => e.answer.seq \in Nat
  BY DEF Records
<1> QED
  BY <1>1 DEF Honest, Grown

LEMMA KeptStays ==
  ASSUME IInv, Grown, UNCHANGED last, discarded \subseteq discarded',
         NEW w \in Writers, NEW p, Kept(w, p)
  PROVE  Kept(w, p)'
BY DEF Kept, Grown, IInv, RowOK

LEMMA CleanStays ==
  ASSUME IInv, Grown, NEW pl, pl.writer \in Writers, last'[pl.writer] = last[pl.writer],
         Clean(pl)
  PROVE  Clean(pl)'
BY DEF Clean, Grown, IInv, RowOK

\* The other entries keep what they say while one changes.
LEMMA EntriesSet ==
  ASSUME IInv, EntriesHonest, Grown, NEW t \in Tabs, NEW w \in Writers,
         NEW f, f = None \/ Honest(w, f)', outbox' = [outbox EXCEPT ![t][w] = f]
  PROVE  EntriesHonest'
<1> SUFFICES ASSUME NEW u \in Tabs, NEW x \in Writers
             PROVE  outbox'[u][x] = None \/ Honest(x, outbox[u][x])'
  BY DEF EntriesHonest
<1>1. outbox'[u][x] = IF u = t /\ x = w THEN f ELSE outbox[u][x]
  BY DEF IInv, OutboxOK
<1>2. PICK g : g = outbox[u][x]
  OBVIOUS
<1>3. g = None \/ Honest(x, g)'
  BY <1>2, HonestStays DEF EntriesHonest
<1>4. CASE u = t /\ x = w
  BY <1>1, <1>4
<1>5. CASE ~(u = t /\ x = w)
  BY <1>1, <1>2, <1>3, <1>5
<1> QED
  BY <1>4, <1>5

LEMMA EntriesSame ==
  ASSUME IInv, EntriesHonest, Grown, UNCHANGED outbox
  PROVE  EntriesHonest'
<1> SUFFICES ASSUME NEW u \in Tabs, NEW x \in Writers
             PROVE  outbox'[u][x] = None \/ Honest(x, outbox[u][x])'
  BY DEF EntriesHonest
<1>1. PICK g : g = outbox[u][x]
  OBVIOUS
<1>2. g = None \/ Honest(x, g)'
  BY <1>1, HonestStays DEF EntriesHonest
<1> QED
  BY <1>1, <1>2

\* What is not about the outbox stays.
LEMMA RestFaithful ==
  ASSUME IInv, Faithful, Grown, EntriesHonest', UNCHANGED <<player, stored, last, discarded>>
  PROVE  Faithful'
<1>1. JournalsFiled'
  BY DEF Faithful, JournalsFiled
<1>2. JournalsKept'
  <2> SUFFICES ASSUME NEW w \in Writers
               PROVE  Kept(w, stored[Browser(w[1])][w])'
    BY DEF JournalsKept
  <2>1. PICK p : p = stored[Browser(w[1])][w]
    OBVIOUS
  <2>2. Kept(w, p)'
    BY <2>1, KeptStays DEF Faithful, JournalsKept
  <2> QED  BY <2>1, <2>2
<1>3. PlayersClean'
  <2> SUFFICES ASSUME NEW t \in Tabs  PROVE Clean(player[t])'
    BY DEF PlayersClean
  <2>1. PICK pl : pl = player[t]
    OBVIOUS
  <2>2. Clean(pl)'
    BY <2>1, CleanStays, PlayerFacts DEF Faithful, PlayersClean
  <2> QED  BY <2>1, <2>2
<1> QED
  BY <1>1, <1>2, <1>3 DEF Faithful

-----------------------------------------------------------------------------
(* The server and the outbox.                                              *)

\* A row that answers p says at least p, and the server has taken as much as it says.
LEMMA AnswerHonest ==
  ASSUME RowOK, NEW p \in Packets, NEW v, v = decide_write(rec, p), Decided(p, v),
         NEW a, a = Answer(p, v), a \in Records
  PROVE  p.seq <= a.seq /\ a.seq <= taken'[p.writer]
<1>1. /\ p.writer \in Writers /\ p.seq \in Nat /\ rec \in Records /\ rec.rev \in Nat
      /\ rec.seq \in Nat /\ taken \in [Writers -> Nat] /\ p.writer # None
  BY NoneAssumption DEF RowOK, Packets, Records
<1>2. CASE v = "accept" /\ Accepted(p)
  <2>1. a = Saved(p) /\ taken'[p.writer] = p.seq
    BY <1>1, <1>2 DEF Answer, Accepted
  <2>2. a.seq = p.seq
    BY <1>1, <2>1 DEF Saved
  <2> QED  BY <1>1, <2>1, <2>2
<1>3. CASE v # "accept" /\ UNCHANGED <<rec, ghosts>>
  <2>1. v \in {"duplicate", "conflict"} /\ UNCHANGED taken
    BY <1>3 DEF decide_write, ghosts
  <2>2. v # "conflict"
    BY <2>1, NoneAssumption DEF Answer, Errors
  <2>3. a = rec /\ rec.writer = p.writer /\ p.seq <= rec.seq
    BY <2>1, <2>2 DEF Answer, decide_write
  <2>4. taken[p.writer] = rec.seq
    BY <1>1, <2>3 DEF RowOK
  <2> QED  BY <1>1, <2>1, <2>3, <2>4
<1> QED
  BY <1>2, <1>3 DEF Decided

LEMMA ServeFaithful ==
  ASSUME IInv, Faithful, NEW q \in BagToSet(net), Serve(q)
  PROVE  Faithful'
<1>1. q.from \in Tabs /\ q.pkt \in Packets /\ q.pkt.writer \in Writers
  BY DEF IInv, NetOK, Requests, Packets
<1>2. PICK t, p : t = q.from /\ p = q.pkt
  OBVIOUS
<1>3. PICK w, v : w = p.writer /\ v = decide_write(rec, p)
  OBVIOUS
<1>4. PICK a : a = Answer(p, v)
  OBVIOUS
<1>5. PICK e : e = outbox[t][w]
  OBVIOUS
<1>6. PICK f : f = [e EXCEPT !.answer = a]
  OBVIOUS
<1>7. Decided(p, v)
  BY <1>2, <1>3 DEF Serve
<1>8. Grown
  BY <1>1, <1>2, <1>7, ServeKeeps, DecidedGrows
<1>9. a \in Records => p.seq <= a.seq /\ a.seq <= taken'[w]
  BY <1>1, <1>2, <1>3, <1>4, <1>7, AnswerHonest DEF IInv
<1>10. /\ e # None /\ e \in Entries /\ e.sent = p /\ Honest(w, e) /\ p # None
  BY <1>1, <1>2, <1>3, <1>5, NoneAssumption
     DEF Serve, Awaits, IInv, OutboxOK, Faithful, EntriesHonest
<1>11. f.journal = e.journal /\ f.sent = p /\ f.answer = a
  BY <1>6, <1>10 DEF Entries
<1>12. Honest(w, f)'
  BY <1>9, <1>10, <1>11 DEF Honest
<1>13. outbox' = [outbox EXCEPT ![t][w] = f]
  BY <1>1, <1>2, <1>3, <1>4, <1>5, <1>6 DEF Serve, IInv, OutboxOK
<1>14. EntriesHonest'
  BY <1>1, <1>2, <1>3, <1>8, <1>12, <1>13, EntriesSet DEF Faithful
<1> QED
  BY <1>8, <1>14, RestFaithful DEF Serve, local

LEMMA TurnAwayFaithful ==
  ASSUME IInv, Faithful, NEW q \in BagToSet(net), TurnAway(q)
  PROVE  Faithful'
<1>1. q.from \in Tabs /\ q.pkt.writer \in Writers
  BY DEF IInv, NetOK, Requests, Packets
<1>2. PICK t, w : t = q.from /\ w = q.pkt.writer
  OBVIOUS
<1>3. PICK e : e = outbox[t][w]
  OBVIOUS
<1>4. PICK f : f = [e EXCEPT !.answer = Missing]
  OBVIOUS
<1>5. Grown
  BY SameGrown DEF TurnAway
<1>6. e \in Entries /\ Honest(w, e)
  BY <1>1, <1>2, <1>3 DEF TurnAway, Awaits, IInv, OutboxOK, Faithful, EntriesHonest
<1>7. f.journal = e.journal /\ f.sent = e.sent /\ f.answer = Missing
  BY <1>4, <1>6 DEF Entries
<1>8. Missing \notin Records
  BY NoneAssumption DEF Errors
<1>9. Honest(w, f)'
  BY <1>6, <1>7, <1>8 DEF Honest
<1>10. outbox' = [outbox EXCEPT ![t][w] = f]
  BY <1>1, <1>2, <1>3, <1>4 DEF TurnAway, IInv, OutboxOK
<1>11. EntriesHonest'
  BY <1>1, <1>2, <1>5, <1>9, <1>10, EntriesSet DEF Faithful
<1> QED
  BY <1>5, <1>11, RestFaithful DEF TurnAway, local

LEMMA UnheardFaithful ==
  ASSUME IInv, Faithful, \/ Trash \/ Untrash
                         \/ \E q \in BagToSet(net) : ServeUnheard(q) \/ LoseRequest(q)
  PROVE  Faithful'
<1>1. IInv' /\ Orderly
  BY UnheardKeeps
<1>2. Grown
  <2>1. ASSUME NEW q \in BagToSet(net), Decided(q.pkt, decide_write(rec, q.pkt))
        PROVE  Grown
    <3>1. q.pkt \in Packets
      BY DEF IInv, NetOK, Requests
    <3> QED  BY <1>1, <2>1, <3>1, DecidedGrows
  <2>2. CASE UNCHANGED ghosts
    BY <2>2, SameGrown
  <2> QED  BY <2>1, <2>2 DEF ServeUnheard, LoseRequest, Trash, Untrash
<1>3. UNCHANGED <<outbox, player, stored, last, discarded>>
  BY DEF ServeUnheard, LoseRequest, Trash, Untrash, local
<1>4. EntriesHonest'
  BY <1>2, <1>3, EntriesSame DEF Faithful
<1> QED
  BY <1>2, <1>3, <1>4, RestFaithful

LEMMA RetryFaithful ==
  ASSUME IInv, Faithful, NEW t \in Tabs, NEW w \in Writers, Retry(t, w)
  PROVE  Faithful'
<1>1. PICK e : e = outbox[t][w]
  OBVIOUS
<1>2. PICK f : f = [e EXCEPT !.sent = e.journal]
  OBVIOUS
<1>3. e # None /\ e \in Entries /\ e.sent = None /\ Honest(w, e)
  BY <1>1 DEF Retry, Waiting, IInv, OutboxOK, Faithful, EntriesHonest
<1>4. Grown
  BY SameGrown DEF Retry
<1>5. f.journal = e.journal /\ f.sent = e.journal /\ f.answer = e.answer
  BY <1>2, <1>3 DEF Entries
<1>6. Honest(w, f)'
  BY <1>3, <1>5 DEF Honest
<1>7. outbox' = [outbox EXCEPT ![t][w] = f]
  BY <1>1, <1>2 DEF Retry, IInv, OutboxOK
<1>8. EntriesHonest'
  BY <1>4, <1>6, <1>7, EntriesSet DEF Faithful
<1> QED
  BY <1>4, <1>8, RestFaithful DEF Retry, local

LEMMA FailFaithful ==
  ASSUME IInv, Faithful, NEW t \in Tabs, NEW w \in Writers, Fail(t, w)
  PROVE  Faithful'
<1>1. PICK e : e = outbox[t][w]
  OBVIOUS
<1>2. PICK f : f = [e EXCEPT !.sent = None]
  OBVIOUS
<1>3. e # None /\ e \in Entries /\ e.answer = None /\ Honest(w, e)
  BY <1>1 DEF Fail, Waiting, IInv, OutboxOK, Faithful, EntriesHonest
<1>4. Grown
  BY SameGrown DEF Fail
<1>5. f.journal = e.journal /\ f.sent = None /\ f.answer = None
  BY <1>2, <1>3 DEF Entries
<1>6. None \notin Records
  BY NoneAssumption
<1>7. Honest(w, f)'
  BY <1>3, <1>5, <1>6 DEF Honest
<1>8. outbox' = [outbox EXCEPT ![t][w] = f]
  BY <1>1, <1>2 DEF Fail
<1>9. EntriesHonest'
  BY <1>4, <1>7, <1>8, EntriesSet DEF Faithful
<1> QED
  BY <1>4, <1>9, RestFaithful DEF Fail, local

\* One tab's player goes on as pl, and the other tabs compose nothing.
LEMMA PlayersSet ==
  ASSUME IInv, PlayersClean, Grown, NEW t \in Tabs, NEW pl,
         player' = [player EXCEPT ![t] = pl],
         \A w \in Writers \ Own(t) : last'[w] = last[w],
         Clean(pl)'
  PROVE  PlayersClean'
<1> SUFFICES ASSUME NEW u \in Tabs  PROVE Clean(player[u])'
  BY DEF PlayersClean
<1>1. CASE u = t
  BY <1>1 DEF IInv, PlayersOK
<1>2. CASE u # t
  <2>1. PICK o : o = player[u]
    OBVIOUS
  <2>2. player'[u] = o /\ Clean(o)
    BY <1>2, <2>1 DEF IInv, PlayersOK, PlayersClean
  <2>3. o.writer \in Writers /\ o.writer \notin Own(t)
    BY <1>2, <2>1, PlayerFacts, OthersWriters DEF Fits
  <2>4. Clean(o)'
    BY <2>2, <2>3, CleanStays
  <2> QED  BY <2>2, <2>4
<1> QED
  BY <1>1, <1>2

\* The flag only goes down for an answer to the last packet, or with the fence.
LEMMA NotifiedClean ==
  ASSUME IInv, Faithful, NEW t \in Tabs, NEW w \in Writers, NEW e, e \in Entries,
         Honest(w, e), e.sent # None, e.answer # None, NEW pl, pl = Notified(t, e)
  PROVE  Clean(pl)
<1>1. PICK o : o = player[t]
  OBVIOUS
<1>2. Fits(t, o) /\ o \in Players /\ o.writer \in Writers /\ o.seq \in Nat /\ Clean(o)
  BY <1>1, PlayerFacts DEF Faithful, PlayersClean
<1>3. e.sent.writer = w
  BY DEF Honest
<1>4. CASE o.writer # w \/ (o.writer = w /\ e.answer = Missing)
  <2>1. pl = o
    BY <1>1, <1>3, <1>4, NoneAssumption DEF Notified
  <2> QED  BY <1>2, <2>1
<1>5. CASE o.writer = w /\ e.answer = Conflict
  <2>1. pl = [o EXCEPT !.fenced = TRUE, !.changed = FALSE]
    BY <1>1, <1>3, <1>5 DEF Notified
  <2>2. pl.fenced
    BY <1>2, <2>1 DEF Players
  <2> QED  BY <2>2 DEF Clean
<1>6. CASE o.writer = w /\ e.answer \in Records
  <2>1. PICK v, c : v = Later(o.view, e.answer) /\ c = (o.changed /\ o.seq # e.sent.seq)
    OBVIOUS
  <2>2. pl = [o EXCEPT !.view = v, !.changed = c]
    BY <1>1, <1>2, <1>3, <1>6, <2>1, NoneAssumption DEF Notified, Players, Errors
  <2>3. /\ pl.writer = w /\ pl.latest = o.latest /\ pl.fenced = o.fenced /\ pl.changed = c
    BY <1>2, <1>6, <2>2 DEF Players
  <2>4. CASE o.seq # e.sent.seq
    BY <1>2, <1>6, <2>1, <2>3, <2>4 DEF Clean
  <2>5. CASE o.seq = e.sent.seq
    <3>1. last[w] <= o.seq
      BY <1>2, <1>6 DEF Fits
    <3>2. e.sent.seq <= e.answer.seq /\ e.answer.seq <= taken[w]
      BY <1>6 DEF Honest
    <3>3. last[w] \in Nat /\ taken[w] \in Nat /\ e.answer.seq \in Nat
      BY <1>6 DEF IInv, RowOK, Records
    <3>4. taken[w] >= last[w]
      BY <1>2, <2>5, <3>1, <3>2, <3>3
    <3> QED  BY <2>3, <3>4 DEF Clean
  <2> QED  BY <2>4, <2>5
<1> QED
  BY <1>4, <1>5, <1>6 DEF Entries

\* What is left of a journal when an answer has come.
LEMMA RemovedKept ==
  ASSUME IInv, Faithful, NEW t \in Tabs, NEW w \in Writers, NEW e, e \in Entries,
         Honest(w, e), e.answer # None,
         stored' = IF Removable(t, w, e)
                     THEN [stored EXCEPT ![Browser(t)][w] = None] ELSE stored,
         discarded' = IF e.answer \in Errors THEN discarded \cup {w} ELSE discarded,
         UNCHANGED <<last, taken>>
  PROVE  JournalsFiled' /\ JournalsKept'
<1>1. ASSUME NEW b \in Browsers, NEW x \in Writers
      PROVE  \/ stored'[b][x] = stored[b][x]
             \/ /\ Removable(t, w, e) /\ b = Browser(t) /\ x = w /\ stored'[b][x] = None
  BY DEF IInv, StoredOK
<1>2. JournalsFiled'
  BY <1>1 DEF Faithful, JournalsFiled
<1>3. JournalsKept'
  <2> SUFFICES ASSUME NEW x \in Writers
               PROVE  Kept(x, stored[Browser(x[1])][x])'
    BY DEF JournalsKept
  <2>1. PICK b, p, n : b = Browser(x[1]) /\ p = stored[b][x] /\ n = stored'[b][x]
    OBVIOUS
  <2>2. b \in Browsers /\ Kept(x, p)
    BY <2>1, TabOfWriter DEF Faithful, JournalsKept
  <2>3. discarded \subseteq discarded'
    OBVIOUS
  <2>4. CASE n = p
    <3>1. Kept(x, n)'
      BY <2>2, <2>3, <2>4 DEF Kept
    <3> QED  BY <2>1, <3>1
  <2>5. CASE Removable(t, w, e) /\ b = Browser(t) /\ x = w
    <3>1. CASE e.answer \in Errors
      <4>1. w \in discarded'
        BY <3>1
      <4>2. Kept(x, n)'
        BY <2>5, <4>1 DEF Kept
      <4> QED  BY <2>1, <4>2
    <3>2. CASE e.answer \notin Errors
      <4>1. e.answer \in Records /\ e.answer.seq \in Nat /\ e.answer.seq <= taken[w]
        BY <3>2 DEF Honest, Entries, Records, Errors
      <4>2. p # None /\ p.seq <= e.answer.seq
        BY <2>1, <2>5, <3>2 DEF Removable
      <4>3. last[w] \in Nat /\ taken[w] \in Nat
        BY DEF IInv, RowOK
      <4>4. ~(last[w] > taken[w] /\ w \notin discarded)
        BY <2>2, <2>5, <4>1, <4>2, <4>3 DEF Kept
      <4>5. Kept(x, n)'
        BY <2>3, <2>5, <4>4 DEF Kept
      <4> QED  BY <2>1, <4>5
    <3> QED  BY <3>1, <3>2
  <2> QED  BY <1>1, <2>1, <2>2, <2>4, <2>5
<1> QED
  BY <1>2, <1>3

LEMMA AnsweredFaithful ==
  ASSUME IInv, Faithful, NEW t \in Tabs, NEW w \in Writers, Answered(t, w)
  PROVE  Faithful'
<1>1. PICK e : e = outbox[t][w]
  OBVIOUS
<1>2. PICK pl : pl = Notified(t, e)
  OBVIOUS
<1>3. e # None /\ e \in Entries /\ e.sent # None /\ e.answer # None /\ Honest(w, e)
  BY <1>1 DEF Answered, Waiting, IInv, OutboxOK, Faithful, EntriesHonest
<1>4. Grown /\ UNCHANGED <<last, taken>>
  BY SameGrown DEF Answered, ghosts
<1>5. PlayersClean'
  <2>1. player' = [player EXCEPT ![t] = pl]
    BY <1>1, <1>2 DEF Answered
  <2>2. Clean(pl)
    BY <1>2, <1>3, NotifiedClean
  <2>3. Clean(pl)'
    BY <1>4, <2>2 DEF Clean
  <2> QED  BY <1>4, <2>1, <2>3, PlayersSet DEF Faithful
<1>6. ASSUME outbox' = [outbox EXCEPT ![t][w] = [e EXCEPT !.sent = e.journal, !.answer = None]],
             UNCHANGED <<stored, discarded>>
      PROVE  EntriesHonest' /\ JournalsFiled' /\ JournalsKept'
  <2>1. PICK f : f = [e EXCEPT !.sent = e.journal, !.answer = None]
    OBVIOUS
  <2>2. f.journal = e.journal /\ f.sent = e.journal /\ f.answer = None
    BY <1>3, <2>1 DEF Entries
  <2>3. None \notin Records
    BY NoneAssumption
  <2>4. Honest(w, f)'
    BY <1>3, <2>2, <2>3 DEF Honest
  <2>5. EntriesHonest'
    BY <1>4, <1>6, <2>1, <2>4, EntriesSet DEF Faithful
  <2>6. JournalsFiled' /\ JournalsKept'
    BY <1>4, <1>6 DEF Faithful, JournalsFiled, JournalsKept, Kept
  <2> QED  BY <2>5, <2>6
<1>7. ASSUME outbox' = [outbox EXCEPT ![t][w] = None],
             stored' = IF Removable(t, w, e)
                         THEN [stored EXCEPT ![Browser(t)][w] = None] ELSE stored,
             discarded' = IF e.answer \in Errors THEN discarded \cup {w} ELSE discarded
      PROVE  EntriesHonest' /\ JournalsFiled' /\ JournalsKept'
  <2>1. PICK f : f = None
    OBVIOUS
  <2>2. EntriesHonest'
    BY <1>4, <1>7, <2>1, EntriesSet DEF Faithful
  <2>3. JournalsFiled' /\ JournalsKept'
    BY <1>3, <1>4, <1>7, RemovedKept
  <2> QED  BY <2>2, <2>3
<1>8. EntriesHonest' /\ JournalsFiled' /\ JournalsKept'
  BY <1>1, <1>6, <1>7 DEF Answered
<1> QED
  BY <1>5, <1>8 DEF Faithful

-----------------------------------------------------------------------------
(* The player's steps.                                                     *)

\* A player goes on as pl and composes nothing.
LEMMA PlayerFaithful ==
  ASSUME IInv, Faithful, NEW t \in Tabs, NEW pl, UNCHANGED <<packets, ghosts>>,
         player' = [player EXCEPT ![t] = pl], Clean(pl)
  PROVE  Faithful'
<1>1. Grown /\ UNCHANGED <<outbox, stored, last, discarded, taken>>
  BY SameGrown DEF packets, ghosts
<1>2. EntriesHonest'
  BY <1>1, EntriesSame DEF Faithful
<1>3. JournalsFiled' /\ JournalsKept'
  BY <1>1 DEF Faithful, JournalsFiled, JournalsKept, Kept
<1>4. Clean(pl)'
  BY <1>1 DEF Clean
<1>5. PlayersClean'
  BY <1>1, <1>4, PlayersSet DEF Faithful
<1> QED
  BY <1>2, <1>3, <1>5 DEF Faithful

\* A player composes a packet, journals it ahead of all that was, and goes on as next.
LEMMA FlushFaithful ==
  ASSUME IInv, Faithful, NEW t \in Tabs, NEW pl, Fits(t, pl), CanFlush(pl), Flushed(t, pl),
         UNCHANGED ghosts, NEW next, player' = [player EXCEPT ![t] = next],
         next.latest => next.changed
  PROVE  Faithful'
<1>1. PICK w, k, b : w = pl.writer /\ k = pl.seq + 1 /\ b = Browser(t)
  OBVIOUS
<1>2. PICK p : p = [writer |-> w, seq |-> k, base |-> pl.view.rev]
  OBVIOUS
<1>3. /\ w \in Own(t) /\ w \in Writers /\ w[1] = t /\ k \in Nat /\ pl.seq \in Nat
      /\ pl.view.rev \in Nat /\ b \in Browsers
  BY <1>1, OwnWriters DEF Fits, Players, CanFlush, Past, Records, Browsers
<1>4. p \in Packets /\ p.writer = w /\ p.seq = k /\ p # None
  BY <1>2, <1>3, NoneAssumption DEF Packets
<1>5. last \in [Writers -> Nat] /\ last' = [last EXCEPT ![w] = k] /\ Enqueue(t, p)
  BY <1>1, <1>2 DEF IInv, RowOK, Flushed
<1>6. stored' = [stored EXCEPT ![b][w] = p] /\ discarded' = discarded \ {w}
  BY <1>1, <1>4, <1>5 DEF Enqueue
<1>7. Grown /\ UNCHANGED taken
  BY SameGrown DEF ghosts
<1>8. EntriesHonest'
  <2>1. CASE Waiting(t, w) /\ outbox' = [outbox EXCEPT ![t][w].journal = p]
    <3>1. PICK e : e = outbox[t][w]
      OBVIOUS
    <3>2. e \in Entries /\ Honest(w, e)
      BY <1>3, <2>1, <3>1 DEF Waiting, IInv, OutboxOK, Faithful, EntriesHonest
    <3>3. PICK f : f = [e EXCEPT !.journal = p]
      OBVIOUS
    <3>4. f.journal = p /\ f.sent = e.sent /\ f.answer = e.answer
      BY <3>2, <3>3 DEF Entries
    <3>5. Honest(w, f)'
      BY <1>4, <1>7, <3>2, <3>4 DEF Honest
    <3>6. outbox' = [outbox EXCEPT ![t][w] = f]
      BY <1>3, <2>1, <3>1, <3>3 DEF IInv, OutboxOK
    <3> QED  BY <1>3, <1>7, <3>5, <3>6, EntriesSet DEF Faithful
  <2>2. CASE outbox' = [outbox EXCEPT ![t][w] = Busy(p)]
    <3>1. PICK f : f = Busy(p)
      OBVIOUS
    <3>2. f.journal = p /\ f.sent = p /\ f.answer = None
      BY <3>1 DEF Busy
    <3>3. None \notin Records
      BY NoneAssumption
    <3>4. Honest(w, f)'
      BY <1>4, <3>2, <3>3 DEF Honest
    <3> QED  BY <1>3, <1>7, <2>2, <3>1, <3>4, EntriesSet DEF Faithful
  <2> QED  BY <1>4, <1>5, <2>1, <2>2 DEF Enqueue
<1>9. \A c \in Browsers, x \in Writers :
        stored'[c][x] = IF c = b /\ x = w THEN p ELSE stored[c][x]
  BY <1>3, <1>6 DEF IInv, StoredOK
<1>10. JournalsFiled'
  BY <1>4, <1>9 DEF Faithful, JournalsFiled
<1>11. JournalsKept'
  <2> SUFFICES ASSUME NEW x \in Writers
               PROVE  Kept(x, stored[Browser(x[1])][x])'
    BY DEF JournalsKept
  <2>1. PICK c, m, n : c = Browser(x[1]) /\ m = stored[c][x] /\ n = stored'[c][x]
    OBVIOUS
  <2>2. c \in Browsers /\ Kept(x, m)
    BY <2>1, TabOfWriter DEF Faithful, JournalsKept
  <2>3. CASE x = w
    <3>1. n = p /\ last'[x] = k
      BY <1>1, <1>3, <1>5, <1>9, <2>1, <2>2, <2>3
    <3>2. Kept(x, n)'
      BY <1>4, <3>1 DEF Kept
    <3> QED  BY <2>1, <3>2
  <2>4. CASE x # w
    <3>1. n = m /\ last'[x] = last[x]
      BY <1>5, <1>9, <2>1, <2>2, <2>4
    <3>2. Kept(x, n)'
      BY <1>6, <1>7, <2>2, <2>4, <3>1 DEF Kept
    <3> QED  BY <2>1, <3>2
  <2> QED  BY <2>3, <2>4
<1>12. PlayersClean'
  <2>1. \A x \in Writers \ Own(t) : last'[x] = last[x]
    BY <1>3, <1>5
  <2>2. Clean(next)'
    BY DEF Clean
  <2> QED  BY <1>7, <2>1, <2>2, PlayersSet DEF Faithful
<1> QED
  BY <1>8, <1>10, <1>11, <1>12 DEF Faithful

LEMMA PersistFaithful ==
  ASSUME IInv, Faithful, NEW t \in Tabs, NEW pl, Fits(t, pl), UNCHANGED ghosts,
         Persisted(t, pl), ~CanFlush(pl) => Clean(pl)
  PROVE  Faithful'
<1>1. CASE /\ CanFlush(pl) /\ Flushed(t, pl)
           /\ player' = [player EXCEPT ![t] = [pl EXCEPT !.seq = @ + 1]]
  <2>1. PICK next : next = [pl EXCEPT !.seq = @ + 1]
    OBVIOUS
  <2>2. next.changed = pl.changed
    BY <2>1 DEF Fits, Players
  <2>3. next.changed
    BY <1>1, <2>2 DEF CanFlush
  <2> QED  BY <1>1, <2>1, <2>3, FlushFaithful
<1>2. CASE ~CanFlush(pl) /\ UNCHANGED packets /\ player' = [player EXCEPT ![t] = pl]
  BY <1>2, PlayerFaithful
<1> QED
  BY <1>1, <1>2 DEF Persisted

LEMMA LeftFaithful ==
  ASSUME IInv, Faithful, NEW t \in Tabs, NEW pl, Fits(t, pl), UNCHANGED ghosts, NEW next,
         Left(t, pl, next), ~next.latest
  PROVE  Faithful'
<1>1. CASE CanFlush(pl) /\ pl.ready /\ Flushed(t, pl)
  BY <1>1, FlushFaithful DEF Left
<1>2. CASE ~(CanFlush(pl) /\ pl.ready) /\ UNCHANGED packets
  <2>1. Clean(next)
    BY DEF Clean
  <2> QED  BY <1>2, <2>1, PlayerFaithful DEF Left
<1> QED
  BY <1>1, <1>2 DEF Left

-----------------------------------------------------------------------------

LEMMA PlayFaithful ==
  ASSUME IInv, Faithful, NEW t \in Tabs, Play(t)
  PROVE  Faithful'
<1>1. PICK o : o = player[t]
  OBVIOUS
<1>2. PICK pl : pl = [o EXCEPT !.changed = TRUE, !.latest = TRUE]
  OBVIOUS
<1>3. Fits(t, o) /\ o \in Players
  BY <1>1, PlayerFacts
<1>4. Fits(t, pl) /\ pl.changed
  BY <1>2, <1>3 DEF Fits, Players
<1>5. Persisted(t, pl) /\ UNCHANGED ghosts
  BY <1>1, <1>2 DEF Play
<1> QED
  BY <1>4, <1>5, PersistFaithful DEF Clean

\* A session that the user's intent begins has nothing to save.
LEMMA IntendedClean ==
  ASSUME IInv, Faithful, NEW t \in Tabs, player[t].fenced => HasWriter(t),
         NEW o, o = Intended(t)
  PROVE  Clean(o)
<1>1. PICK p : p = player[t]
  OBVIOUS
<1>2. Fits(t, o) /\ p \in Players /\ Clean(p)
  BY <1>1, IntendedFits, PlayerFacts DEF Faithful, PlayersClean
<1>3. CASE ~p.fenced
  BY <1>1, <1>2, <1>3 DEF Intended
<1>4. CASE p.fenced
  <2>1. PICK n : n = NextWriter(t)
    OBVIOUS
  <2>2. o = [p EXCEPT !.writer = n, !.seq = 0, !.fenced = FALSE]
    BY <1>1, <1>4, <2>1 DEF Intended
  <2>3. o.writer = n /\ o.seq = 0
    BY <1>2, <2>2 DEF Players
  <2>4. n \in Writers /\ last[n] <= 0
    BY <1>2, <2>3, OwnWriters DEF Fits
  <2>5. last[n] \in Nat /\ taken[n] \in Nat
    BY <2>4 DEF IInv, RowOK
  <2> QED  BY <2>3, <2>4, <2>5 DEF Clean
<1> QED
  BY <1>3, <1>4

LEMMA SeekFaithful ==
  ASSUME IInv, Faithful, NEW t \in Tabs, Seek(t)
  PROVE  Faithful'
<1>1. PICK o : o = Intended(t)
  OBVIOUS
<1>2. PICK pl : pl = [o EXCEPT !.pending = FALSE, !.ready = TRUE, !.changed = TRUE,
                               !.latest = TRUE]
  OBVIOUS
<1>3. Fits(t, o)
  BY <1>1, IntendedFits DEF Seek
<1>4. Fits(t, pl) /\ pl.changed
  BY <1>2, <1>3 DEF Fits, Players
<1>5. Persisted(t, pl) /\ UNCHANGED ghosts
  BY <1>1, <1>2 DEF Seek
<1> QED
  BY <1>4, <1>5, PersistFaithful DEF Clean

LEMMA IntentFaithful ==
  ASSUME IInv, Faithful, NEW t \in Tabs, Intent(t)
  PROVE  Faithful'
<1>1. PICK pl : pl = Intended(t)
  OBVIOUS
<1>2. Clean(pl)
  BY <1>1, IntendedClean DEF Intent
<1> QED
  BY <1>1, <1>2, PlayerFaithful DEF Intent

\* Steps that touch neither what a player has to save nor its session.
LEMMA AsideFaithful ==
  ASSUME IInv, Faithful, NEW t \in Tabs,
         \/ Restore(t) \/ LoadRead(t) \/ PollRead(t) \/ LoadFails(t) \/ PollLoads(t)
  PROVE  Faithful'
<1>1. PICK o : o = player[t]
  OBVIOUS
<1>2. o \in Players /\ Clean(o)
  BY <1>1, PlayerFacts DEF Faithful, PlayersClean
<1>3. UNCHANGED <<packets, ghosts>>
  BY DEF Restore, LoadRead, PollRead, LoadFails, PollLoads
<1>4. PICK pl : /\ player' = [player EXCEPT ![t] = pl]
                /\ \/ pl = o
                   \/ pl = [o EXCEPT !.ready = TRUE, !.pending = FALSE]
                   \/ pl = [o EXCEPT !.loading = FALSE]
                   \/ pl = [o EXCEPT !.loading = TRUE]
  <2>1. CASE Restore(t)
    BY <1>1, <2>1 DEF Restore, IInv, PlayersOK
  <2>2. CASE LoadRead(t) \/ PollRead(t)
    BY <1>1, <2>2 DEF LoadRead, PollRead, IInv, PlayersOK
  <2>3. CASE LoadFails(t) \/ PollLoads(t)
    BY <1>1, <2>3 DEF LoadFails, PollLoads, IInv, PlayersOK
  <2> QED  BY <2>1, <2>2, <2>3
<1>5. Clean(pl)
  BY <1>2, <1>4 DEF Clean, Players
<1> QED
  BY <1>3, <1>4, <1>5, PlayerFaithful

LEMMA ReplayFaithful ==
  ASSUME IInv, Faithful, NEW t \in Tabs, NEW restart \in BOOLEAN, Replay(t, restart)
  PROVE  Faithful'
<1>1. PICK pl, k, resume : /\ pl = LastSave(t) /\ k = Reloaded(pl)
                           /\ resume = (restart \/ player[t].ready)
  OBVIOUS
<1>2. PICK o : o = NewPlayer(pl.writer)
  OBVIOUS
<1>3. PICK next : next = [o EXCEPT !.seq = k, !.pending = resume, !.changed = resume]
  OBVIOUS
<1>4. Fits(t, pl)
  BY <1>1, LastSaveFits
<1>5. ~next.latest
  BY <1>2, <1>3 DEF NewPlayer
<1>6. Left(t, pl, next) /\ UNCHANGED ghosts
  BY <1>1, <1>2, <1>3 DEF Replay
<1> QED
  BY <1>4, <1>5, <1>6, LeftFaithful

LEMMA ReopenFaithful ==
  ASSUME IInv, Faithful, NEW t \in Tabs, Reopen(t)
  PROVE  Faithful'
<1>1. PICK pl, next : pl = LastSave(t) /\ next = NewPlayer(NextWriter(t))
  OBVIOUS
<1>2. Fits(t, pl) /\ ~next.latest
  BY <1>1, LastSaveFits DEF NewPlayer
<1>3. Left(t, pl, next) /\ UNCHANGED ghosts
  BY <1>1 DEF Reopen
<1> QED
  BY <1>2, <1>3, LeftFaithful

LEMMA RestartFaithful ==
  ASSUME IInv, Faithful, NEW t \in Tabs, Restart(t)
  PROVE  Faithful'
<1>1. PICK b, next : b = Browser(t) /\ next = NewPlayer(NextWriter(t))
  OBVIOUS
<1>2. b \in Browsers
  BY <1>1 DEF Browsers
<1>3. Grown /\ UNCHANGED <<stored, last, discarded, taken>>
  BY SameGrown DEF Restart, ghosts
<1>4. PICK f : /\ f = [w \in Writers |-> LET p == stored[b][w]
                                         IN IF p = None THEN None ELSE Busy(p)]
               /\ outbox' = [outbox EXCEPT ![t] = f]
  BY <1>1 DEF Restart
<1>5. ASSUME NEW w \in Writers  PROVE f[w] = None \/ Honest(w, f[w])'
  <2>1. PICK p : p = stored[b][w]
    OBVIOUS
  <2>2. CASE p = None
    BY <1>4, <2>1, <2>2
  <2>3. CASE p # None
    <3>1. p.writer = w
      BY <1>2, <2>1, <2>3 DEF Faithful, JournalsFiled
    <3>2. PICK e : e = Busy(p)
      OBVIOUS
    <3>3. f[w] = e
      BY <1>4, <2>1, <2>3, <3>2
    <3>4. e.journal = p /\ e.sent = p /\ e.answer = None
      BY <3>2 DEF Busy
    <3>5. None \notin Records
      BY NoneAssumption
    <3>6. Honest(w, e)'
      BY <3>1, <3>4, <3>5 DEF Honest
    <3> QED  BY <3>3, <3>6
  <2> QED  BY <2>2, <2>3
<1>6. EntriesHonest'
  <2> SUFFICES ASSUME NEW u \in Tabs, NEW x \in Writers
               PROVE  outbox'[u][x] = None \/ Honest(x, outbox[u][x])'
    BY DEF EntriesHonest
  <2>1. outbox'[u] = IF u = t THEN f ELSE outbox[u]
    BY <1>4 DEF IInv, OutboxOK
  <2>2. CASE u = t
    BY <1>5, <2>1, <2>2
  <2>3. CASE u # t
    <3>1. PICK g : g = outbox[u][x]
      OBVIOUS
    <3>2. g = None \/ Honest(x, g)'
      BY <1>3, <3>1, HonestStays DEF Faithful, EntriesHonest
    <3> QED  BY <2>1, <2>3, <3>1, <3>2
  <2> QED  BY <2>2, <2>3
<1>7. JournalsFiled' /\ JournalsKept'
  BY <1>3 DEF Faithful, JournalsFiled, JournalsKept, Kept
<1>8. PlayersClean'
  <2>1. ~next.latest
    BY <1>1 DEF NewPlayer
  <2>2. Clean(next)'
    BY <2>1 DEF Clean
  <2>3. player' = [player EXCEPT ![t] = next]
    BY <1>1 DEF Restart
  <2> QED  BY <1>3, <2>2, <2>3, PlayersSet DEF Faithful
<1> QED
  BY <1>6, <1>7, <1>8 DEF Faithful

LEMMA LoadedFaithful ==
  ASSUME IInv, Faithful, NEW t \in Tabs, Loaded(t)
  PROVE  Faithful'
<1>1. PICK o, r : o = player[t] /\ r = fetch[t]
  OBVIOUS
<1>2. PICK pl : pl = [o EXCEPT !.loading = FALSE]
  OBVIOUS
<1>3. Fits(t, o) /\ o \in Players /\ Past(r) /\ r \in Records /\ Clean(o)
  BY <1>1, PlayerFacts DEF Loaded, Faithful, PlayersClean, Past
<1>4. Fits(t, pl) /\ pl \in Players /\ Clean(pl)
  BY <1>2, <1>3 DEF Fits, Players, Clean
<1>5. UNCHANGED ghosts
  BY DEF Loaded
<1>6. CASE player' = [player EXCEPT ![t] = pl] /\ UNCHANGED packets
  BY <1>4, <1>5, <1>6, PlayerFaithful
<1>7. CASE Persisted(t, [pl EXCEPT !.view = r])
  <2>1. PICK m : m = [pl EXCEPT !.view = r]
    OBVIOUS
  <2>2. Fits(t, m) /\ Clean(m)
    BY <1>3, <1>4, <2>1 DEF Fits, Players, Clean
  <2> QED  BY <1>5, <1>7, <2>1, <2>2, PersistFaithful
<1>8. CASE /\ UNCHANGED packets
           /\ player' = [player EXCEPT ![t] = [pl EXCEPT !.view = r, !.pending = TRUE]]
  <2>1. PICK m : m = [pl EXCEPT !.view = r, !.pending = TRUE]
    OBVIOUS
  <2>2. Clean(m)
    BY <1>4, <2>1 DEF Players, Clean
  <2> QED  BY <1>5, <1>8, <2>1, <2>2, PlayerFaithful
<1> QED
  BY <1>1, <1>2, <1>6, <1>7, <1>8 DEF Loaded

LEMMA PolledFaithful ==
  ASSUME IInv, Faithful, NEW t \in Tabs, Polled(t)
  PROVE  Faithful'
<1>1. PICK o, r : o = player[t] /\ r = fetch[t]
  OBVIOUS
<1>2. PICK pl : pl = Received(o, r)
  OBVIOUS
<1>3. o \in Players /\ Clean(o)
  BY <1>1, PlayerFacts DEF Faithful, PlayersClean
<1>4. Clean(pl)
  <2>1. CASE pl = o
    BY <1>3, <2>1
  <2>2. CASE pl = [o EXCEPT !.view = r]
    BY <1>3, <2>2 DEF Players, Clean
  <2>3. CASE pl = [o EXCEPT !.view = r, !.changed = FALSE, !.latest = FALSE, !.fenced = TRUE,
                            !.ready = FALSE, !.pending = TRUE]
    BY <1>3, <2>3 DEF Players, Clean
  <2> QED  BY <1>2, <2>1, <2>2, <2>3 DEF Received
<1>5. player' = [player EXCEPT ![t] = pl]
  BY <1>1, <1>2 DEF Polled
<1> QED
  BY <1>4, <1>5, PlayerFaithful DEF Polled

-----------------------------------------------------------------------------
(* The theorems.                                                           *)

LEMMA InitFaithful == Init => Faithful
<1> SUFFICES ASSUME Init PROVE Faithful
  OBVIOUS
<1>1. EntriesHonest
  BY DEF Init, EntriesHonest
<1>2. JournalsFiled
  BY DEF Init, JournalsFiled
<1>3. JournalsKept
  BY DEF Init, JournalsKept, Kept
<1>4. PlayersClean
  <2> SUFFICES ASSUME NEW t \in Tabs  PROVE Clean(player[t])
    BY DEF PlayersClean
  <2>1. ~player[t].latest
    BY DEF Init, NewPlayer
  <2> QED  BY <2>1 DEF Clean
<1> QED
  BY <1>1, <1>2, <1>3, <1>4 DEF Faithful

LEMMA StutterFaithful ==
  ASSUME IInv, Faithful, UNCHANGED vars
  PROVE  Faithful'
<1>1. Grown /\ UNCHANGED <<outbox, player, stored, last, discarded>>
  BY SameGrown DEF vars, ghosts
<1>2. EntriesHonest'
  BY <1>1, EntriesSame DEF Faithful
<1> QED
  BY <1>1, <1>2, RestFaithful

LEMMA StepFaithful == IInv /\ Faithful /\ [Next]_vars => Faithful'
<1> SUFFICES ASSUME IInv, Faithful, [Next]_vars PROVE Faithful'
  OBVIOUS
<1>1. CASE UNCHANGED vars
  BY <1>1, StutterFaithful
<1>2. CASE Server
  BY <1>2, ServeFaithful, TurnAwayFaithful, UnheardFaithful DEF Server
<1>3. ASSUME NEW t \in Tabs, Outbox(t)  PROVE Faithful'
  BY <1>3, RetryFaithful, FailFaithful, AnsweredFaithful DEF Outbox
<1>4. ASSUME NEW t \in Tabs, User(t)  PROVE Faithful'
  BY <1>4, PlayFaithful, SeekFaithful, IntentFaithful, ReopenFaithful, RestartFaithful,
     ReplayFaithful DEF User
<1>5. ASSUME NEW t \in Tabs, Reads(t)  PROVE Faithful'
  BY <1>5, AsideFaithful, LoadedFaithful, PolledFaithful DEF Reads
<1> QED
  BY <1>1, <1>2, <1>3, <1>4, <1>5 DEF Next

LEMMA AlwaysFaithful == Spec => []Faithful
<1> QED
  BY InitFaithful, StepFaithful, ProgressInvariant, PTL DEF Spec

\* QuietMeansSaved (flush_latest and its callback, playback.rs:281-340): a player
\* that is open for writing and has its dirty flag down is saved.  The flag goes down
\* with the fence, or for an answer to the very packet it composed last, and such an
\* answer says no more than the server has taken; an answer 400, 403, 404 or 410
\* drops the packet and leaves the flag.
THEOREM ProgressQuietMeansSaved == Spec => []QuietMeansSaved
<1>1. Faithful => QuietMeansSaved
  BY DEF Faithful, PlayersClean, Clean, QuietMeansSaved
<1> QED
  BY <1>1, AlwaysFaithful, PTL

\* JournalSurvives (the journals of progress_outbox.rs in the browser's storage): the
\* last packet of a session would survive the loss of every page, until the server
\* has taken it or an error answer has removed the journal (progress_outbox.rs:250-268).
\* An answer with a row removes a journal only when it covers it, also when another
\* tab has written it since.
THEOREM ProgressJournalSurvives == Spec => []JournalSurvives
<1>1. Faithful => JournalSurvives
  BY DEF Faithful, JournalsKept, Kept, JournalSurvives
<1> QED
  BY <1>1, AlwaysFaithful, PTL
==============================================================================

---------------------------- MODULE MediaProgress ----------------------------
(***************************************************************************)
(* How the position in one film or recording is kept when several players  *)
(* write it: the player of each open page (playback.rs), the outbox that   *)
(* sends its packets, retries them and journals them in the browser's      *)
(* local storage (progress_outbox.rs), the network, and the server, which  *)
(* accepts, repeats or refuses a packet in one transaction                 *)
(* (save_media_progress, decide_write) and knows nothing of a file that is *)
(* in the trash.                                                           *)
(*                                                                         *)
(* A packet's position stands for its content: it is known by the session  *)
(* (writer) and the sequence number that composed it.  What a packet also  *)
(* says of the listening queue is left out.                                *)
(***************************************************************************)
EXTENDS Naturals, FiniteSets, Bags

CONSTANTS
  Tabs,         \* open pages with a player for the file
  Browser(_),   \* the browser, and so the local storage, of each
  MaxWriters,   \* bound: sessions each tab begins
  MaxPackets,   \* bound: packets each tab composes
  MaxFaults,    \* bound: requests or answers lost, packets turned away, trashings, together
  MaxTurns,     \* bound: seeks, new plays, reloads and the like, together
  Conflict,     \* the answer 409
  Missing,      \* the answer 404; the outbox treats 400, 403 and 410 as it does 404
  None

Writers  == UNION {{t} \X (1..MaxWriters[t]) : t \in Tabs}
Browsers == {Browser(t) : t \in Tabs}
Packets  == [writer : Writers, seq : Nat, base : Nat]
Records  == [rev : Nat, writer : Writers \cup {None}, seq : Nat]
Requests == [from : Tabs, pkt : Packets]

ASSUME BoundsAssumption ==
  /\ MaxWriters \in [Tabs -> Nat \ {0}]
  /\ MaxPackets \in [Tabs -> Nat] /\ {MaxFaults, MaxTurns} \subseteq Nat

VARIABLES
  rec,       \* the media_progress row
  trashed,   \* the file is in the trash, or purged from it when it never comes back
  net,       \* requests on their way, a bag: a retry does not recall the first copy
  player,    \* PlaybackProgress of each tab
  fetch,     \* the row as its load, or else its poll, has found it
  outbox,    \* PENDING of each tab: the entry of each writer
  stored,    \* the journals in each browser's local storage
  faults, turns,
  composed,  \* packets composed by each tab
  taken,     \* ghost: the last sequence the server has accepted of each writer
  last,      \* ghost: the last sequence composed of each writer
  doomed,    \* ghost: what a writer had composed when another took over
  discarded  \* ghost: the writers whose last journal an error answer has removed

file == <<rec, trashed>>
local == <<player, fetch, composed, last, discarded>>
packets == <<net, outbox, stored, composed, last, discarded>>
ghosts == <<taken, doomed>>
vars == <<rec, trashed, net, player, fetch, outbox, stored, faults, turns, composed,
          taken, last, doomed, discarded>>

Players ==
  [view : Records \cup {None}, writer : Writers, seq : Nat, changed : BOOLEAN,
   fenced : BOOLEAN, ready : BOOLEAN, pending : BOOLEAN, latest : BOOLEAN,
   loading : BOOLEAN]

\* The statuses that end an entry without the server having taken it.
Errors == {Conflict, Missing}

\* sent: the copy of the journal that is on its way, when the entry is busy
Entries ==
  [journal : Packets, sent : Packets \cup {None},
   answer : Records \cup {None, Conflict, Missing}]

\* No entry, no packet and no answer are none of those there are.
ASSUME NoneAssumption ==
  /\ None \notin Writers \cup Packets \cup Records \cup Entries
  /\ Errors \cap (Records \cup {None}) = {} /\ Conflict # Missing

EmptyRec == [rev |-> 0, writer |-> None, seq |-> 0]

NewPlayer(w) ==
  [view |-> None, writer |-> w, seq |-> 0, changed |-> FALSE, fenced |-> FALSE,
   ready |-> FALSE, pending |-> FALSE, latest |-> FALSE, loading |-> TRUE]

Init ==
  /\ rec = EmptyRec /\ trashed = FALSE /\ net = EmptyBag
  /\ player = [t \in Tabs |-> NewPlayer(<<t, 1>>)]
  /\ fetch = [t \in Tabs |-> None]
  /\ outbox = [t \in Tabs |-> [w \in Writers |-> None]]
  /\ stored = [b \in Browsers |-> [w \in Writers |-> None]]
  /\ faults = 0 /\ turns = 0 /\ composed = [t \in Tabs |-> 0]
  /\ taken = [w \in Writers |-> 0] /\ last = [w \in Writers |-> 0]
  /\ doomed = [w \in Writers |-> 0] /\ discarded = {}

-----------------------------------------------------------------------------
(* The server.                                                             *)

\* Mutant: a new session need not have seen the latest row.
LooseBase(r, p) ==
  CASE r.writer = p.writer /\ p.seq > r.seq   -> "accept"
    [] r.writer = p.writer /\ p.seq <= r.seq  -> "duplicate"
    [] r.writer # p.writer /\ p.base <= r.rev -> "accept"
    [] OTHER                                  -> "conflict"

decide_write(r, p) ==
  CASE r.writer = p.writer /\ p.seq > r.seq  -> "accept"
    [] r.writer = p.writer /\ p.seq <= r.seq -> "duplicate"
    [] r.writer # p.writer /\ p.base = r.rev -> "accept"
    [] OTHER                                 -> "conflict"

Saved(p) == [rev |-> rec.rev + 1, writer |-> p.writer, seq |-> p.seq]

Accepted(p) ==
  /\ rec' = Saved(p)
  /\ taken' = [taken EXCEPT ![p.writer] = p.seq]
  /\ doomed' = [w \in Writers |->
                  IF w = rec.writer /\ w # p.writer THEN last[w] ELSE doomed[w]]

Decided(p, verdict) ==
  \/ verdict = "accept" /\ Accepted(p)
  \/ verdict # "accept" /\ UNCHANGED <<rec, ghosts>>

\* Mutant: a repeated packet is echoed instead of the row that stands.
Echoed(p, verdict) ==
  CASE verdict = "accept"    -> Saved(p)
    [] verdict = "duplicate" -> p
    [] verdict = "conflict"  -> Conflict

Answer(p, verdict) ==
  CASE verdict = "accept"    -> Saved(p)
    [] verdict = "duplicate" -> rec
    [] verdict = "conflict"  -> Conflict

Awaits(q) ==
  LET e == outbox[q.from][q.pkt.writer]
  IN e # None /\ e.sent = q.pkt /\ e.answer = None

\* The transaction of save_media_progress; q's sender hears what it decided.
Serve(q) ==
  LET verdict == decide_write(rec, q.pkt)
  IN /\ Awaits(q) /\ ~trashed
     /\ net' = net (-) SetToBag({q})
     /\ Decided(q.pkt, verdict)
     /\ outbox' = [outbox EXCEPT ![q.from][q.pkt.writer].answer = Answer(q.pkt, verdict)]
     /\ UNCHANGED <<trashed, local, stored, faults, turns>>

\* require_media_file, before the transaction or in it; or a guard before the handler.
TurnAway(q) ==
  /\ Awaits(q)
  /\ \/ trashed /\ UNCHANGED faults
     \/ ~trashed /\ faults < MaxFaults /\ faults' = faults + 1
  /\ net' = net (-) SetToBag({q})
  /\ outbox' = [outbox EXCEPT ![q.from][q.pkt.writer].answer = Missing]
  /\ UNCHANGED <<file, local, stored, turns, ghosts>>

\* Nobody waits any more for this copy, or the answer is lost on its way.
ServeUnheard(q) ==
  /\ \/ (~Awaits(q) \/ net[q] > 1) /\ UNCHANGED faults
     \/ Awaits(q) /\ faults < MaxFaults /\ faults' = faults + 1
  /\ net' = net (-) SetToBag({q})
  /\ \/ ~trashed /\ Decided(q.pkt, decide_write(rec, q.pkt))
     \/ trashed /\ UNCHANGED <<rec, ghosts>>
  /\ UNCHANGED <<trashed, local, outbox, stored, turns>>

LoseRequest(q) ==
  /\ faults < MaxFaults /\ faults' = faults + 1
  /\ net' = net (-) SetToBag({q})
  /\ UNCHANGED <<file, local, outbox, stored, turns, ghosts>>

\* The file goes to the trash, or comes back with the row it had.
Trash ==
  /\ ~trashed /\ faults < MaxFaults /\ faults' = faults + 1
  /\ trashed' = TRUE
  /\ UNCHANGED <<rec, net, local, outbox, stored, turns, ghosts>>

Untrash ==
  /\ trashed /\ trashed' = FALSE
  /\ UNCHANGED <<rec, net, local, outbox, stored, faults, turns, ghosts>>

-----------------------------------------------------------------------------
(* The outbox.                                                             *)

Waiting(t, w) == outbox[t][w] # None /\ outbox[t][w].sent # None

Busy(p)   == [journal |-> p, sent |-> p, answer |-> None]
Post(t, p) == SetToBag({[from |-> t, pkt |-> p]})

\* enqueue_journal and send; a busy entry finds the newer journal when it is answered.
Enqueue(t, p) ==
  /\ \/ /\ Waiting(t, p.writer)
        /\ outbox' = [outbox EXCEPT ![t][p.writer].journal = p] /\ UNCHANGED net
     \/ /\ ~Waiting(t, p.writer)
        /\ outbox' = [outbox EXCEPT ![t][p.writer] = Busy(p)] /\ net' = net (+) Post(t, p)
  /\ stored' = [stored EXCEPT ![Browser(t)][p.writer] = p]
  /\ discarded' = discarded \ {p.writer}

\* The retry timer, or the "online" event: send again, what is newest by now.
Retry(t, w) ==
  /\ outbox[t][w] # None /\ ~Waiting(t, w)
  /\ outbox' = [outbox EXCEPT ![t][w].sent = outbox[t][w].journal]
  /\ net' = net (+) Post(t, outbox[t][w].journal)
  /\ UNCHANGED <<file, local, stored, faults, turns, ghosts>>

\* The request fails with no answer, or with one that does not end the entry (401,
\* 429, 5xx): its timer, the "online" event or the next packet sends it again.
Fail(t, w) ==
  LET e == outbox[t][w]
      q == [from |-> t, pkt |-> e.sent]
  IN /\ Waiting(t, w) /\ e.answer = None
     /\ \/ ~BagIn(q, net) /\ UNCHANGED faults
        \/ BagIn(q, net) /\ faults < MaxFaults /\ faults' = faults + 1
     /\ outbox' = [outbox EXCEPT ![t][w] = [e EXCEPT !.sent = None]]
     /\ UNCHANGED <<file, net, local, stored, turns, ghosts>>

\* The later of the row the player knows and the one it is told of.
Later(view, r) == IF view = None \/ view.rev < r.rev THEN r ELSE view

\* Mutant: the callback of a refused packet leaves the player open for writing.
NeverFenced(t, e) ==
  LET pl == player[t]
  IN IF pl.writer # e.sent.writer THEN pl
     ELSE IF e.answer = Conflict THEN [pl EXCEPT !.changed = FALSE]
     ELSE IF e.answer = Missing THEN pl
     ELSE [pl EXCEPT !.view = Later(@, e.answer), !.changed = @ /\ pl.seq # e.sent.seq]

\* The callback of flush_latest; it is not about a session the player has left, and
\* an error other than a conflict leaves the player as it is: open, and with `changed`
\* still set.
Notified(t, e) ==
  LET pl == player[t]
  IN IF pl.writer # e.sent.writer THEN pl
     ELSE IF e.answer = Conflict THEN [pl EXCEPT !.fenced = TRUE, !.changed = FALSE]
     ELSE IF e.answer = Missing THEN pl
     ELSE [pl EXCEPT !.view = Later(@, e.answer), !.changed = @ /\ pl.seq # e.sent.seq]

\* The loop goes round again: a newer journal was enqueued meanwhile.
Again(e) == e.answer \notin Errors /\ e.journal.seq > e.sent.seq

\* Mutant: an answered packet takes whatever is journalled with it.
AnyJournal(t, w, e) == TRUE

\* Another tab may have journalled more; an answer covers what it says it covers, but
\* an error takes the journal with it whatever it is by then.
Removable(t, w, e) ==
  LET kept == stored[Browser(t)][w]
  IN e.answer \in Errors \/ (kept # None /\ kept.seq <= e.answer.seq)

Answered(t, w) ==
  LET e == outbox[t][w]
  IN /\ Waiting(t, w) /\ e.answer # None
     /\ player' = [player EXCEPT ![t] = Notified(t, e)]
     /\ \/ /\ Again(e)
           /\ outbox' = [outbox EXCEPT ![t][w] = [e EXCEPT !.sent = e.journal, !.answer = None]]
           /\ net' = net (+) Post(t, e.journal)
           /\ UNCHANGED <<stored, discarded>>
        \/ /\ ~Again(e)
           /\ outbox' = [outbox EXCEPT ![t][w] = None]
           /\ stored' = IF Removable(t, w, e)
                          THEN [stored EXCEPT ![Browser(t)][w] = None] ELSE stored
           /\ discarded' = IF e.answer \in Errors THEN discarded \cup {w} ELSE discarded
           /\ UNCHANGED net
     /\ UNCHANGED <<file, fetch, composed, last, faults, turns, ghosts>>

-----------------------------------------------------------------------------
(* The player.                                                             *)

CanFlush(pl) == pl.changed /\ ~pl.fenced /\ pl.view # None /\ pl.latest

Compose(t) == composed[t] < MaxPackets[t] /\ composed' = [composed EXCEPT ![t] = @ + 1]

\* flush_latest, by a player that is pl by now.
Flushed(t, pl) ==
  /\ Compose(t)
  /\ Enqueue(t, [writer |-> pl.writer, seq |-> pl.seq + 1, base |-> pl.view.rev])
  /\ last' = [last EXCEPT ![pl.writer] = pl.seq + 1]

\* persist_progress, for a player that goes on as pl.
Persisted(t, pl) ==
  \/ /\ CanFlush(pl) /\ Flushed(t, pl)
     /\ player' = [player EXCEPT ![t] = [pl EXCEPT !.seq = @ + 1]]
  \/ /\ ~CanFlush(pl) /\ UNCHANGED packets
     /\ player' = [player EXCEPT ![t] = pl]

HasWriter(t)  == player[t].writer[2] < MaxWriters[t]
NextWriter(t) == <<t, player[t].writer[2] + 1>>

\* `intent`: what the user does with a fenced player begins a session of its own.
Intended(t) ==
  IF player[t].fenced
    THEN [player[t] EXCEPT !.writer = NextWriter(t), !.seq = 0, !.fenced = FALSE]
    ELSE player[t]

Turn == turns < MaxTurns /\ turns' = turns + 1

\* The clock has moved and the player saves.
Play(t) ==
  /\ player[t].ready /\ ~player[t].fenced
  /\ Persisted(t, [player[t] EXCEPT !.changed = TRUE, !.latest = TRUE])
  /\ UNCHANGED <<file, fetch, faults, turns, ghosts>>

\* accept_seek and the save that follows it.
Seek(t) ==
  /\ Turn /\ (player[t].fenced => HasWriter(t))
  /\ Persisted(t, [Intended(t) EXCEPT !.pending = FALSE, !.ready = TRUE, !.changed = TRUE,
                                     !.latest = TRUE])
  /\ UNCHANGED <<file, fetch, faults, ghosts>>

\* The play button of a fenced player.
Intent(t) ==
  /\ player[t].fenced /\ HasWriter(t) /\ Turn
  /\ player' = [player EXCEPT ![t] = Intended(t)]
  /\ UNCHANGED <<file, fetch, packets, faults, ghosts>>

\* The media element is ready and the position to begin at is known.
Restore(t) ==
  /\ ~player[t].ready /\ player[t].pending
  /\ player' = [player EXCEPT ![t].ready = TRUE, ![t].pending = FALSE]
  /\ UNCHANGED <<file, fetch, packets, faults, turns, ghosts>>

\* The save of a player that goes away or plays something else.
LastSave(t) == IF player[t].ready /\ ~player[t].fenced
                 THEN [player[t] EXCEPT !.latest = TRUE] ELSE player[t]

\* pl saves for the last time and the player begins as next.
Left(t, pl, next) ==
  /\ \/ CanFlush(pl) /\ pl.ready /\ Flushed(t, pl)
     \/ ~(CanFlush(pl) /\ pl.ready) /\ UNCHANGED packets
  /\ player' = [player EXCEPT ![t] = next]
  /\ fetch' = [fetch EXCEPT ![t] = None]

\* Mutant: a replay numbers its packets from one again.
FromOne(pl) == 0

\* What a replay has used up: the last save's number and one nobody composes.
Reloaded(pl) == pl.seq + (IF CanFlush(pl) /\ pl.ready THEN 2 ELSE 1)

\* The same file is played again (prepare, reload): the writer stays.
Replay(t, restart) ==
  LET pl     == LastSave(t)
      resume == restart \/ player[t].ready
  IN /\ Turn
     /\ Left(t, pl, [NewPlayer(pl.writer) EXCEPT !.seq = Reloaded(pl), !.pending = resume,
                                                 !.changed = resume])
     /\ UNCHANGED <<file, faults, ghosts>>

\* The player is closed and opened again (reset).
Reopen(t) ==
  /\ HasWriter(t) /\ Turn
  /\ Left(t, LastSave(t), NewPlayer(NextWriter(t)))
  /\ UNCHANGED <<file, faults, ghosts>>

\* The page is gone and loaded again: `initialize` sends what was journalled.
Restart(t) ==
  /\ HasWriter(t) /\ Turn
  /\ player' = [player EXCEPT ![t] = NewPlayer(NextWriter(t))]
  /\ fetch' = [fetch EXCEPT ![t] = None]
  /\ outbox' = [outbox EXCEPT ![t] = [w \in Writers |->
       LET p == stored[Browser(t)][w] IN IF p = None THEN None ELSE Busy(p)]]
  /\ net' = net (+) SetToBag({[from |-> t, pkt |-> p] :
                                p \in {stored[Browser(t)][w] : w \in Writers} \ {None}})
  /\ UNCHANGED <<file, stored, composed, last, discarded, faults, ghosts>>

-----------------------------------------------------------------------------
(* What the player reads.  A reading is the row when the server answers,   *)
(* and there is none of a file in the trash.                               *)

LoadRead(t) ==
  /\ player[t].loading /\ fetch[t] = None /\ ~trashed
  /\ fetch' = [fetch EXCEPT ![t] = rec]
  /\ UNCHANGED <<file, player, packets, faults, turns, ghosts>>

\* A load that fails leaves the player closed until the next poll tries again.
LoadFails(t) ==
  /\ player[t].loading
  /\ \/ trashed /\ fetch[t] = None /\ UNCHANGED faults
     \/ faults < MaxFaults /\ faults' = faults + 1
  /\ player' = [player EXCEPT ![t].loading = FALSE]
  /\ fetch' = [fetch EXCEPT ![t] = None]
  /\ UNCHANGED <<file, packets, turns, ghosts>>

\* The player already knows a later row than r.
Outdated(pl, r) == pl.view # None /\ pl.view.rev > r.rev

\* The end of `load`; what has been sought meanwhile is saved now.
Loaded(t) ==
  LET r  == fetch[t]
      pl == [player[t] EXCEPT !.loading = FALSE]
  IN /\ player[t].loading /\ r # None
     /\ fetch' = [fetch EXCEPT ![t] = None]
     /\ \/ /\ Outdated(pl, r)
           /\ player' = [player EXCEPT ![t] = pl]
           /\ UNCHANGED packets
        \/ /\ ~Outdated(pl, r) /\ pl.ready
           /\ Persisted(t, [pl EXCEPT !.view = r])
        \/ /\ ~Outdated(pl, r) /\ ~pl.ready
           /\ player' = [player EXCEPT ![t] = [pl EXCEPT !.view = r, !.pending = TRUE]]
           /\ UNCHANGED packets
     /\ UNCHANGED <<file, faults, turns, ghosts>>

\* watch_progress: a player that knows no row yet loads it, one that does polls.
PollLoads(t) ==
  /\ player[t].view = None /\ ~player[t].loading /\ fetch[t] = None
  /\ player' = [player EXCEPT ![t].loading = TRUE]
  /\ UNCHANGED <<file, fetch, packets, faults, turns, ghosts>>

\* A poll that finds nothing new changes nothing (receive_remote) and is left out.
PollRead(t) ==
  /\ player[t].view # None /\ ~player[t].loading /\ fetch[t] = None /\ ~trashed
  /\ rec.rev > player[t].view.rev
  /\ fetch' = [fetch EXCEPT ![t] = rec]
  /\ UNCHANGED <<file, player, packets, faults, turns, ghosts>>

\* receive_remote: another session's news closes the player until the user acts.
Received(pl, r) ==
  IF pl.view # None /\ pl.view.rev >= r.rev THEN pl
  ELSE IF r.writer = pl.writer THEN [pl EXCEPT !.view = r]
  ELSE [pl EXCEPT !.view = r, !.changed = FALSE, !.latest = FALSE, !.fenced = TRUE,
                  !.ready = FALSE, !.pending = TRUE]

Polled(t) ==
  /\ ~player[t].loading /\ fetch[t] # None
  /\ player' = [player EXCEPT ![t] = Received(@, fetch[t])]
  /\ fetch' = [fetch EXCEPT ![t] = None]
  /\ UNCHANGED <<file, packets, faults, turns, ghosts>>

-----------------------------------------------------------------------------
Server == \/ Trash \/ Untrash
          \/ \E q \in BagToSet(net) :
               Serve(q) \/ TurnAway(q) \/ ServeUnheard(q) \/ LoseRequest(q)

Outbox(t) == \E w \in Writers : Retry(t, w) \/ Fail(t, w) \/ Answered(t, w)

User(t) == \/ Play(t)
           \/ Seek(t) \/ Intent(t) \/ Reopen(t) \/ Restart(t)
           \/ \E restart \in BOOLEAN : Replay(t, restart)

Reads(t) == \/ Restore(t) \/ LoadRead(t) \/ LoadFails(t) \/ Loaded(t)
            \/ PollLoads(t) \/ PollRead(t) \/ Polled(t)

Next == Server \/ \E t \in Tabs : Outbox(t) \/ User(t) \/ Reads(t)

Spec == Init /\ [][Next]_vars

-----------------------------------------------------------------------------
(* Properties.                                                             *)

\* Every variable keeps its type.
TypeOK ==
  /\ rec \in Records /\ trashed \in BOOLEAN
  /\ BagToSet(net) \subseteq Requests
  /\ player \in [Tabs -> Players] /\ last \in [Writers -> Nat]
  /\ fetch \in [Tabs -> Records \cup {None}]
  /\ outbox \in [Tabs -> [Writers -> Entries \cup {None}]]
  /\ stored \in [Browsers -> [Writers -> Packets \cup {None}]]
  /\ faults \in 0..MaxFaults /\ turns \in 0..MaxTurns /\ composed \in [Tabs -> Nat]
  /\ taken \in [Writers -> Nat] /\ doomed \in [Writers -> Nat] /\ discarded \subseteq Writers

\* A session's position never goes back: whatever is retried, duplicated or
\* reordered, also across another session's turn, the server takes the packets
\* of a session in the order the player composed them (progress.rs:182-210).
NeverRewinds ==
  [][\A w \in Writers : rec' # rec /\ rec'.writer = w => rec'.seq > taken[w]]_vars

\* Once another session has taken over, nothing that was composed before it did
\* is accepted any more (progress.rs:111-112: a delayed packet cannot reacquire).
LateStaysOut ==
  [][rec' # rec /\ rec'.writer # None => rec'.seq > doomed[rec'.writer]]_vars

\* A player whose dirty flag is down is saved: while it is open for writing and has
\* nothing to send, the server has taken the last packet it composed, whichever
\* answers came late, to an earlier play or not at all.  What a 400, 403, 404 or 410
\* has dropped keeps the flag up, so the next save sends it again
\* (playback.rs:281-340).
QuietMeansSaved ==
  \A t \in Tabs :
    player[t].latest /\ ~player[t].fenced /\ ~player[t].changed =>
      taken[player[t].writer] >= last[player[t].writer]

\* A page may be lost at any time: the last packet of each session that the server
\* has not taken is in its browser's journal, also when the answers to several tabs
\* that send it cross (progress_outbox.rs:1).  Exempt are the sessions of which an
\* error answer has removed the journal since: the outbox removes it without a look
\* at what it holds, so a 409 or 404 to an old copy takes a newer packet with it.
JournalSurvives ==
  \A w \in Writers :
    last[w] > taken[w] /\ w \notin discarded =>
      /\ stored[Browser(w[1])][w] # None
      /\ stored[Browser(w[1])][w].seq = last[w]

=============================================================================

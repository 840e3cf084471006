-------------------------- MODULE UploadPublication --------------------------
(***************************************************************************)
(* What an upload session promises its client, without requests, locks or  *)
(* files: bytes are accepted once per key while the session is open,       *)
(* completion closes it, and what is published is what had been accepted.  *)
(* UploadSession is shown to implement it.                                 *)
(***************************************************************************)
CONSTANTS Keys, Payloads, None

VARIABLES phase, accepted, published

vars == <<phase, accepted, published>>

Nothing == [k \in Keys |-> None]

Init == phase = "open" /\ accepted = Nothing /\ published = Nothing

\* A key takes its bytes once; a retry of the same bytes changes nothing.
Accept(k, c) ==
  /\ phase = "open" /\ accepted[k] = None
  /\ accepted' = [accepted EXCEPT ![k] = c]
  /\ UNCHANGED <<phase, published>>

\* Completion keeps every accepted key; a client may complete with bytes that
\* were stored but never acknowledged, which are adopted now.
Close ==
  /\ phase = "open" /\ phase' = "closed"
  /\ \E adopted \in [Keys -> Payloads \cup {None}] :
       accepted' = [k \in Keys |-> IF accepted[k] # None THEN accepted[k]
                                                         ELSE adopted[k]]
  /\ UNCHANGED published

Publish ==
  /\ phase = "closed" /\ phase' = "published"
  /\ published' = accepted
  /\ UNCHANGED accepted

Discard ==
  /\ phase \in {"open", "closed"} /\ phase' = "discarded"
  /\ accepted' = Nothing
  /\ UNCHANGED published

Next == \/ \E k \in Keys, c \in Payloads : Accept(k, c)
        \/ Close \/ Publish \/ Discard

Spec == Init /\ [][Next]_vars
=============================================================================

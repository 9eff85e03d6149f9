----------------------------- MODULE CommitReveal -----------------------------
(***************************************************************************)
(* What one randomness consumer of the engine is promised, whatever the      *)
(* session around it does: entries gather in an open batch, a request        *)
(* commits the batch before its word exists, the word that settles it is     *)
(* the one the latest sending of that request drew, and nothing is committed *)
(* over a batch that has not been settled.                                   *)
(*                                                                         *)
(* A batch is the stamp of its latest entry (0: empty), as in GameState.     *)
(***************************************************************************)
EXTENDS Integers

VARIABLES
  open,    \* the batch entries join
  sealed,  \* the batch committed to the request
  asked,   \* the number of the request's latest sending
  word,    \* the word of the session, 0 until it may be used
  stage    \* "idle", "asked", "drawn" or "ended"

vars == <<open, sealed, asked, word, stage>>

Init ==
  /\ open = 0 /\ sealed = 0 /\ asked \in Nat /\ word = asked /\ stage = "idle"

Enter ==
  /\ stage # "ended" /\ open' > asked
  /\ UNCHANGED <<sealed, asked, word, stage>>

Commit ==
  /\ stage = "idle" /\ sealed = 0
  /\ sealed' = open /\ open' = 0
  /\ asked' > asked /\ sealed' <= asked' /\ word' = 0 /\ stage' = "asked"

\* The same request, sent again: the committed batch and its stage stay.
Resend ==
  /\ stage = "asked" /\ asked' > asked
  /\ UNCHANGED <<open, sealed, word, stage>>

Draw ==
  /\ stage = "asked" /\ word' = asked /\ stage' = "drawn"
  /\ UNCHANGED <<open, sealed, asked>>

Settle ==
  /\ stage = "drawn" /\ sealed # 0 /\ sealed <= word /\ sealed' = 0
  /\ stage' \in {"drawn", "idle"}
  /\ UNCHANGED <<open, asked, word>>

\* The other consumers of the session have settled too.
Finish ==
  /\ stage = "drawn" /\ sealed = 0 /\ stage' = "idle"
  /\ UNCHANGED <<open, sealed, asked, word>>

End ==
  /\ stage # "ended" /\ stage' = "ended"
  /\ UNCHANGED <<open, sealed, asked, word>>

\* After an ending nothing settles: what is left may only be set aside together.
SetAside ==
  /\ stage = "ended" /\ UNCHANGED stage
  /\ <<sealed', open'>> \in {<<sealed, open>>, <<open, 0>>}
  /\ asked' \in Nat /\ word' \in Nat

Next == Enter \/ Commit \/ Resend \/ Draw \/ Settle \/ Finish \/ End \/ SetAside

Spec == Init /\ [][Next]_vars
=============================================================================

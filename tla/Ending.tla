------------------------------- MODULE Ending -------------------------------
(***************************************************************************)
(* The two endings of GameOverModule.  The normal one (the purchase phase    *)
(* ran out of days) settles every loan, drops or drains what an earlier      *)
(* request left, asks the VRF for a word of its own, draws the terminal      *)
(* ticket cohort on it and pays.  The deterministic one (no day completed,   *)
(* or a request unusable, for DeadTimeout) reads no word at all.             *)
(*                                                                         *)
(* As in DailyPhase, a call that only advances a tally, a drain or a payout  *)
(* is a stuttering step.                                                    *)
(***************************************************************************)
EXTENDS DailyPhase

Terminal == NextMinerAction = "Terminal"
DrainLevel == GameOverTicketLevel

\* Loan settlement owed by an ending decided with VRF alive runs alone, unless VRF dies.
SettlingLoans == go.loans /\ EndingReason # "HardStall"

NormalEnding == Terminal /\ ~go.over /\ ~SettlingLoans /\ EndingReason = "PurchaseTimeout"
DeadEnding == Terminal /\ ~go.over /\ EndingReason = "HardStall"

\* The first terminal call latches the drain level, retires the day's unpaid parts, and turns
\* off the read consumers.
LatchLevel == IF DrainLevel = ph.level THEN 1 ELSE 2
EnterTerminal(r) == [r EXCEPT !.terminal = TRUE, !.day = 0]

\* _latchDeadEnding: callback authority is revoked and any word discarded.
DropWord(r) == [r EXCEPT !.id = 0, !.active = FALSE, !.published = FALSE, !.word = 0]

-----------------------------------------------------------------------------

TerminalEnter ==
  /\ NormalEnding /\ go.lvl = 0
  /\ go' = [go EXCEPT !.lvl = LatchLevel, !.loans = TRUE]
  /\ rng' = EnterTerminal(rng)
  /\ legs' = NoLegs
  /\ UNCHANGED <<clock, daily, vrf, work, tix, ph>>

TerminalLoans ==
  /\ Terminal /\ SettlingLoans
  /\ go' = [go EXCEPT !.loans = FALSE]
  /\ ph' = [ph EXCEPT !.loansDue = FALSE]
  /\ UNCHANGED <<clock, daily, rng, vrf, work, tix, legs>>

\* A hard stall latches the deterministic ending, on the first terminal call or later.
DeadLatch ==
  /\ DeadEnding /\ ~go.dead
  /\ go' = [go EXCEPT !.dead = TRUE, !.loans = FALSE, !.lvl = IF @ = 0 THEN LatchLevel ELSE @]
  /\ rng' = DropWord(IF go.lvl = 0 THEN EnterTerminal(rng) ELSE rng)
  /\ legs' = IF go.lvl = 0 THEN NoLegs ELSE legs
  /\ UNCHANGED <<clock, daily, vrf, work, tix, ph>>

\* _handleGameOverDrain: pools and pending pools are zeroed, the freeze with them.
Drained(p) == [p EXCEPT !.met = FALSE, !.pendingMet = FALSE, !.frozen = FALSE]
FinishTerminalPayout(g) == [g EXCEPT !.over = TRUE, !.paid = TRUE]

DeadPay ==
  /\ DeadEnding /\ go.dead
  /\ go' = FinishTerminalPayout(go)
  /\ ph' = Drained(ph)
  /\ clock' = [clock EXCEPT !.ended = 0]
  /\ UNCHANGED <<daily, rng, vrf, work, tix, legs>>

-----------------------------------------------------------------------------
(* The normal ending.                                                       *)

BeforeTerminalRequest == rng.active /\ ~go.swap

\* Mutant: drops the word but leaves the request open.
DropPreFreezeKeepsRequest ==
  /\ NormalEnding /\ go.lvl # 0 /\ BeforeTerminalRequest /\ rng.word # 0
  /\ rng' = [rng EXCEPT !.published = TRUE, !.id = 0, !.locked = FALSE,
                        !.nudges = IF rng.locked THEN 0 ELSE @]
  /\ UNCHANGED <<clock, daily, vrf, work, tix, ph, legs, go>>

\* A request from before the freeze never supplies the terminal word: once answered it publishes
\* for the cohort it committed and is dropped with its day.
DropPreFreeze ==
  /\ NormalEnding /\ go.lvl # 0 /\ BeforeTerminalRequest /\ rng.word # 0
  /\ rng' = [rng EXCEPT !.published = TRUE, !.id = 0, !.active = FALSE, !.locked = FALSE,
                        !.nudges = IF rng.locked THEN 0 ELSE @]
  /\ UNCHANGED <<clock, daily, vrf, work, tix, ph, legs, go>>

TerminalWordApplied == rng.day # 0 /\ rng.active /\ rng.published /\ go.swap

AwaitsTerminalRequest ==
  NormalEnding /\ go.lvl # 0 /\ ~rng.active /\ ~TerminalWordApplied

\* Mutant: swaps the ticket slot over a cohort an earlier request committed.
CommittedCohortIgnored == FALSE

\* A cohort an earlier request committed drains on that request's word first.
CommittedCohort == tix.queue[ReadSlot][DrainLevel] # 0 /\ ~go.swap /\ LootboxWord # 0

TerminalDrainCommitted ==
  /\ AwaitsTerminalRequest /\ CommittedCohort
  /\ tix' = [tix EXCEPT !.queue[ReadSlot][DrainLevel] = 0]
  /\ UNCHANGED <<clock, daily, rng, vrf, work, ph, legs, go>>

\* One ticket swap, ever, and only before the terminal request.
TerminalSwap == ~go.swap /\ tix.queue[tix.write][DrainLevel] # 0

\* The first attempt arms the request's day and its timeout; a refusal keeps them, an acceptance
\* seals the session buffers (never the redemption batch) and takes the lock.
Armed == rng.day # 0
ArmTerminal(r) ==
  IF Armed THEN r
  ELSE [r EXCEPT !.day = daily.idx + 1, !.retrySpent = FALSE, !.published = FALSE, !.word = 0]

RequestTerminalRng(accepted) ==
  /\ AwaitsTerminalRequest /\ ~CommittedCohort
  /\ accepted => CanAsk
  /\ ~accepted => ~Armed
  /\ tix' = IF TerminalSwap THEN SwapTicketSlot(tix) ELSE tix
  /\ go' = [go EXCEPT !.swap = TRUE]
  /\ clock' = IF Armed THEN clock ELSE [clock EXCEPT !.request = 0]
  /\ LET r == [ArmTerminal(rng) EXCEPT !.complete = @ /\ ~TerminalSwap]
     IN rng' = IF accepted
               THEN [r EXCEPT !.complete = FALSE, !.published = FALSE, !.word = 0,
                              !.id = Ask, !.active = TRUE, !.locked = TRUE]
               ELSE r
  /\ work' = IF accepted THEN SwapRngBuffers(work) ELSE work
  /\ vrf' = IF accepted THEN AskVrf ELSE vrf
  /\ UNCHANGED <<daily, ph, legs>>

ApplyTerminalRng ==
  /\ NormalEnding /\ go.lvl # 0 /\ go.swap /\ ~TerminalWordApplied /\ rng.active /\ rng.word # 0
  /\ ApplyDailyRng([rng EXCEPT !.published = TRUE], rng.day)
  /\ UNCHANGED <<vrf, work, tix, ph, legs, go>>

TerminalDrainBatch ==
  /\ NormalEnding /\ TerminalWordApplied /\ tix.queue[ReadSlot][DrainLevel] # 0
  /\ tix' = [tix EXCEPT !.queue[ReadSlot][DrainLevel] = 0]
  /\ UNCHANGED <<clock, daily, rng, vrf, work, ph, legs, go>>

\* The draw may need further calls (kind 3); with nothing to distribute it is paid at once.
PayTerminal(paid) ==
  /\ go' = [go EXCEPT !.over = TRUE, !.paid = paid]
  /\ ph' = Drained(ph)
  /\ legs' = [legs EXCEPT !.kind = IF paid THEN 0 ELSE 3]
  /\ IF paid THEN /\ rng' = [Unlocked EXCEPT !.complete = @ \/ ConsumersComplete(work)]
                  /\ clock' = [clock EXCEPT !.ended = 0]
     ELSE UNCHANGED <<rng, clock>>
  /\ UNCHANGED <<daily, vrf, work, tix>>

TerminalPay ==
  /\ NormalEnding /\ TerminalWordApplied /\ tix.queue[ReadSlot][DrainLevel] = 0
  /\ \E paid \in BOOLEAN : PayTerminal(paid)

ResumeTerminalPayout == Terminal /\ go.over /\ ~go.paid /\ PayTerminal(TRUE)

FinalSweep ==
  /\ Terminal /\ go.over /\ go.paid
  /\ go' = [go EXCEPT !.swept = TRUE]
  /\ UNCHANGED <<clock, daily, rng, vrf, work, tix, ph, legs>>

TerminalWork == TerminalEnter \/ TerminalLoans \/ DeadLatch \/ DeadPay \/ DropPreFreeze
  \/ TerminalDrainCommitted \/ ApplyTerminalRng \/ TerminalDrainBatch \/ TerminalPay
  \/ ResumeTerminalPayout \/ FinalSweep
=============================================================================

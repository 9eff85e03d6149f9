----------------------------- MODULE MiningEngine -----------------------------
(***************************************************************************)
(* The whole engine: players, time, the VRF coordinator, the vault owner's   *)
(* recoveries and the permissionless mining call, interleaved.              *)
(*                                                                         *)
(* Every action is one transaction (or one bounded worker of a mineFlip     *)
(* call); a transaction that reverts is a stuttering step.                   *)
(***************************************************************************)
EXTENDS Ending

\* Mutant: takes entries after an ending was decided.
OpenForever(kind) == kind \in Inputs

Open(kind) == kind \in Inputs /\ Live

-----------------------------------------------------------------------------
(* Player entries.  Everything a session will settle joins a write buffer.   *)

\* _addPrizeContribution: money that arrives under the freeze waits for the unlock.
AddPrizeContribution(p, met) ==
  IF ~met THEN p ELSE IF p.frozen THEN [p EXCEPT !.pendingMet = TRUE] ELSE [p EXCEPT !.met = TRUE]

Contributes == \E met \in {FALSE, MayMeet} : ph' = AddPrizeContribution(ph, met)

\* Mutant: the box joins the sealed buffer.
BuyBoxSealed ==
  /\ Open("box") /\ work' = [work EXCEPT !.box[ReadBuffer] = Stamp] /\ Contributes
  /\ UNCHANGED <<clock, daily, rng, vrf, tix, legs, go>>

BuyBox ==
  /\ Open("box") /\ work' = [work EXCEPT !.box[work.write] = Stamp] /\ Contributes
  /\ UNCHANGED <<clock, daily, rng, vrf, tix, legs, go>>

PlaceBet ==
  /\ Open("bet") /\ work' = [work EXCEPT !.bet[work.write] = Stamp]
  /\ UNCHANGED <<clock, daily, rng, vrf, tix, ph, legs, go>>

\* A craps window joins the next session through its mirror in the game, which no ending closes.
CrapsWindow ==
  /\ "craps" \in Inputs /\ work' = [work EXCEPT !.craps[work.write] = Stamp]
  /\ UNCHANGED <<clock, daily, rng, vrf, tix, ph, legs, go>>

\* sDGNRS burns before the ending join the open redemption batch.
RequestRedemption ==
  /\ Open("redeem") /\ work' = [work EXCEPT !.open = Stamp]
  /\ UNCHANGED <<clock, daily, rng, vrf, tix, ph, legs, go>>

BuyTicket ==
  /\ Open("ticket") /\ Contributes
  /\ tix' = [tix EXCEPT !.queue[tix.write][ActiveTicketLevel] = Stamp]
  /\ UNCHANGED <<clock, daily, rng, vrf, work, legs, go>>

\* _queueEntries above the ceiling: under the lock only an existing lane may grow.
AdmitsFar(l) == l > MintCeiling /\ (rng.locked => tix.far[l] # 0)

BuyFar(l) ==
  /\ Open("far") /\ AdmitsFar(l)
  /\ tix' = [tix EXCEPT !.far[l] = Stamp]
  /\ UNCHANGED <<clock, daily, rng, vrf, work, ph, legs, go>>

\* Mutant: sells nudges under the daily lock.
NudgeLocked ==
  /\ Open("nudge")
  /\ rng' = [rng EXCEPT !.nudges = Stamp]
  /\ UNCHANGED <<clock, daily, vrf, work, tix, ph, legs, go>>

Nudge ==
  /\ Open("nudge") /\ ~rng.locked
  /\ rng' = [rng EXCEPT !.nudges = Stamp]
  /\ UNCHANGED <<clock, daily, vrf, work, tix, ph, legs, go>>

PlayerEntry ==
  \/ BuyBox \/ PlaceBet \/ CrapsWindow \/ RequestRedemption \/ BuyTicket \/ Nudge
  \/ \E l \in Levels : BuyFar(l)

-----------------------------------------------------------------------------
(* Block time.  Ages saturate where no comparison can tell them apart.       *)

Older(age, bound) == IF age < bound THEN age + 1 ELSE bound

Tick ==
  LET wrap == clock.phase = DayLength - 1
  IN clock' = [phase |-> (clock.phase + 1) % DayLength,
               due |-> clock.due \/ wrap, newDay |-> clock.newDay \/ wrap,
               completed |-> Older(clock.completed, DeadTimeout),
               request |-> Older(clock.request, DeadTimeout),
               vrf |-> Older(clock.vrf, StallThreshold),
               ended |-> IF go.paid THEN Older(clock.ended, SweepDelay) ELSE 0]
  /\ UNCHANGED <<daily, rng, vrf, work, tix, ph, legs, go>>

\* Each call the scheduler can make without asking the coordinator for anything.
MinerStep == PublishRng \/ LiveWork \/ TerminalWork

Requests ==
  RequestDaily \/ RequestMidday \/ \E accepted \in BOOLEAN : RequestTerminalRng(accepted)

Answers ==
  \E a \in vrf.outstanding, reserved \in BOOLEAN : RawFulfillRandomWords(a, reserved)

Recovery == RetryRng \/ UpdateVrfCoordinatorAndSub

Next == MinerStep \/ Requests \/ Answers \/ Recovery \/ PlayerEntry \/ Tick

Spec == Init /\ [][Next]_vars

\* Mining is permissionless and paid for, and block time advances; nobody owes the game an answer,
\* a request, a recovery or a purchase.
FairSpec == Spec /\ WF_vars(MinerStep) /\ WF_vars(Tick)

-----------------------------------------------------------------------------
(* Safety.                                                                  *)

(* A session is certified only when its read cohort is fully settled, so the next request may swap
   the buffers: nothing sealed is dropped by the swap or settles on a later word
   (_certifyRngComplete, _swapRngBuffers, closeRedemptionBatch). *)
CompleteMeansDrained ==
  rng.complete /\ ~rng.terminal =>
    /\ work.human /\ ~work.dec /\ work.settling = 0
    /\ work.box[ReadBuffer] = 0 /\ work.bet[ReadBuffer] = 0 /\ work.craps[ReadBuffer] = 0
    /\ tix.midDay = 0 /\ (tix.processed \/ rng.id = 0)
    /\ ~rng.active /\ ~rng.locked

(* The inductive strengthening behind the settlement theorems.  What a session sealed was made
   before its request was last sent, and a word held is that sending's (_requestVrfWord stores the
   id in the call that seals); stamps never run ahead of the requests sent; a finished box cohort
   is empty; an ending has turned the consumers off (_handleGameOverPath's terminal latch). *)
StampsBounded ==
  /\ \A b \in Buffers : work.box[b] <= Stamp /\ work.bet[b] <= Stamp /\ work.craps[b] <= Stamp
  /\ work.open <= Stamp /\ work.settling <= Stamp /\ work.afking <= Stamp

SealedBeforeRequest ==
  ~rng.complete /\ ~rng.terminal =>
    /\ work.box[ReadBuffer] <= rng.id /\ work.bet[ReadBuffer] <= rng.id
    /\ work.craps[ReadBuffer] <= rng.id
    /\ work.settling <= rng.id /\ work.afking <= rng.id

WordIsRequested == rng.id <= vrf.asks /\ (rng.word # 0 => rng.word = rng.id \/ rng.id = 0)

SettlementInv ==
  /\ CompleteMeansDrained /\ StampsBounded /\ SealedBeforeRequest /\ WordIsRequested
  /\ work.human => work.box[ReadBuffer] = 0
  /\ go.lvl # 0 => rng.terminal

(* While the game is live a miner waits only for an answer of the coordinator: no order of calls
   leaves the session blocked on itself (_nextMinerAction's Wait, _rngConsumerStage's 0). *)
WaitsOnlyForVrf == Live /\ NextMinerAction = "Wait" => rng.active /\ rng.id = vrf.asks /\ rng.word = 0

\* What is selected may depend on the coordinator accepting a request.
AsksCoordinator == NextMinerAction \in {"RequestDaily", "RequestMidday"} \/ AwaitsTerminalRequest

(* Whatever _nextMinerAction selects, some worker accepts: no selected call reverts forever. *)
SelectedWorkRuns ==
  /\ NextMinerAction \notin {"Wait", "Idle"}
  /\ AsksCoordinator => CanAsk
  /\ NextMinerAction = "RequestDaily" => daily.idx < MaxDay
  => ENABLED <<MinerStep \/ Requests>>_vars

(* Boxes, bets, craps seats, redemptions and subscribers' boxes settle on a word that was asked
   for after they were made (_swapRngBuffers, _sealRngWriteBuffer, _pendingBoxCount). *)
SettlesBlind ==
  /\ work'.box[ReadBuffer] = 0 /\ work'.human => work.box[ReadBuffer] <= rng.word \/ work.human
  /\ ~rng'.active /\ work'.bet[ReadBuffer] = 0 => work.bet[ReadBuffer] <= rng.word
  /\ work'.craps[ReadBuffer] = 0 => work.craps[ReadBuffer] <= rng.word
  /\ work'.settling = 0 => work.settling <= rng.word
  /\ work'.afking = 0 => work.afking <= rng.word

ConsumersBlind == [][SettlesBlind]_vars

(* Tickets are generated on a word that was asked for after they were bought, in both buffers, in
   the far pools and in the terminal drain (_swapTicketSlot, _mintCeiling, the RngLocked guard). *)
GeneratesBlind ==
  \A l \in Levels :
    /\ \A b \in Buffers : tix'.queue[b][l] = 0 => tix.queue[b][l] <= rng.word
    /\ tix'.far[l] = 0 => tix.far[l] <= rng.word

TicketsBlind == [][GeneratesBlind]_vars

(* The nudges a daily word is shifted by were bought before it was asked for (reverseFlip's lock). *)
NudgesInTime == daily'.recorded # daily.recorded => rng.nudges <= rng.word

NudgesBlind == [][NudgesInTime]_vars

(* A delivered word is never replaced: only a new session or an ending discards it, whatever late,
   duplicate or orphaned answers arrive (rawFulfillRandomWords, retryRng, the coordinator swap). *)
WordKept == rng.word # 0 => rng'.word \in {0, rng.word}

WordNeverReplaced == [][WordKept]_vars

(* The ring remembers the word the day was drawn on: the running day's is the session's word,
   and a day completes only with its word recorded. *)
RecordedIsDrawn ==
  Live => /\ ~daily.complete => RecordedWord(daily.idx) \in {0, rng.word}
          /\ daily.complete /\ daily.idx > 1 => RecordedWord(daily.idx) # 0
          /\ ~daily.complete /\ ~rng.locked => RecordedWord(daily.idx) = rng.word

(* The day's work is one unit: outside the lock no jackpot part, no transition and no frozen pool
   is left (_unlockRng, the leg-pending bits). *)
DayIsWhole ==
  Live => /\ rng.locked = ph.frozen
          /\ ~rng.locked => legs = NoLegs /\ ~ph.transition
          /\ rng.locked => ~daily.complete

(* Every ticket of a level is generated before the level's final draw has been paid: when the level
   retires, none of it or of an earlier one is left in a buffer or a far pool (_activeTicketLevel,
   _queueEntries, the final request's swap). *)
NoDrawlessTicket ==
  ph.transition => \A l \in Levels :
    l <= ph.level => tix.far[l] = 0 /\ \A b \in Buffers : tix.queue[b][l] = 0

(* A ticket slot is swapped only onto an empty read side: no committed ticket is pushed back among
   the accumulating ones (_swapTicketSlot in the daily, mid-day and terminal requests). *)
SwapsOntoEmpty ==
  tix'.write # tix.write =>
    \A l \in (IF rng.terminal THEN {DrainLevel} ELSE Levels) : tix.queue[ReadSlot][l] = 0

NoTicketStranded == [][SwapsOntoEmpty]_vars

(* A ticket takes part in its level's last draw, whichever buffer or pool it waited in and however
   the requests in between swapped them. *)
EveryTicketDrawn == []NoDrawlessTicket /\ NoTicketStranded

(* From its request to its unlock a day is one undertaking on one word: nothing bought meanwhile
   shifts that word, and lock, freeze, legs and the recorded word end together. *)
DayUndisturbed == [](DayIsWhole /\ RecordedIsDrawn) /\ NudgesBlind

-----------------------------------------------------------------------------
(* Endings.                                                                 *)

(* An ending is irrevocable, and so is a hard stall (_endingReason has no latch of its own before
   the first terminal call). *)
EndingKept ==
  /\ EndingReason # "None" => EndingReason' # "None"
  /\ EndingReason = "HardStall" => EndingReason' = "HardStall"

EndingsStick == [][EndingKept]_vars

(* The terminal draw is paid on a word asked for after every entry the game ever took, and no ticket
   of the drawn level is left out of it; otherwise the ending read no word at all. *)
FairDraw ==
  go'.over /\ ~go.over =>
    \/ go.dead /\ rng.word = 0
    \/ /\ rng.word # 0 /\ ~go.dead
       /\ \A b \in Buffers :
            /\ tix.queue[b][DrainLevel] = 0
            /\ \A s \in {work.box[b], work.bet[b], work.open, work.afking, rng.nudges}
                       \cup {tix.queue[b][l] : l \in Levels} \cup {tix.far[l] : l \in Levels} :
                 s <= rng.word

TerminalDrawFair == [][FairDraw]_vars

(* Once the game is over nothing of it moves but the payout and the sweep, in this order. *)
StaysOver ==
  go.over => /\ <<daily, vrf.asks, work.box, work.bet, tix>>' = <<daily, vrf.asks, work.box, work.bet, tix>>
             /\ go'.paid \/ ~go.paid
             /\ go'.swept => go.paid

OverIsFinal == [][StaysOver]_vars

-----------------------------------------------------------------------------
(* Each consumer of a session implements CommitReveal.                       *)

Stage ==
  IF ~Live THEN "ended" ELSE IF rng.complete THEN "idle"
  ELSE IF rng.published THEN "drawn" ELSE "asked"

Boxes == INSTANCE CommitReveal WITH
  open <- work.box[work.write], sealed <- work.box[ReadBuffer],
  asked <- rng.id, word <- LootboxWord, stage <- Stage

Redemptions == INSTANCE CommitReveal WITH
  open <- work.open, sealed <- work.settling,
  asked <- rng.id, word <- LootboxWord, stage <- Stage

(* Boxes bought at any moment are committed before their word is asked for and settle once on it
   (_appendBoxEntry, _swapRngBuffers, _runHumanBoxWork). *)
BoxesCommitReveal == Boxes!Spec

(* Burns for redemption join a batch that closes with the session's request and settles on its word
   (sDGNRS: _submitGamblingClaimFrom, closeRedemptionBatch, the settlement work). *)
RedemptionsCommitReveal == Redemptions!Spec

(* Both kinds of entries commit, are revealed and settle once, though they share every session. *)
CommitReveals == BoxesCommitReveal /\ RedemptionsCommitReveal

-----------------------------------------------------------------------------
(* Liveness.                                                                *)

(* A requested day completes, or the game ends and pays: no answer, retry or governance is needed. *)
DayEnds == ~daily.complete ~> daily.complete \/ go.paid

(* An ending, once decided, pays out. *)
EndingPays == ~Live ~> go.paid

(* A requested session is certified, with everything it sealed generated and settled, unless the game
   ends: a mid-day one too (_certifyRngComplete, _vrfDead). *)
SealedSettles == ~rng.complete ~> rng.complete \/ ~Live

(* The game never stops for good with work or money in it, whoever stops answering. *)
Progress == DayEnds /\ EndingPays /\ SealedSettles
=============================================================================

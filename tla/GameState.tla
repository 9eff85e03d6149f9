------------------------------ MODULE GameState ------------------------------
(***************************************************************************)
(* The state the Degenerus game engine keeps in DegenerusGameStorage, and   *)
(* the predicates every part of the engine reads it through.                *)
(*                                                                         *)
(* The engine runs one session after another.  A session seals what players *)
(* queued in the write buffers, asks the VRF for a word, publishes the      *)
(* answer and settles every sealed queue on it.  All modules of the engine  *)
(* share the nine variables below; RngSession, DailyPhase and Ending add    *)
(* the actions, MiningEngine puts them together.                            *)
(*                                                                         *)
(* A queue is represented by the stamp of its latest entry: 0 is an empty   *)
(* queue, s > 0 says the last entry was made when s - 1 requests had been    *)
(* sent to the VRF.  The word of request a therefore was unknown to every    *)
(* entry with a stamp of at most a.  A word is represented by the number of  *)
(* the request that drew it, 0 being "waiting".                             *)
(***************************************************************************)
EXTENDS Integers, FiniteSets

CONSTANTS
  DayLength,        \* clock units in a wall day; the last one is the minute before the reset
  RetryTimeout,     \* RNG_RETRY_TIMEOUT (20 hours)
  DeadTimeout,      \* _VRF_DEAD_TIMEOUT (14 days)
  StallThreshold,   \* ADMIN_STALL_THRESHOLD (44 hours)
  SweepDelay,       \* the 30 days between the payout and the final sweep
  PurchaseTimeout,  \* _PURCHASE_TIMEOUT_DAYS (30), in game days
  MainLaunchDay,    \* GameTimeLib.MAIN_LAUNCH_DAY (9)
  JackpotDays,      \* JACKPOT_DAYS (3)
  StartLevel,       \* the level the explored history starts at; 0 is deployment
  Inputs,           \* the kinds of outside input a run explores
  MaxDay,           \* bound: no daily request beyond this day
  MaxLevel,         \* bound: the prize target is not met beyond this level
  MaxAsks           \* bound: the VRF accepts this many requests

InputKinds == {"box", "bet", "craps", "redeem", "ticket", "far", "nudge", "award",
               "afking", "loan", "growth", "decimator", "reserved", "retry", "swap"}

ASSUME ClockAssumption ==
  /\ DayLength \in Nat \ {0, 1} /\ RetryTimeout \in Nat \ {0} /\ DeadTimeout \in Nat
  /\ StallThreshold \in Nat /\ SweepDelay \in Nat \ {0}
  /\ RetryTimeout < DayLength /\ DayLength < StallThreshold /\ StallThreshold < DeadTimeout

ASSUME GameAssumption ==
  /\ PurchaseTimeout \in Nat \ {0} /\ MainLaunchDay \in Nat \ {0} /\ JackpotDays \in Nat \ {0}
  /\ StartLevel \in Nat /\ Inputs \subseteq InputKinds

ASSUME BoundAssumption ==
  MaxDay \in Nat /\ MaxLevel \in Nat /\ MaxAsks \in Nat /\ StartLevel <= MaxLevel

VARIABLES
  clock,  \* the block timestamp, as the ages of the stamps it is compared with
  daily,  \* the logical day, its completion and the two-day ring of recorded words
  rng,    \* the session: flags, request id, word and the nudges waiting for it
  vrf,    \* the external coordinator: requests sent, unanswered and orphaned by a swap
  work,   \* the queues a session's read consumers settle
  tix,    \* the ticket queues and the latches of their double buffer
  ph,     \* level, phase and prize-pool latches
  legs,   \* the pending parts of a day's jackpot
  go      \* the ending

vars == <<clock, daily, rng, vrf, work, tix, ph, legs, go>>

Buffers == 0..1
Levels == StartLevel..(MaxLevel + 2)

SessionQueue == [Buffers -> Nat]
TicketQueue == [Buffers -> [Levels -> Nat]]
FarQueues == [Levels -> Nat]
WordRing == [0..1 -> [day : Nat, word : Nat]]

ClockType ==
  [phase : 0..(DayLength - 1),  \* place in the wall day
   due : BOOLEAN,               \* _wallDay() > lastDailyRequestWallDay
   newDay : BOOLEAN,            \* _wallDay() > _wallDayAt(lastDailyCompletedAt)
   completed : 0..DeadTimeout,  \* age of lastDailyCompletedAt
   request : 0..DeadTimeout,    \* age of rngRequestTime
   vrf : 0..StallThreshold,     \* age of lastVrfProcessedTimestamp
   ended : 0..SweepDelay]       \* age of GO_TIME, once paid

DailyType ==
  [idx : Nat, complete : BOOLEAN,                  \* dailyIdx, dailyComplete
   recorded : WordRing]                            \* the ring of daily words

RngType ==
  [active : BOOLEAN, published : BOOLEAN, complete : BOOLEAN,     \* rngFlagsAndNudges
   terminal : BOOLEAN, retrySpent : BOOLEAN, locked : BOOLEAN,    \* and rngLockedFlag
   id : Nat, word : Nat, day : Nat,  \* vrfRequestId, rngWordCurrent, rngRequestDay
   nudges : Nat]                     \* stamp of the latest nudge not yet spent

VrfType == [asks : Nat, outstanding : SUBSET Nat, old : Nat]

WorkType ==
  [write : Buffers,                  \* the accumulating box, bet and craps buffer
   box : SessionQueue, bet : SessionQueue, craps : SessionQueue,
   human : BOOLEAN,                  \* humanReadComplete
   open : Nat, settling : Nat,       \* sDGNRS's open and settling redemption batches
   afking : Nat, dec : BOOLEAN,      \* _pendingBoxCount # 0, decBattleQueue # 0
   resetDay : Nat, subs : BOOLEAN]   \* _afkingResetDay, subsFullyProcessed

TicketType ==
  [write : Buffers,                               \* the accumulating ticket slot
   queue : TicketQueue, far : FarQueues,
   processed : BOOLEAN,                           \* ticketsFullyProcessed
   midDay : {0, 1, 2}, early : Nat]                    \* LR_MID_DAY (2: the future pool), earlyTicketLevel

PhaseType ==
  [level : Nat, jackpot : BOOLEAN, last : BOOLEAN,  \* level, jackpotPhaseFlag, lastPurchaseDay
   counter : Nat, turbo : BOOLEAN, transition : BOOLEAN, start : Nat,
   met : BOOLEAN, pendingMet : BOOLEAN,             \* next pool above target, with and without the pending pools
   frozen : BOOLEAN, loansDue : BOOLEAN, growth : BOOLEAN]

LegType ==
  [battle : BOOLEAN, kind : {0, 1, 2, 3, 7}, earlyBird : BOOLEAN, tickets : BOOLEAN,
   purchase : BOOLEAN]

EndType ==
  [lvl : {0, 1, 2}, dead : BOOLEAN, swap : BOOLEAN,  \* LR_GO_LVL, LR_GO_DEAD, LR_GO_SWAP
   loans : BOOLEAN,                             \* GO_LOAN_STEP # 0
   over : BOOLEAN, paid : BOOLEAN, swept : BOOLEAN]

(* Every variable keeps the shape its storage slots have. *)
TypeOK ==
  /\ clock \in ClockType /\ daily \in DailyType /\ rng \in RngType /\ vrf \in VrfType
  /\ work \in WorkType /\ tix \in TicketType /\ ph \in PhaseType /\ legs \in LegType /\ go \in EndType

NoEntries == [b \in Buffers |-> 0]
NoLegs == [battle |-> FALSE, kind |-> 0, earlyBird |-> FALSE, tickets |-> FALSE, purchase |-> FALSE]

(***************************************************************************)
(* Deployment (StartLevel = 0): day 1 is complete without a word, the       *)
(* session is published but empty.  A history that starts at a later level  *)
(* starts where that level's purchase phase opened: the phase transition    *)
(* just sealed day 1 on the word of request 1.                              *)
(***************************************************************************)
FirstWord == IF StartLevel = 0 THEN 0 ELSE 1

Init ==
  /\ clock = [phase |-> 0, due |-> FALSE, newDay |-> FALSE, completed |-> 0,
              request |-> DeadTimeout, vrf |-> 0, ended |-> 0]
  /\ daily = [idx |-> 1, complete |-> TRUE,
              recorded |-> [p \in 0..1 |-> [day |-> p * FirstWord, word |-> p * FirstWord]]]
  /\ rng = [active |-> FALSE, published |-> TRUE, complete |-> TRUE, locked |-> FALSE,
            terminal |-> FALSE, retrySpent |-> FALSE, id |-> FirstWord, word |-> FirstWord,
            day |-> FirstWord, nudges |-> 0]
  /\ vrf = [asks |-> FirstWord, outstanding |-> {}, old |-> 0]
  /\ work = [write |-> 0, box |-> NoEntries, bet |-> NoEntries, craps |-> NoEntries,
             human |-> TRUE, open |-> 0, settling |-> 0, afking |-> 0, dec |-> FALSE,
             resetDay |-> FirstWord, subs |-> StartLevel # 0]
  /\ tix = [write |-> 0, queue |-> [b \in Buffers |-> [l \in Levels |-> 0]],
            far |-> [l \in Levels |-> 0], processed |-> StartLevel # 0, midDay |-> 0, early |-> 0]
  /\ ph = [level |-> StartLevel, jackpot |-> FALSE, last |-> FALSE, counter |-> 0, turbo |-> FALSE,
           transition |-> FALSE, start |-> MainLaunchDay, met |-> FALSE, pendingMet |-> FALSE,
           frozen |-> FALSE, loansDue |-> FALSE, growth |-> FALSE]
  /\ legs = NoLegs
  /\ go = [lvl |-> 0, dead |-> FALSE, swap |-> FALSE, loans |-> FALSE, over |-> FALSE,
           paid |-> FALSE, swept |-> FALSE]

-----------------------------------------------------------------------------
(* Buffers, stamps and recorded words.                                      *)

Stamp == vrf.asks + 1
ReadBuffer == 1 - work.write
ReadSlot == 1 - tix.write

RecordedWord(d) ==
  IF d # 0 /\ daily.recorded[d % 2].day = d THEN daily.recorded[d % 2].word ELSE 0

\* The word a read consumer may settle on: delivered, and published by a miner.
LootboxWord == IF rng.published THEN rng.word ELSE 0

(* Levels.  Entries up to the ceiling take the double buffer, entries above *)
(* it wait in the far-future queues.                                        *)
\* Mutant: forgets that an early pool raises the ceiling.
MintCeilingNoEarly == ph.level + (IF ph.last /\ ~rng.locked THEN 2 ELSE 1)

MintCeiling ==
  LET ceiling == ph.level + (IF ph.last /\ ~rng.locked THEN 2 ELSE 1)
  IN IF tix.early > ceiling THEN tix.early ELSE ceiling

FrozenPoolDue ==
  (ph.last \/ tix.early > ph.level + 1) /\ (rng.locked \/ tix.midDay # 0)

IsFinalJackpotDay(counter, turbo) == turbo \/ counter >= JackpotDays - 1

\* Mutant: keeps selling the level whose final draw was just requested.
ActiveTicketLevelLate == IF ph.jackpot /\ ~ph.transition THEN ph.level ELSE ph.level + 1

ActiveTicketLevel ==
  IF ph.jackpot /\ ~ph.transition /\ ~(rng.locked /\ IsFinalJackpotDay(ph.counter, ph.turbo))
  THEN ph.level ELSE ph.level + 1

GameOverTicketLevel ==
  IF go.lvl # 0 THEN ph.level + go.lvl - 1
  ELSE IF ph.jackpot \/ (ph.last /\ rng.locked) THEN ph.level ELSE ph.level + 1

-----------------------------------------------------------------------------
(* The one authority on endings.                                            *)

\* Mutant: the completion clock stops counting once an ending is under way.
VrfDeadmanOnlyLive == clock.completed >= DeadTimeout /\ ~rng.terminal

VrfDeadmanFired == clock.completed >= DeadTimeout

VrfDead ==
  /\ ~rng.published
  /\ clock.request >= DeadTimeout
  /\ rng.active \/ go.dead \/ go.swap

\* Mutant: only a request that was already retried can be given up.
HardStalledAfterRetry == VrfDead /\ rng.retrySpent

HardStalled == VrfDeadmanFired \/ VrfDead

PurchaseExpired ==
  /\ ~ph.last /\ ~ph.jackpot
  /\ daily.idx >= ph.start + PurchaseTimeout
  /\ daily.idx = ph.start + PurchaseTimeout => daily.complete
  /\ clock.newDay
  /\ ~ph.met

EndingReason ==
  CASE HardStalled -> "HardStall"
    [] ~HardStalled /\ (go.over \/ rng.terminal) ->
         IF go.dead THEN "HardStall" ELSE "PurchaseTimeout"
    [] ~HardStalled /\ ~(go.over \/ rng.terminal) ->
         IF PurchaseExpired THEN "PurchaseTimeout" ELSE "None"

Live == EndingReason = "None"

-----------------------------------------------------------------------------
(* The order in which a session's read consumers settle, and the evidence   *)
(* its certificate needs.                                                   *)

ReadPrepared == rng.published /\ rng.word # 0 /\ tix.processed /\ tix.midDay = 0

ConsumerStage ==
  IF go.over \/ rng.locked \/ rng.active \/ rng.terminal \/ ~Live THEN "blocked"
  ELSE IF rng.complete THEN "drained"
  ELSE IF ~ReadPrepared THEN "blocked"
  ELSE IF work.settling # 0 THEN "redemption"
  ELSE IF work.afking # 0 THEN "afking"
  ELSE IF ~work.human THEN "boxes"
  ELSE IF work.bet[ReadBuffer] # 0 THEN "bets"
  ELSE IF work.dec THEN "decimator"
  ELSE IF work.craps[ReadBuffer] # 0 THEN "craps"
  ELSE "drained"

\* Mutant: certifies without the craps cohort.
ConsumersCompleteNoCraps(w) ==
  ReadPrepared /\ w.human /\ w.bet[1 - w.write] = 0 /\ w.afking = 0 /\ ~w.dec /\ w.settling = 0

\* Read against the queues as a consumer's step leaves them.
ConsumersComplete(w) ==
  /\ ReadPrepared
  /\ w.human /\ w.bet[1 - w.write] = 0 /\ w.afking = 0 /\ ~w.dec
  /\ w.settling = 0
  /\ w.craps[1 - w.write] = 0

DailyRequestDue == clock.due

\* Mid-day requests are refused in the minute before the reset, before the day's word is
\* recorded and without pending value.
MiddayEligible ==
  /\ work.box[work.write] # 0 \/ work.bet[work.write] # 0 \/ work.craps[work.write] # 0
  /\ daily.complete /\ ~DailyRequestDue
  /\ clock.phase # DayLength - 1
  /\ RecordedWord(daily.idx) # 0

(***************************************************************************)
(* The engine's only scheduler: what the next mining call does is derived   *)
(* from the state, never stored.                                            *)
(***************************************************************************)
NextMinerAction ==
  IF go.over THEN
    IF ~go.paid \/ (clock.ended >= SweepDelay /\ ~go.swept) THEN "Terminal" ELSE "Idle"
  ELSE IF ~Live THEN
    IF /\ go.lvl # 0 /\ ~go.loans /\ ~go.dead
       /\ rng.active /\ rng.word = 0 /\ EndingReason # "HardStall"
    THEN "Wait" ELSE "Terminal"
  ELSE IF ph.loansDue THEN "SeizeLoans"
  ELSE IF rng.active /\ rng.word = 0 THEN "Wait"
  ELSE IF rng.active /\ ~rng.published THEN "Publish"
  ELSE IF ~rng.complete THEN
    IF ~rng.published \/ rng.word = 0 THEN "Wait"
    ELSE IF ~tix.processed THEN "Tickets"
    ELSE IF rng.locked THEN IF RecordedWord(rng.day) # 0 THEN "DailyPhase" ELSE "DailyApply"
    ELSE IF ConsumerStage = "drained" THEN "CertifyRead"
    ELSE IF ConsumerStage = "blocked" THEN "Wait" ELSE ConsumerStage
  ELSE IF daily.complete /\ DailyRequestDue THEN
    IF work.resetDay <= daily.idx \/ ~work.subs THEN "PrepareSubscriptions" ELSE "RequestDaily"
  ELSE IF ph.growth THEN "GrowthSettle"
  ELSE IF MiddayEligible THEN "RequestMidday" ELSE "Idle"
=============================================================================

----------------------------- MODULE DailyPhase -----------------------------
(***************************************************************************)
(* What a mining call does while the game is live: generate the committed   *)
(* tickets, apply the day's word, run the ordered parts of the day's        *)
(* jackpot, settle the read consumers in their fixed order, certify the     *)
(* session, and prepare the next one.                                       *)
(*                                                                         *)
(* Every worker is resumable: a call that runs out of gas leaves a shorter  *)
(* queue behind and the same action selected.  A queue is the stamp of its  *)
(* latest entry here, so such a call is a stuttering step; each action      *)
(* below is the call that finishes its worker.                              *)
(***************************************************************************)
EXTENDS RngSession

MayMeet == ph.level < MaxLevel

\* Awards a settled cohort pays out again: tickets at level lvl, or nothing.
Awards(t, lvl) ==
  {t} \cup IF "award" \notin Inputs THEN {}
           ELSE {IF lvl > MintCeiling THEN [t EXCEPT !.far[lvl] = Stamp]
                 ELSE [t EXCEPT !.queue[t.write][lvl] = Stamp]}

-----------------------------------------------------------------------------
(* Completion.  The certificate also seals the day when the session is its  *)
(* daily request's; the completion clock is restarted nowhere else.         *)

SealsDay(r) == ~daily.complete /\ r.day = daily.idx /\ ~go.over /\ ~r.terminal

CertifyRngComplete(r, done) ==
  /\ rng' = IF done THEN [r EXCEPT !.complete = TRUE] ELSE r
  /\ daily' = IF done /\ SealsDay(r) THEN [daily EXCEPT !.complete = TRUE] ELSE daily
  /\ clock' = IF done /\ SealsDay(r)
              THEN [clock EXCEPT !.completed = 0, !.newDay = FALSE] ELSE clock

TryCompleteRng(r, w) ==
  CertifyRngComplete(r, ~r.complete /\ ~r.locked /\ ~r.active /\ ConsumersComplete(w))

\* _unlockRng: the lock, the session and the pool freeze end together.
Unlocked == [rng EXCEPT !.locked = FALSE, !.active = FALSE]
Unfrozen(p) == [p EXCEPT !.frozen = FALSE, !.met = @ \/ p.pendingMet, !.pendingMet = FALSE]

UnlockRng(p) == ph' = Unfrozen(p) /\ TryCompleteRng(Unlocked, work)

-----------------------------------------------------------------------------
(* Ticket generation on the published word.                                 *)

TicketAnchor == IF ~ph.jackpot /\ ph.last /\ rng.locked THEN ph.level ELSE ph.level + 1

\* Mutant: stops one level short of the ceiling.
SweepWindowShort ==
  {l \in Levels : l >= (IF TicketAnchor = 0 THEN 0 ELSE TicketAnchor - 1) /\ l < MintCeiling}

SweepWindow ==
  {l \in Levels : l >= (IF TicketAnchor = 0 THEN 0 ELSE TicketAnchor - 1) /\ l <= MintCeiling}

ReadQueues == {l \in SweepWindow : tix.queue[ReadSlot][l] # 0}

FarQueue ==
  IF tix.midDay = 2 THEN {l \in {tix.early} : tix.far[l] # 0}
  ELSE IF FrozenPoolDue THEN {l \in {MintCeiling} : tix.far[l] # 0} ELSE {}

TicketsRead ==
  /\ NextMinerAction = "Tickets" /\ tix.midDay # 2 /\ ReadQueues # {}
  /\ \E l \in ReadQueues :
       /\ \A k \in ReadQueues : l <= k
       /\ tix' = [tix EXCEPT !.queue[ReadSlot][l] = 0]
  /\ UNCHANGED <<clock, daily, rng, vrf, work, ph, legs, go>>

TicketsFar ==
  /\ NextMinerAction = "Tickets"
  /\ tix.midDay = 2 \/ ReadQueues = {}
  /\ \E l \in FarQueue : tix' = [tix EXCEPT !.far[l] = 0]
  /\ UNCHANGED <<clock, daily, rng, vrf, work, ph, legs, go>>

\* Mutant: leaves the mid-day latch set.
TicketsDoneKeepsLatch ==
  /\ NextMinerAction = "Tickets" /\ FarQueue = {}
  /\ tix.midDay = 2 \/ ReadQueues = {}
  /\ tix' = [tix EXCEPT !.processed = TRUE]
  /\ UNCHANGED <<clock, daily, rng, vrf, work, ph, legs, go>>

\* The isolated pool's word does not commit the ordinary queues: under the lock they still owe a sweep.
TicketsDone ==
  /\ NextMinerAction = "Tickets" /\ FarQueue = {}
  /\ tix.midDay = 2 \/ ReadQueues = {}
  /\ tix' = IF tix.midDay = 2 /\ rng.locked THEN [tix EXCEPT !.midDay = 1]
            ELSE [tix EXCEPT !.processed = TRUE, !.midDay = 0]
  /\ UNCHANGED <<clock, daily, rng, vrf, work, ph, legs, go>>

-----------------------------------------------------------------------------
(* The daily word: recorded in the two-day ring, with the nudges bought      *)
(* before it spent on the coinflip.                                         *)

ApplyDailyRng(r, day) ==
  /\ rng' = [r EXCEPT !.nudges = 0]
  /\ daily' = [daily EXCEPT !.recorded[day % 2] = [day |-> day, word |-> r.word]]
  /\ clock' = [clock EXCEPT !.vrf = 0]

ApplyDailyWord ==
  /\ NextMinerAction = "DailyApply" /\ rng.active /\ rng.day # 0
  /\ ApplyDailyRng(rng, rng.day)
  /\ UNCHANGED <<vrf, work, tix, ph, legs, go>>

-----------------------------------------------------------------------------
(* The ordered parts of one day, all under its lock.                        *)

DailyStage ==
  IF NextMinerAction # "DailyPhase" THEN "none"
  ELSE IF legs.battle THEN "Battle"
  ELSE IF ph.transition THEN "Transition"
  ELSE IF legs.kind = 7 THEN "BafAwards"
  ELSE IF legs.kind \in {1, 2} THEN "EthDraw"
  ELSE IF ~ph.jackpot THEN
    IF legs.purchase THEN "PurchaseTickets"
    ELSE IF ~ph.last /\ ph.level = 0 /\ rng.day < MainLaunchDay THEN "Degenesis"
    ELSE IF ~ph.last THEN "PurchaseDaily" ELSE "Consolidate"
  ELSE IF legs.earlyBird THEN "EarlyBird"
  ELSE IF legs.tickets THEN "JackpotTickets" ELSE "JackpotDaily"

\* _sealPurchaseDay: a met target latches the purchase phase's last day, an x5 level collapses
\* its jackpot to one day, and so does an x0 level that filled at once.
SealPurchaseDay(p) ==
  LET lvl == p.level + 1
      latch == rng.day >= MainLaunchDay /\ rng.day >= p.start /\ p.met
      fast == lvl % 10 = 0 /\ rng.day - p.start <= 1
  IN UnlockRng(IF ~latch THEN p
               ELSE [p EXCEPT !.last = TRUE, !.turbo = @ \/ OneDayLevel(lvl) \/ fast])

JackpotBattle ==
  /\ DailyStage = "Battle" /\ legs' = [legs EXCEPT !.battle = FALSE]
  /\ UNCHANGED <<clock, daily, rng, vrf, work, tix, ph, go>>

DegenesisDay ==
  /\ DailyStage = "Degenesis" /\ UnlockRng(ph)
  /\ UNCHANGED <<vrf, work, tix, legs, go>>

\* Level 1 pays one FLIP draw and seals in the same call; later levels price the day's ETH draw,
\* which may owe a ticket leg and feeds the next pool.
PurchaseDaily ==
  /\ DailyStage = "PurchaseDaily"
  /\ \/ /\ ph.level = 0
        /\ SealPurchaseDay(ph)
        /\ UNCHANGED <<vrf, work, tix, legs, go>>
     \/ /\ ph.level # 0
        /\ \E tickets \in BOOLEAN, met \in IF MayMeet THEN {ph.met, TRUE} ELSE {ph.met} :
             /\ legs' = [legs EXCEPT !.kind = 1, !.purchase = tickets]
             /\ ph' = [ph EXCEPT !.met = met]
        /\ UNCHANGED <<clock, daily, rng, vrf, work, tix, go>>

EthDraw ==
  /\ DailyStage = "EthDraw"
  /\ legs' = [legs EXCEPT !.kind = 0, !.tickets = ph.jackpot \/ @]
  /\ IF ~ph.jackpot /\ ~legs.purchase THEN SealPurchaseDay(ph)
     ELSE UNCHANGED <<clock, daily, rng, ph>>
  /\ UNCHANGED <<vrf, work, tix, go>>

\* Mutant: seals the day before its ticket leg is retired.
PurchaseTicketsKeepsLeg ==
  /\ DailyStage = "PurchaseTickets"
  /\ legs' = legs
  /\ tix' \in Awards(tix, ph.level + 1)
  /\ SealPurchaseDay(ph)
  /\ UNCHANGED <<vrf, work, go>>

PurchaseTickets ==
  /\ DailyStage = "PurchaseTickets"
  /\ legs' = [legs EXCEPT !.purchase = FALSE]
  /\ tix' \in Awards(tix, ph.level + 1)
  /\ SealPurchaseDay(ph)
  /\ UNCHANGED <<vrf, work, go>>

\* The level's pools are consolidated once: the growth round seals, a BAF level reserves its
\* awards or skips them, a decimator level may reopen the read cohort with its battle.
Consolidate ==
  /\ DailyStage = "Consolidate"
  /\ \E met \in IF MayMeet THEN BOOLEAN ELSE {FALSE},
        baf \in IF ph.level % 10 = 0 THEN BOOLEAN ELSE {FALSE},
        battle \in IF ph.level % 100 = 0 \/ OneDayLevel(ph.level)
                   THEN IF "decimator" \in Inputs /\ ~work.dec THEN BOOLEAN ELSE {FALSE} ELSE {FALSE},
        growth \in IF ph.level >= 2 /\ "growth" \in Inputs THEN BOOLEAN ELSE {FALSE} :
       /\ ph' = [ph EXCEPT !.jackpot = TRUE, !.last = FALSE, !.met = met, !.growth = @ \/ growth]
       /\ legs' = [legs EXCEPT !.kind = IF baf THEN 7 ELSE 0]
       /\ work' = [work EXCEPT !.dec = @ \/ battle]
       /\ rng' = [rng EXCEPT !.complete = @ /\ ~battle]
  /\ UNCHANGED <<clock, daily, vrf, tix, go>>

BafAwards ==
  /\ DailyStage = "BafAwards" /\ legs' = [legs EXCEPT !.kind = 0]
  /\ tix' \in Awards(tix, ph.level + 1)
  /\ UNCHANGED <<clock, daily, rng, vrf, work, ph, go>>

JackpotDaily ==
  /\ DailyStage = "JackpotDaily"
  /\ \E early \in IF ph.counter = 0 THEN BOOLEAN ELSE {FALSE} :
       legs' = [legs EXCEPT !.kind = 2, !.earlyBird = early, !.purchase = FALSE]
  /\ UNCHANGED <<clock, daily, rng, vrf, work, tix, ph, go>>

EarlyBird ==
  /\ DailyStage = "EarlyBird" /\ legs' = [legs EXCEPT !.earlyBird = FALSE, !.purchase = FALSE]
  /\ tix' \in Awards(tix, ph.level + 1)
  /\ UNCHANGED <<clock, daily, rng, vrf, work, ph, go>>

\* The last part of a jackpot day counts it: the final one ends the phase under the same lock.
PhaseDays == IF ph.turbo THEN 1 ELSE JackpotDays

JackpotTickets ==
  /\ DailyStage = "JackpotTickets"
  /\ legs' = NoLegs
  /\ tix' \in Awards(tix, ph.level + 1)
  /\ IF ph.counter + 1 >= PhaseDays
     THEN /\ \E met \in IF ph.level % 100 = 0 /\ MayMeet THEN BOOLEAN ELSE {ph.met} :
               ph' = [ph EXCEPT !.transition = TRUE, !.counter = 0, !.turbo = FALSE, !.met = met]
          /\ UNCHANGED <<clock, daily, rng>>
     ELSE UnlockRng([ph EXCEPT !.counter = @ + 1])
  /\ UNCHANGED <<vrf, work, go>>

PhaseTransition ==
  /\ DailyStage = "Transition"
  /\ UnlockRng([ph EXCEPT !.transition = FALSE, !.start = rng.day, !.jackpot = FALSE])
  /\ UNCHANGED <<vrf, work, tix, legs, go>>

DailyWork == JackpotBattle \/ DegenesisDay \/ PurchaseDaily \/ EthDraw \/ PurchaseTickets
  \/ Consolidate \/ BafAwards \/ JackpotDaily \/ EarlyBird \/ JackpotTickets \/ PhaseTransition

-----------------------------------------------------------------------------
(* The read consumers, in ConsumerStage's order.  Human boxes may award     *)
(* tickets, which join the accumulating queues.                             *)

Settles(stage, w) == NextMinerAction = stage /\ work' = w

RedemptionWork ==
  /\ Settles("redemption", [work EXCEPT !.settling = 0])
  /\ UNCHANGED <<clock, daily, rng, vrf, tix, ph, legs, go>>

AfkingWork ==
  /\ Settles("afking", [work EXCEPT !.afking = 0]) /\ TryCompleteRng(rng, work')
  /\ UNCHANGED <<vrf, tix, ph, legs, go>>

HumanBoxWork ==
  /\ Settles("boxes", [work EXCEPT !.human = TRUE, !.box[ReadBuffer] = 0])
  /\ TryCompleteRng(rng, work')
  /\ \E l \in {ph.level + 1, ph.level + 2} :
       tix' \in IF work.box[ReadBuffer] = 0 THEN {tix} ELSE Awards(tix, l)
  /\ UNCHANGED <<vrf, ph, legs, go>>

DegeneretteWork ==
  /\ Settles("bets", [work EXCEPT !.bet[ReadBuffer] = 0]) /\ TryCompleteRng(rng, work')
  /\ UNCHANGED <<vrf, tix, ph, legs, go>>

DecimatorWork ==
  /\ Settles("decimator", [work EXCEPT !.dec = FALSE]) /\ TryCompleteRng(rng, work')
  /\ UNCHANGED <<vrf, tix, ph, legs, go>>

CrapsReadWork ==
  /\ Settles("craps", [work EXCEPT !.craps[ReadBuffer] = 0]) /\ TryCompleteRng(rng, work')
  /\ UNCHANGED <<vrf, tix, ph, legs, go>>

\* CertifyRead, mineFlip's fallback for a drained cohort without a certificate, has no action: every
\* last worker certifies, so it is never selected (SelectedWorkRuns in MiningEngine checks that).
ReadConsumers == RedemptionWork \/ AfkingWork \/ HumanBoxWork \/ DegeneretteWork
  \/ DecimatorWork \/ CrapsReadWork

-----------------------------------------------------------------------------
(* Between two sessions.                                                    *)

\* The preparation day is pinned once, then subscribers' boxes are stamped for the next word
\* and their tickets queued.
PrepareSubscriptions ==
  /\ NextMinerAction = "PrepareSubscriptions"
  /\ \/ /\ work.resetDay <= daily.idx
        /\ work' = [work EXCEPT !.resetDay = daily.idx + 1, !.subs = FALSE]
        /\ UNCHANGED tix
     \/ /\ work.resetDay > daily.idx
        /\ \E boxes \in IF "afking" \in Inputs THEN BOOLEAN ELSE {FALSE} :
             work' = [work EXCEPT !.subs = TRUE, !.afking = IF boxes THEN Stamp ELSE @]
        /\ \E buys \in IF "afking" \in Inputs THEN BOOLEAN ELSE {FALSE} :
             tix' = IF buys
                    THEN [tix EXCEPT !.queue[tix.write][IF ph.jackpot THEN ph.level ELSE ph.level + 1] = Stamp]
                    ELSE tix
  /\ UNCHANGED <<clock, daily, rng, vrf, ph, legs, go>>

SeizeLoans ==
  /\ NextMinerAction = "SeizeLoans" /\ ph' = [ph EXCEPT !.loansDue = FALSE]
  /\ UNCHANGED <<clock, daily, rng, vrf, work, tix, legs, go>>

GrowthSettle ==
  /\ NextMinerAction = "GrowthSettle" /\ ph' = [ph EXCEPT !.growth = FALSE]
  /\ UNCHANGED <<clock, daily, rng, vrf, work, tix, legs, go>>

LiveWork == TicketsRead \/ TicketsFar \/ TicketsDone \/ ApplyDailyWord \/ DailyWork
  \/ ReadConsumers \/ PrepareSubscriptions \/ SeizeLoans \/ GrowthSettle
=============================================================================

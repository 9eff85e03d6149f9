----------------------------- MODULE EngineProofs -----------------------------
(***************************************************************************)
(* The engine, for every value of the constants: its types; settlement (a   *)
(* certified session has settled everything it sealed, its read consumers   *)
(* settle on a word asked for after their entries were made, and a          *)
(* delivered word is never replaced); and the endings (the terminal draw is *)
(* paid on a word asked for after every entry, or without a word, a game    *)
(* that is over stays over, and no day's word is shifted by a later nudge). *)
(*                                                                         *)
(* A step changes few variables, and each leaf about types is about one of   *)
(* them.  The rest is two inductive invariants on top of TypeOK:            *)
(* SettlementInv of MiningEngine, and EndInv.                               *)
(***************************************************************************)
EXTENDS MiningEngine, TLAPS

(* Stamps and request numbers are natural numbers. *)
LEMMA StampType == ASSUME TypeOK PROVE Stamp \in Nat /\ Ask \in Nat /\ AskVrf \in VrfType
<1>1. Stamp \in Nat /\ Ask \in Nat
  BY DEF TypeOK, VrfType, Stamp, Ask
<1>2. vrf.outstanding \cup {Ask} \in SUBSET Nat
  BY <1>1 DEF TypeOK, VrfType
<1>3. AskVrf \in VrfType
  BY <1>1, <1>2 DEF TypeOK, VrfType, AskVrf
<1> QED BY <1>1, <1>3

(* Freshly stamped ages. *)
LEMMA ZeroAges == 0 \in 0..DeadTimeout /\ 0 \in 0..StallThreshold /\ 0 \in 0..SweepDelay
  BY ClockAssumption

(* Stamping or clearing one entry of a session queue leaves session queues. *)
LEMMA WorkEntryType ==
  ASSUME NEW w \in WorkType, NEW b \in Buffers, NEW n \in Nat
  PROVE  /\ [w EXCEPT !.box[b] = n] \in WorkType
         /\ [w EXCEPT !.bet[b] = n] \in WorkType
         /\ [w EXCEPT !.craps[b] = n] \in WorkType
<1>1. ASSUME NEW f \in SessionQueue PROVE [f EXCEPT ![b] = n] \in SessionQueue
  BY DEF SessionQueue
<1>2. [w.box EXCEPT ![b] = n] \in SessionQueue /\ [w.bet EXCEPT ![b] = n] \in SessionQueue
      /\ [w.craps EXCEPT ![b] = n] \in SessionQueue
  BY <1>1 DEF WorkType
<1> QED BY <1>2 DEF WorkType

(* Stamping or clearing one ticket queue leaves ticket queues. *)
LEMMA TicketEntryType ==
  ASSUME NEW t \in TicketType, NEW b, NEW l, NEW n \in Nat
  PROVE  /\ [t EXCEPT !.queue[b][l] = n] \in TicketType
         /\ [t EXCEPT !.far[l] = n] \in TicketType
<1>1. [t.queue EXCEPT ![b][l] = n] \in TicketQueue
  BY DEF TicketQueue, TicketType
<1>2. [t.far EXCEPT ![l] = n] \in FarQueues
  BY DEF FarQueues, TicketType
<1> QED BY <1>1, <1>2 DEF TicketType

(* Swapping the session buffers, and closing the redemption batch with it, keeps the queues queues. *)
LEMMA SealType ==
  ASSUME NEW w \in WorkType
  PROVE  SwapRngBuffers(w) \in WorkType /\ SealRngWriteBuffer(w) \in WorkType
<1>1. SwapRngBuffers(w) \in WorkType
  <2>1. w.write \in Buffers /\ 1 - w.write \in Buffers
    BY DEF WorkType, Buffers
  <2>2. ASSUME NEW f \in SessionQueue
        PROVE  [b \in Buffers |-> IF b = w.write THEN f[b] ELSE 0] \in SessionQueue
    BY DEF SessionQueue
  <2>3. w.box \in SessionQueue /\ w.bet \in SessionQueue
    BY DEF WorkType
  <2> QED BY <2>1, <2>2, <2>3 DEF SwapRngBuffers, WorkType
<1>2. ASSUME NEW v \in WorkType PROVE CloseRedemptionBatch(v) \in WorkType
  BY DEF CloseRedemptionBatch, WorkType
<1> QED BY <1>1, <1>2 DEF SealRngWriteBuffer

(* Swapping the ticket slot keeps the ticket queues queues. *)
LEMMA SlotType == ASSUME NEW t \in TicketType PROVE SwapTicketSlot(t) \in TicketType
<1>1. 1 - t.write \in Buffers
  BY DEF TicketType, Buffers
<1> QED BY <1>1 DEF SwapTicketSlot, TicketType

(* Tickets awarded at any level leave queues of stamps. *)
LEMMA AwardType ==
  ASSUME TypeOK, NEW l \in Int PROVE \A t \in Awards(tix, l) : t \in TicketType
<1>1. tix \in TicketType BY DEF TypeOK
<1>2. [tix EXCEPT !.far[l] = Stamp] \in TicketType
  BY StampType, <1>1, TicketEntryType
<1>3. [tix EXCEPT !.queue[tix.write][l] = Stamp] \in TicketType
  BY StampType, <1>1, TicketEntryType
<1> QED BY <1>1, <1>2, <1>3 DEF Awards

(* A fresh request leaves a well-formed session. *)
LEMMA FreshType ==
  ASSUME TypeOK, NEW d \in Nat PROVE FreshRequest(rng, d) \in RngType
  BY StampType DEF TypeOK, FreshRequest, RngType

(* The certificate touches the session, the day and the completion clock only. *)
LEMMA CertifyType ==
  ASSUME TypeOK, NEW r \in RngType, NEW done, CertifyRngComplete(r, done)
  PROVE  rng' \in RngType /\ daily' \in DailyType /\ clock' \in ClockType
<1>1. rng' \in RngType BY DEF CertifyRngComplete, RngType
<1>2. daily' \in DailyType BY DEF CertifyRngComplete, TypeOK, DailyType
<1>3. clock' \in ClockType BY ZeroAges DEF CertifyRngComplete, TypeOK, ClockType
<1> QED BY <1>1, <1>2, <1>3

(* Unlocking ends the session's day and thaws the pools. *)
LEMMA UnlockType ==
  ASSUME TypeOK, NEW p \in PhaseType, UnlockRng(p)
  PROVE  ph' \in PhaseType /\ rng' \in RngType /\ daily' \in DailyType /\ clock' \in ClockType
<1>1. ph' \in PhaseType BY DEF UnlockRng, Unfrozen, PhaseType
<1>2. Unlocked \in RngType BY DEF TypeOK, Unlocked, RngType
<1> QED BY <1>1, <1>2, CertifyType DEF UnlockRng, TryCompleteRng

(* Sealing a purchase day is an unlock of a phase record. *)
LEMMA SealPurchaseType ==
  ASSUME TypeOK, SealPurchaseDay(ph)
  PROVE  ph' \in PhaseType /\ rng' \in RngType /\ daily' \in DailyType /\ clock' \in ClockType
<1> DEFINE q == IF ~(rng.day >= MainLaunchDay /\ rng.day >= ph.start /\ ph.met) THEN ph
                ELSE [ph EXCEPT !.last = TRUE,
                                !.turbo = @ \/ OneDayLevel(ph.level + 1)
                                            \/ ((ph.level + 1) % 10 = 0 /\ rng.day - ph.start <= 1)]
<1>1. q \in PhaseType BY ZenonT(40) DEF TypeOK, PhaseType, OneDayLevel
<1>2. UnlockRng(q) BY DEF SealPurchaseDay
<1> HIDE DEF q
<1> QED BY <1>1, <1>2, UnlockType

-----------------------------------------------------------------------------

(* The initial state is well formed. *)
LEMMA InitTyped == Init => TypeOK
  BY ClockAssumption, GameAssumption, BoundAssumption
  DEF Init, TypeOK, FirstWord, NoEntries, NoLegs, Buffers, ClockType, DailyType, RngType, VrfType,
      WorkType, TicketType, PhaseType, LegType, EndType, SessionQueue, TicketQueue, FarQueues, WordRing

(* Player entries and time keep the state well formed. *)
LEMMA EntriesTyped == TypeOK /\ (PlayerEntry \/ Tick) => TypeOK'
<1> SUFFICES ASSUME TypeOK, PlayerEntry \/ Tick PROVE TypeOK' OBVIOUS
<1> USE StampType
<1>w. work.write \in Buffers BY DEF TypeOK, WorkType
<1>1. ASSUME Contributes PROVE ph' \in PhaseType
  BY <1>1 DEF Contributes, AddPrizeContribution, TypeOK, PhaseType
<1>2. CASE BuyBox
  <2>1. work' \in WorkType BY <1>2, <1>w, WorkEntryType DEF BuyBox, TypeOK
  <2> QED BY <2>1, <1>1, <1>2 DEF BuyBox, TypeOK
<1>3. CASE PlaceBet
  <2>1. work' \in WorkType BY <1>3, <1>w, WorkEntryType DEF PlaceBet, TypeOK
  <2> QED BY <2>1, <1>3 DEF PlaceBet, TypeOK
<1>4. CASE CrapsWindow
  <2>1. work' \in WorkType BY <1>4, <1>w, WorkEntryType DEF CrapsWindow, TypeOK
  <2> QED BY <2>1, <1>4 DEF CrapsWindow, TypeOK
<1>5. CASE RequestRedemption
  <2>1. work' \in WorkType BY <1>5 DEF RequestRedemption, TypeOK, WorkType
  <2> QED BY <2>1, <1>5 DEF RequestRedemption, TypeOK
<1>6. CASE BuyTicket
  <2>1. tix' \in TicketType BY <1>6, TicketEntryType DEF BuyTicket, TypeOK
  <2> QED BY <2>1, <1>1, <1>6 DEF BuyTicket, TypeOK
<1>7. CASE Nudge
  <2>1. rng' \in RngType BY <1>7 DEF Nudge, TypeOK, RngType
  <2> QED BY <2>1, <1>7 DEF Nudge, TypeOK
<1>8. ASSUME NEW l \in Levels, BuyFar(l) PROVE TypeOK'
  <2>1. tix' \in TicketType BY <1>8, TicketEntryType DEF BuyFar, TypeOK
  <2> QED BY <2>1, <1>8 DEF BuyFar, TypeOK
<1>9. CASE Tick
  <2>1. clock' \in ClockType BY <1>9, ClockAssumption DEF Tick, Older, TypeOK, ClockType
  <2> QED BY <2>1, <1>9 DEF Tick, TypeOK
<1> QED BY <1>2, <1>3, <1>4, <1>5, <1>6, <1>7, <1>8, <1>9 DEF PlayerEntry

(* Requests, answers and the two transport recoveries keep the state well formed. *)
LEMMA RequestsTyped == TypeOK /\ (RequestDaily \/ RequestMidday \/ Answers \/ Recovery) => TypeOK'
<1> SUFFICES ASSUME TypeOK, RequestDaily \/ RequestMidday \/ Answers \/ Recovery PROVE TypeOK' OBVIOUS
<1> USE StampType
<1>1. CASE RequestDaily
  <2>1. work' \in WorkType BY <1>1, SealType DEF RequestDaily, TypeOK
  <2>2. tix' \in TicketType
    <3>1. PICK early \in {ph.level + 2, tix.early}, gnrus \in BOOLEAN :
            tix' = SwapTicketSlot(GnrusBuys([tix EXCEPT !.early = early], gnrus))
      BY <1>1 DEF RequestDaily
    <3>2. early \in Nat BY DEF TypeOK, TicketType, PhaseType
    <3>3. [tix EXCEPT !.early = early] \in TicketType BY <3>2 DEF TypeOK, TicketType
    <3>4. GnrusBuys([tix EXCEPT !.early = early], gnrus) \in TicketType
      BY <3>3, TicketEntryType DEF GnrusBuys
    <3> QED BY <3>1, <3>4, SlotType
  <2>3. ph' \in PhaseType
    <3>1. PICK last \in BOOLEAN, turbo \in BOOLEAN, level \in {ph.level, ph.level + 1}, due \in BOOLEAN :
            ph' = [ph EXCEPT !.last = last, !.turbo = turbo, !.frozen = TRUE, !.level = level,
                             !.loansDue = @ \/ due]
      <4> DEFINE L == ph.last \/ EarlyTurbo(daily.idx + 1)
                 C == ~ph.jackpot /\ L
                 U == ph.turbo \/ EarlyTurbo(daily.idx + 1) \/ (C /\ OneDayLevel(ph.level + 1))
      <4>1. PICK due \in BOOLEAN :
              ph' = [ph EXCEPT !.last = L, !.turbo = U, !.frozen = TRUE,
                               !.level = IF C THEN @ + 1 ELSE @, !.loansDue = @ \/ due]
        BY <1>1 DEF RequestDaily
      <4>2. L \in BOOLEAN /\ U \in BOOLEAN
        BY DEF TypeOK, PhaseType, EarlyTurbo, OneDayLevel
      <4> HIDE DEF L, C, U
      <4> QED BY <4>1, <4>2
    <3>2. level \in Nat BY DEF TypeOK, PhaseType
    <3> QED BY <3>1, <3>2 DEF TypeOK, PhaseType
  <2>4. rng' \in RngType
    <3>1. FreshRequest(rng, daily.idx + 1) \in RngType BY FreshType DEF TypeOK, DailyType
    <3>2. rng' = [FreshRequest(rng, daily.idx + 1) EXCEPT !.locked = TRUE] BY <1>1 DEF RequestDaily
    <3> QED BY <3>1, <3>2 DEF RngType
  <2>5. daily' \in DailyType
    <3>1. daily' = [daily EXCEPT !.idx = daily.idx + 1, !.complete = FALSE] BY <1>1 DEF RequestDaily
    <3>2. daily.idx + 1 \in Nat BY DEF TypeOK, DailyType
    <3> QED BY <3>1, <3>2 DEF TypeOK, DailyType
  <2>6. clock' \in ClockType BY <1>1, ZeroAges DEF RequestDaily, TypeOK, ClockType
  <2>7. legs' \in LegType BY <1>1 DEF RequestDaily, TypeOK, LegType
  <2>8. vrf' \in VrfType /\ go' \in EndType BY <1>1 DEF RequestDaily, TypeOK
  <2> QED BY <2>1, <2>2, <2>3, <2>4, <2>5, <2>6, <2>7, <2>8 DEF TypeOK
<1>2. CASE RequestMidday
  <2>1. work' \in WorkType BY <1>2, SealType DEF RequestMidday, TypeOK
  <2>2. tix' \in TicketType
    <3>1. PICK early \in {ph.level + 2, tix.early} :
            tix' \in {[[tix EXCEPT !.early = early] EXCEPT !.processed = FALSE, !.midDay = 2],
                      [SwapTicketSlot([tix EXCEPT !.early = early]) EXCEPT !.midDay = 1],
                      [tix EXCEPT !.early = early]}
      BY <1>2 DEF RequestMidday
    <3>2. early \in Nat BY DEF TypeOK, TicketType, PhaseType
    <3>3. [tix EXCEPT !.early = early] \in TicketType BY <3>2 DEF TypeOK, TicketType
    <3>4. SwapTicketSlot([tix EXCEPT !.early = early]) \in TicketType BY <3>3, SlotType
    <3>5. ASSUME NEW t \in TicketType
          PROVE  [t EXCEPT !.processed = FALSE, !.midDay = 2] \in TicketType
                 /\ [t EXCEPT !.midDay = 1] \in TicketType
      BY DEF TicketType
    <3> QED BY <3>1, <3>3, <3>4, <3>5
  <2>3. rng' \in RngType BY <1>2, FreshType DEF RequestMidday
  <2>4. clock' \in ClockType BY <1>2, ZeroAges DEF RequestMidday, TypeOK, ClockType
  <2> QED BY <1>2, <2>1, <2>2, <2>3, <2>4 DEF RequestMidday, TypeOK
<1>3. CASE Answers
  <2>1. PICK a \in vrf.outstanding, reserved \in BOOLEAN : RawFulfillRandomWords(a, reserved)
    BY <1>3 DEF Answers
  <2>2. a \in Nat BY DEF TypeOK, VrfType
  <2>3. rng' \in RngType BY <2>1, <2>2 DEF RawFulfillRandomWords, TypeOK, RngType
  <2>4. vrf' \in VrfType BY <2>1 DEF RawFulfillRandomWords, TypeOK, VrfType
  <2> QED BY <2>1, <2>3, <2>4 DEF RawFulfillRandomWords, TypeOK
<1>4. CASE RetryRng
  <2>1. rng' \in RngType BY <1>4 DEF RetryRng, TypeOK, RngType
  <2> QED BY <1>4, <2>1 DEF RetryRng, TypeOK
<1>5. CASE UpdateVrfCoordinatorAndSub
  <2>1. rng' \in RngType BY <1>5 DEF UpdateVrfCoordinatorAndSub, TypeOK, RngType
  <2>2. vrf' \in VrfType BY <1>5 DEF UpdateVrfCoordinatorAndSub, TypeOK, VrfType
  <2> QED BY <1>5, <2>1, <2>2 DEF UpdateVrfCoordinatorAndSub, TypeOK
<1> QED BY <1>1, <1>2, <1>3, <1>4, <1>5 DEF Recovery
-----------------------------------------------------------------------------

(* A worker's certificate, for whatever queues it leaves. *)
LEMMA TryCompleteType ==
  ASSUME TypeOK, NEW r \in RngType, NEW w, TryCompleteRng(r, w)
  PROVE  rng' \in RngType /\ daily' \in DailyType /\ clock' \in ClockType
  BY CertifyType DEF TryCompleteRng

(* The daily word reaches the ring with the session's day. *)
LEMMA ApplyType ==
  ASSUME TypeOK, NEW r \in RngType, NEW d \in Nat, ApplyDailyRng(r, d)
  PROVE  rng' \in RngType /\ daily' \in DailyType /\ clock' \in ClockType
<1>1. rng' \in RngType BY DEF ApplyDailyRng, RngType
<1>2. daily' \in DailyType
  <2>1. r.word \in Nat /\ d % 2 \in 0..1 BY DEF RngType
  <2>2. [daily.recorded EXCEPT ![d % 2] = [day |-> d, word |-> r.word]] \in WordRing
    BY <2>1 DEF TypeOK, DailyType, WordRing
  <2> QED BY <2>2 DEF ApplyDailyRng, TypeOK, DailyType
<1>3. clock' \in ClockType BY ZeroAges DEF ApplyDailyRng, TypeOK, ClockType
<1> QED BY <1>1, <1>2, <1>3

(* Ticket generation and the daily word keep the state well formed. *)
LEMMA TicketsTyped == TypeOK /\ (TicketsRead \/ TicketsFar \/ TicketsDone \/ ApplyDailyWord) => TypeOK'
<1> SUFFICES ASSUME TypeOK, TicketsRead \/ TicketsFar \/ TicketsDone \/ ApplyDailyWord PROVE TypeOK' OBVIOUS
<1>1. CASE TicketsRead
  <2>1. PICK l \in ReadQueues : tix' = [tix EXCEPT !.queue[ReadSlot][l] = 0] BY <1>1 DEF TicketsRead
  <2>2. tix' \in TicketType BY <2>1, TicketEntryType DEF TypeOK
  <2> QED BY <2>2, <1>1 DEF TicketsRead, TypeOK
<1>2. CASE TicketsFar
  <2>1. PICK l \in FarQueue : tix' = [tix EXCEPT !.far[l] = 0] BY <1>2 DEF TicketsFar
  <2>2. tix' \in TicketType BY <2>1, TicketEntryType DEF TypeOK
  <2> QED BY <2>2, <1>2 DEF TicketsFar, TypeOK
<1>3. CASE TicketsDone
  <2>1. tix' \in TicketType BY <1>3 DEF TicketsDone, TypeOK, TicketType
  <2> QED BY <2>1, <1>3 DEF TicketsDone, TypeOK
<1>4. CASE ApplyDailyWord
  <2>1. rng \in RngType /\ rng.day \in Nat BY DEF TypeOK, RngType
  <2> QED BY <2>1, <1>4, ApplyType DEF ApplyDailyWord, TypeOK
<1> QED BY <1>1, <1>2, <1>3, <1>4

(* The parts of a day keep the state well formed. *)
LEMMA DailyWorkTyped == TypeOK /\ DailyWork => TypeOK'
<1> SUFFICES ASSUME TypeOK, DailyWork PROVE TypeOK' OBVIOUS
<1>l. \A l \in Int : \A t \in Awards(tix, l) : t \in TicketType BY AwardType
<1>n. ph.level + 1 \in Int BY DEF TypeOK, PhaseType
<1>p. ph \in PhaseType BY DEF TypeOK
<1>1. CASE JackpotBattle
  <2>1. legs' \in LegType BY <1>1 DEF JackpotBattle, TypeOK, LegType
  <2> QED BY <2>1, <1>1 DEF JackpotBattle, TypeOK
<1>2. CASE DegenesisDay
  BY <1>2, <1>p, UnlockType DEF DegenesisDay, TypeOK
<1>3. CASE PurchaseDaily
  <2>1. CASE ph.level = 0
    BY <2>1, <1>3, SealPurchaseType DEF PurchaseDaily, TypeOK
  <2>2. CASE ph.level # 0
    <3>1. legs' \in LegType BY <2>2, <1>3 DEF PurchaseDaily, TypeOK, LegType
    <3>2. ph' \in PhaseType BY <2>2, <1>3 DEF PurchaseDaily, TypeOK, PhaseType
    <3> QED BY <3>1, <3>2, <2>2, <1>3 DEF PurchaseDaily, TypeOK
  <2> QED BY <2>1, <2>2
<1>4. CASE EthDraw
  <2>1. legs' \in LegType BY <1>4 DEF EthDraw, TypeOK, LegType, PhaseType
  <2> QED BY <2>1, <1>4, SealPurchaseType DEF EthDraw, TypeOK
<1>5. CASE PurchaseTickets
  <2>1. legs' \in LegType BY <1>5 DEF PurchaseTickets, TypeOK, LegType
  <2> QED BY <2>1, <1>l, <1>n, <1>5, SealPurchaseType DEF PurchaseTickets, TypeOK
<1>6. CASE Consolidate
  <2>1. PICK met \in BOOLEAN, baf \in BOOLEAN, battle \in BOOLEAN, growth \in BOOLEAN :
          /\ ph' = [ph EXCEPT !.jackpot = TRUE, !.last = FALSE, !.met = met, !.growth = @ \/ growth]
          /\ legs' = [legs EXCEPT !.kind = IF baf THEN 7 ELSE 0]
          /\ work' = [work EXCEPT !.dec = @ \/ battle]
          /\ rng' = [rng EXCEPT !.complete = @ /\ ~battle]
    <3>1. PICK met \in IF MayMeet THEN BOOLEAN ELSE {FALSE},
               baf \in IF ph.level % 10 = 0 THEN BOOLEAN ELSE {FALSE},
               battle \in IF ph.level % 100 = 0 \/ OneDayLevel(ph.level)
                          THEN IF "decimator" \in Inputs /\ ~work.dec THEN BOOLEAN ELSE {FALSE} ELSE {FALSE},
               growth \in IF ph.level >= 2 /\ "growth" \in Inputs THEN BOOLEAN ELSE {FALSE} :
            /\ ph' = [ph EXCEPT !.jackpot = TRUE, !.last = FALSE, !.met = met, !.growth = @ \/ growth]
            /\ legs' = [legs EXCEPT !.kind = IF baf THEN 7 ELSE 0]
            /\ work' = [work EXCEPT !.dec = @ \/ battle]
            /\ rng' = [rng EXCEPT !.complete = @ /\ ~battle]
      BY <1>6 DEF Consolidate
    <3>2. met \in BOOLEAN /\ baf \in BOOLEAN OBVIOUS
    <3>3. battle \in BOOLEAN /\ growth \in BOOLEAN OBVIOUS
    <3> QED BY <3>1, <3>2, <3>3
  <2>2. ph' \in PhaseType BY <2>1 DEF TypeOK, PhaseType
  <2>3. legs' \in LegType BY <2>1 DEF TypeOK, LegType
  <2>4. work' \in WorkType BY <2>1 DEF TypeOK, WorkType
  <2>5. rng' \in RngType BY <2>1 DEF TypeOK, RngType
  <2> QED BY <2>2, <2>3, <2>4, <2>5, <1>6 DEF Consolidate, TypeOK
<1>7. CASE BafAwards
  <2>1. legs' \in LegType BY <1>7 DEF BafAwards, TypeOK, LegType
  <2> QED BY <2>1, <1>l, <1>n, <1>7 DEF BafAwards, TypeOK
<1>8. CASE JackpotDaily
  <2>1. legs' \in LegType BY <1>8 DEF JackpotDaily, TypeOK, LegType
  <2> QED BY <2>1, <1>8 DEF JackpotDaily, TypeOK
<1>9. CASE EarlyBird
  <2>1. legs' \in LegType BY <1>9 DEF EarlyBird, TypeOK, LegType
  <2> QED BY <2>1, <1>l, <1>n, <1>9 DEF EarlyBird, TypeOK
<1>10. CASE JackpotTickets
  <2>1. legs' \in LegType BY <1>10 DEF JackpotTickets, NoLegs, LegType
  <2>2. CASE ph.counter + 1 >= PhaseDays
    <3>1. PICK met \in BOOLEAN :
            ph' = [ph EXCEPT !.transition = TRUE, !.counter = 0, !.turbo = FALSE, !.met = met]
      <4>1. PICK met \in IF ph.level % 100 = 0 /\ MayMeet THEN BOOLEAN ELSE {ph.met} :
              ph' = [ph EXCEPT !.transition = TRUE, !.counter = 0, !.turbo = FALSE, !.met = met]
        BY <2>2, <1>10 DEF JackpotTickets
      <4>2. met \in BOOLEAN BY DEF TypeOK, PhaseType
      <4> QED BY <4>1, <4>2
    <3>2. ph' \in PhaseType BY <3>1 DEF TypeOK, PhaseType
    <3> QED BY <3>2, <2>1, <2>2, <1>l, <1>n, <1>10 DEF JackpotTickets, TypeOK
  <2>3. CASE ~(ph.counter + 1 >= PhaseDays)
    <3>1. [ph EXCEPT !.counter = @ + 1] \in PhaseType BY DEF TypeOK, PhaseType
    <3> QED BY <3>1, <2>1, <2>3, <1>l, <1>n, <1>10, UnlockType DEF JackpotTickets, TypeOK
  <2> QED BY <2>2, <2>3
<1>11. CASE PhaseTransition
  <2>1. [ph EXCEPT !.transition = FALSE, !.start = rng.day, !.jackpot = FALSE] \in PhaseType
    BY DEF TypeOK, PhaseType, RngType
  <2> QED BY <2>1, <1>11, UnlockType DEF PhaseTransition, TypeOK
<1> QED BY <1>1, <1>2, <1>3, <1>4, <1>5, <1>6, <1>7, <1>8, <1>9, <1>10, <1>11 DEF DailyWork

(* The read consumers and the work between two sessions keep the state well formed. *)
LEMMA ConsumersTyped ==
  TypeOK /\ (ReadConsumers \/ PrepareSubscriptions \/ SeizeLoans \/ GrowthSettle \/ PublishRng) => TypeOK'
<1> SUFFICES ASSUME TypeOK, ReadConsumers \/ PrepareSubscriptions \/ SeizeLoans \/ GrowthSettle \/ PublishRng
             PROVE  TypeOK'
  OBVIOUS
<1>r. rng \in RngType /\ work \in WorkType /\ ReadBuffer \in Buffers
  BY DEF TypeOK, ReadBuffer, WorkType, Buffers
<1>1. CASE RedemptionWork
  <2>1. work' \in WorkType BY <1>1, <1>r DEF RedemptionWork, Settles, WorkType
  <2> QED BY <2>1, <1>1 DEF RedemptionWork, TypeOK
<1>2. CASE AfkingWork
  <2>1. work' \in WorkType BY <1>2, <1>r DEF AfkingWork, Settles, WorkType
  <2> QED BY <2>1, <1>r, <1>2, TryCompleteType DEF AfkingWork, TypeOK
<1>3. CASE HumanBoxWork
  <2>1. [work EXCEPT !.human = TRUE] \in WorkType BY <1>r DEF WorkType
  <2>2. [[work EXCEPT !.human = TRUE] EXCEPT !.box[ReadBuffer] = 0] \in WorkType
    BY <2>1, <1>r, WorkEntryType
  <2>3. work' \in WorkType BY <2>2, <1>3 DEF HumanBoxWork, Settles
  <2>4. ph.level + 1 \in Int /\ ph.level + 2 \in Int BY DEF TypeOK, PhaseType
  <2>5. tix' \in TicketType BY <2>4, <1>3, AwardType DEF HumanBoxWork, TypeOK
  <2> QED BY <2>3, <2>5, <1>r, <1>3, TryCompleteType DEF HumanBoxWork, TypeOK
<1>4. CASE DegeneretteWork
  <2>1. work' \in WorkType BY <1>4, <1>r, WorkEntryType DEF DegeneretteWork, Settles
  <2> QED BY <2>1, <1>r, <1>4, TryCompleteType DEF DegeneretteWork, TypeOK
<1>5. CASE DecimatorWork
  <2>1. work' \in WorkType BY <1>5, <1>r DEF DecimatorWork, Settles, WorkType
  <2> QED BY <2>1, <1>r, <1>5, TryCompleteType DEF DecimatorWork, TypeOK
<1>6. CASE CrapsReadWork
  <2>1. work' \in WorkType BY <1>6, <1>r, WorkEntryType DEF CrapsReadWork, Settles
  <2> QED BY <2>1, <1>r, <1>6, TryCompleteType DEF CrapsReadWork, TypeOK
<1>7. CASE PrepareSubscriptions
  <2>0. work.resetDay \in Nat /\ daily.idx \in Nat BY DEF TypeOK, DailyType, WorkType
  <2>1. CASE work.resetDay <= daily.idx
    <3>0. ~(work.resetDay > daily.idx) BY <2>0, <2>1
    <3>1. work' = [work EXCEPT !.resetDay = daily.idx + 1, !.subs = FALSE] /\ tix' = tix
      BY <3>0, <1>7 DEF PrepareSubscriptions
    <3>2. daily.idx + 1 \in Nat BY <2>0
    <3>3. work' \in WorkType BY <3>1, <3>2, <1>r DEF WorkType
    <3> QED BY <3>1, <3>3, <1>7 DEF PrepareSubscriptions, TypeOK
  <2>2. CASE work.resetDay > daily.idx
    <3>0. ~(work.resetDay <= daily.idx) BY <2>0, <2>2
    <3>1. PICK boxes \in BOOLEAN :
            work' = [work EXCEPT !.subs = TRUE, !.afking = IF boxes THEN Stamp ELSE @]
      BY <3>0, <1>7 DEF PrepareSubscriptions
    <3>2. PICK n \in Nat : work' = [work EXCEPT !.subs = TRUE, !.afking = n]
      BY <3>1, <1>r, StampType DEF WorkType
    <3>3. work' \in WorkType BY <3>2, <1>r DEF WorkType
    <3>4. PICK l : tix' \in {tix, [tix EXCEPT !.queue[tix.write][l] = Stamp]}
      BY <3>0, <1>7 DEF PrepareSubscriptions
    <3>5. [tix EXCEPT !.queue[tix.write][l] = Stamp] \in TicketType
      BY StampType, TicketEntryType DEF TypeOK
    <3>6. tix' \in TicketType BY <3>4, <3>5 DEF TypeOK
    <3> QED BY <3>3, <3>6, <1>7 DEF PrepareSubscriptions, TypeOK
  <2> QED BY <2>0, <2>1, <2>2
<1>8. CASE SeizeLoans
  <2>1. ph' \in PhaseType BY <1>8 DEF SeizeLoans, TypeOK, PhaseType
  <2> QED BY <2>1, <1>8 DEF SeizeLoans, TypeOK
<1>9. CASE GrowthSettle
  <2>1. ph' \in PhaseType BY <1>9 DEF GrowthSettle, TypeOK, PhaseType
  <2> QED BY <2>1, <1>9 DEF GrowthSettle, TypeOK
<1>10. CASE PublishRng
  <2>1. rng' \in RngType BY <1>10 DEF PublishRng, TypeOK, RngType
  <2> QED BY <2>1, <1>10 DEF PublishRng, TypeOK
<1> QED BY <1>1, <1>2, <1>3, <1>4, <1>5, <1>6, <1>7, <1>8, <1>9, <1>10 DEF ReadConsumers

(* Paying the terminal draw keeps the state well formed. *)
LEMMA PayTyped == ASSUME TypeOK, NEW paid \in BOOLEAN, PayTerminal(paid) PROVE TypeOK'
<1>1. go' \in EndType BY DEF PayTerminal, TypeOK, EndType
<1>2. ph' \in PhaseType BY DEF PayTerminal, Drained, TypeOK, PhaseType
<1>3. legs' \in LegType BY DEF PayTerminal, TypeOK, LegType
<1>4. rng' \in RngType
  <2>1. rng' \in {rng, [Unlocked EXCEPT !.complete = @ \/ ConsumersComplete(work)]} BY DEF PayTerminal
  <2>2. Unlocked \in RngType BY DEF TypeOK, Unlocked, RngType
  <2>3. ASSUME NEW q PROVE [Unlocked EXCEPT !.complete = @ \/ q] \in RngType
    BY <2>2 DEF RngType
  <2> QED BY <2>1, <2>3 DEF TypeOK
<1>5. clock' \in ClockType BY ZeroAges DEF PayTerminal, TypeOK, ClockType
<1> QED BY <1>1, <1>2, <1>3, <1>4, <1>5 DEF PayTerminal, TypeOK

(* The endings keep the state well formed. *)
LEMMA TerminalTyped == TypeOK /\ TerminalWork => TypeOK'
<1> SUFFICES ASSUME TypeOK, TerminalWork PROVE TypeOK' OBVIOUS
<1>n. NoLegs \in LegType BY DEF NoLegs, LegType
<1>e. EnterTerminal(rng) \in RngType BY DEF EnterTerminal, TypeOK, RngType
<1>1. CASE TerminalEnter
  <2>1. go' \in EndType BY <1>1 DEF TerminalEnter, LatchLevel, TypeOK, EndType
  <2> QED BY <2>1, <1>n, <1>e, <1>1 DEF TerminalEnter, TypeOK
<1>2. CASE TerminalLoans
  <2>1. go' \in EndType BY <1>2 DEF TerminalLoans, TypeOK, EndType
  <2>2. ph' \in PhaseType BY <1>2 DEF TerminalLoans, TypeOK, PhaseType
  <2> QED BY <2>1, <2>2, <1>2 DEF TerminalLoans, TypeOK
<1>3. CASE DeadLatch
  <2>1. go' \in EndType BY <1>3 DEF DeadLatch, LatchLevel, TypeOK, EndType
  <2>2. ASSUME NEW r \in RngType PROVE DropWord(r) \in RngType BY DEF DropWord, RngType
  <2>3. rng' \in RngType BY <2>2, <1>e, <1>3 DEF DeadLatch, TypeOK
  <2>4. legs' \in LegType BY <1>n, <1>3 DEF DeadLatch, TypeOK
  <2> QED BY <2>1, <2>3, <2>4, <1>3 DEF DeadLatch, TypeOK
<1>4. CASE DeadPay
  <2>1. go' \in EndType BY <1>4 DEF DeadPay, FinishTerminalPayout, TypeOK, EndType
  <2>2. ph' \in PhaseType BY <1>4 DEF DeadPay, Drained, TypeOK, PhaseType
  <2>3. clock' \in ClockType BY <1>4, ZeroAges DEF DeadPay, TypeOK, ClockType
  <2> QED BY <2>1, <2>2, <2>3, <1>4 DEF DeadPay, TypeOK
<1>5. CASE DropPreFreeze
  <2>1. rng' \in RngType BY <1>5 DEF DropPreFreeze, TypeOK, RngType
  <2> QED BY <2>1, <1>5 DEF DropPreFreeze, TypeOK
<1>6. CASE TerminalDrainCommitted
  <2>1. tix' \in TicketType BY <1>6, TicketEntryType DEF TerminalDrainCommitted, TypeOK
  <2> QED BY <2>1, <1>6 DEF TerminalDrainCommitted, TypeOK
<1>7. CASE ApplyTerminalRng
  <2>1. [rng EXCEPT !.published = TRUE] \in RngType /\ rng.day \in Nat BY DEF TypeOK, RngType
  <2> QED BY <2>1, <1>7, ApplyType DEF ApplyTerminalRng, TypeOK
<1>8. CASE TerminalDrainBatch
  <2>1. tix' \in TicketType BY <1>8, TicketEntryType DEF TerminalDrainBatch, TypeOK
  <2> QED BY <2>1, <1>8 DEF TerminalDrainBatch, TypeOK
<1>9. CASE TerminalPay BY <1>9, PayTyped DEF TerminalPay
<1>10. CASE ResumeTerminalPayout BY <1>10, PayTyped DEF ResumeTerminalPayout
<1>11. CASE FinalSweep
  <2>1. go' \in EndType BY <1>11 DEF FinalSweep, TypeOK, EndType
  <2> QED BY <2>1, <1>11 DEF FinalSweep, TypeOK
<1> QED BY <1>1, <1>2, <1>3, <1>4, <1>5, <1>6, <1>7, <1>8, <1>9, <1>10, <1>11 DEF TerminalWork

(* Accepted or refused, the terminal request keeps the state well formed. *)
LEMMA TerminalRequestTyped ==
  ASSUME TypeOK, NEW accepted \in BOOLEAN, RequestTerminalRng(accepted) PROVE TypeOK'
<1>1. go' \in EndType BY DEF RequestTerminalRng, TypeOK, EndType
<1>2. clock' \in ClockType BY ZeroAges DEF RequestTerminalRng, TypeOK, ClockType
<1>3. work' \in WorkType BY SealType DEF RequestTerminalRng, TypeOK
<1>4. vrf' \in VrfType BY StampType DEF RequestTerminalRng, TypeOK
<1>5. tix' \in TicketType BY SlotType DEF RequestTerminalRng, TypeOK
<1>6. rng' \in RngType
  <2>1. ArmTerminal(rng) \in RngType
    <3>1. daily.idx + 1 \in Nat BY DEF TypeOK, DailyType
    <3> QED BY <3>1 DEF ArmTerminal, TypeOK, RngType
  <2> DEFINE r == [ArmTerminal(rng) EXCEPT !.complete = @ /\ ~TerminalSwap]
  <2>2. r \in RngType BY <2>1 DEF RngType
  <2>3. rng' = IF accepted
               THEN [r EXCEPT !.complete = FALSE, !.published = FALSE, !.word = 0,
                              !.id = Ask, !.active = TRUE, !.locked = TRUE]
               ELSE r
    BY DEF RequestTerminalRng
  <2> HIDE DEF r
  <2> QED BY <2>2, <2>3, StampType DEF RngType
<1> QED BY <1>1, <1>2, <1>3, <1>4, <1>5, <1>6 DEF RequestTerminalRng, TypeOK

(* Every step keeps the state well formed. *)
LEMMA NextTyped == TypeOK /\ [Next]_vars => TypeOK'
<1> SUFFICES ASSUME TypeOK, [Next]_vars PROVE TypeOK' OBVIOUS
<1>1. CASE UNCHANGED vars BY <1>1 DEF vars, TypeOK
<1>2. CASE Next
  BY <1>2, EntriesTyped, RequestsTyped, TicketsTyped, DailyWorkTyped, ConsumersTyped,
     TerminalTyped, TerminalRequestTyped DEF Next, MinerStep, LiveWork, Requests
<1> QED BY <1>1, <1>2

(* In every reachable state of every instance each storage slot holds a value of its type: the
   saturated clock, the queues, the session, the phase and the ending (DegenerusGameStorage's
   layout, written by every handler of the engine). *)
THEOREM TypeInvariant == Spec => []TypeOK
<1>1. Init => TypeOK BY InitTyped
<1>2. TypeOK /\ [Next]_vars => TypeOK' BY NextTyped
<1> QED BY <1>1, <1>2, PTL DEF Spec

-----------------------------------------------------------------------------
(* Settlement. *)

Inv == TypeOK /\ SettlementInv

(* A live game has not turned its consumers off. *)
LEMMA LiveSession == Live => ~rng.terminal
  BY DEF Live, EndingReason

(* What a selected worker may rely on: the scheduler's branches, read backwards. *)
LEMMA Scheduled ==
  /\ NextMinerAction = "Publish" => rng.active
  /\ NextMinerAction \in {"Tickets", "DailyApply", "DailyPhase"} => ~rng.complete
  /\ NextMinerAction \in {"RequestDaily", "PrepareSubscriptions", "RequestMidday"}
       => rng.complete /\ ~rng.terminal
  /\ NextMinerAction = "Terminal" => ~Live \/ go.over
<1>1. NextMinerAction = "Publish" => rng.active
  BY DEF NextMinerAction, ConsumerStage
<1>2. NextMinerAction \in {"Tickets", "DailyApply", "DailyPhase"} => ~rng.complete
  BY DEF NextMinerAction, ConsumerStage
<1>3. NextMinerAction \in {"RequestDaily", "PrepareSubscriptions", "RequestMidday"}
        => rng.complete /\ Live
  BY DEF NextMinerAction, ConsumerStage
<1>4. NextMinerAction = "Terminal" => ~Live \/ go.over
  BY DEF NextMinerAction, ConsumerStage
<1> QED BY <1>1, <1>2, <1>3, <1>4, LiveSession

Consumers == {"redemption", "afking", "boxes", "bets", "decimator", "craps"}

(* A read consumer is selected only for an open, published cohort outside the lock. *)
LEMMA ConsumerSelected ==
  NextMinerAction \in Consumers =>
    ReadPrepared /\ ~rng.complete /\ ~rng.terminal /\ ~rng.locked /\ ~rng.active
<1>1. NextMinerAction \in Consumers => ConsumerStage \in Consumers
  BY DEF NextMinerAction, Consumers
<1>2. ConsumerStage \in Consumers =>
        ReadPrepared /\ ~rng.complete /\ ~rng.terminal /\ ~rng.locked /\ ~rng.active
  BY DEF ConsumerStage, Consumers
<1> QED BY <1>1, <1>2

-----------------------------------------------------------------------------

(* Steps that touch neither the queues nor the request. *)
LEMMA KeepsInv ==
  ASSUME Inv, UNCHANGED <<work, vrf>>,
         rng'.id = rng.id, rng'.word = rng.word,
         rng'.complete = rng.complete, rng'.terminal = rng.terminal,
         rng'.complete /\ ~rng'.terminal =>
           /\ ~rng'.active /\ ~rng'.locked
           /\ tix'.midDay = 0 /\ (tix'.processed \/ rng'.id = 0),
         go'.lvl # 0 => rng'.terminal
  PROVE  SettlementInv'
<1>1. CompleteMeansDrained'
  BY DEF Inv, SettlementInv, CompleteMeansDrained, ReadBuffer
<1>2. StampsBounded' BY DEF Inv, SettlementInv, StampsBounded, Stamp
<1>3. SealedBeforeRequest' BY DEF Inv, SettlementInv, SealedBeforeRequest, ReadBuffer
<1>4. WordIsRequested' BY DEF Inv, SettlementInv, WordIsRequested
<1>5. (work.human => work.box[ReadBuffer] = 0)' BY DEF Inv, SettlementInv, ReadBuffer
<1> QED BY <1>1, <1>2, <1>3, <1>4, <1>5 DEF SettlementInv

(* The invariant's part about the session, when nothing of it changes. *)
LEMMA QuietSession ==
  ASSUME Inv, UNCHANGED <<work, vrf, rng>>, tix'.midDay = tix.midDay, tix'.processed = tix.processed,
         go'.lvl = go.lvl
  PROVE  SettlementInv'
<1>1. rng.complete /\ ~rng.terminal =>
        /\ ~rng.active /\ ~rng.locked /\ tix.midDay = 0 /\ (tix.processed \/ rng.id = 0)
  BY DEF Inv, SettlementInv, CompleteMeansDrained
<1>2. go.lvl # 0 => rng.terminal BY DEF Inv, SettlementInv
<1> QED BY <1>1, <1>2, KeepsInv

(* A worker that shortens the queues and tries to certify. *)
LEMMA WorkerInv ==
  ASSUME Inv, NEW r, NEW done, ~rng.complete, CertifyRngComplete(r, done),
         r \in RngType, r.id = rng.id, r.word = rng.word, r.terminal = rng.terminal, ~r.complete,
         done => ConsumersComplete(work') /\ ~r.active /\ ~r.locked,
         work' \in WorkType, work'.write = work.write,
         \A b \in Buffers : /\ work'.box[b] <= work.box[b] /\ work'.bet[b] <= work.bet[b]
                            /\ work'.craps[b] <= work.craps[b],
         work'.open = work.open, work'.settling <= work.settling, work'.afking <= work.afking,
         work'.human => work'.box[ReadBuffer] = 0,
         UNCHANGED <<vrf, go>>, tix'.midDay = tix.midDay, tix'.processed = tix.processed
  PROVE  SettlementInv'
<1>r. rng' = IF done THEN [r EXCEPT !.complete = TRUE] ELSE r BY DEF CertifyRngComplete
<1>1. /\ rng'.id = rng.id /\ rng'.word = rng.word /\ rng'.terminal = rng.terminal
      /\ rng'.active = r.active /\ rng'.locked = r.locked
  BY <1>r DEF RngType
<1>d. rng'.complete => done BY <1>r
<1>t. TypeOK /\ SettlementInv BY DEF Inv
<1>b. ReadBuffer \in Buffers /\ ReadBuffer' = ReadBuffer
  BY <1>t DEF TypeOK, WorkType, Buffers, ReadBuffer
<1>n. \A b \in Buffers :
        /\ work.box[b] \in Nat /\ work.bet[b] \in Nat /\ work.craps[b] \in Nat
        /\ work'.box[b] \in Nat /\ work'.bet[b] \in Nat /\ work'.craps[b] \in Nat
  BY <1>t DEF TypeOK, WorkType, SessionQueue
<1>m. /\ work.settling \in Nat /\ work.afking \in Nat /\ work'.settling \in Nat /\ work'.afking \in Nat
      /\ rng.id \in Nat /\ Stamp \in Nat /\ work.open \in Nat
  BY <1>t, StampType DEF TypeOK, WorkType, RngType
<1>2. CompleteMeansDrained'
  BY <1>1, <1>d, <1>b DEF CompleteMeansDrained, ConsumersComplete, ReadPrepared, ReadBuffer
<1>3. StampsBounded'
  <2>1. Stamp' = Stamp BY DEF Stamp
  <2> QED BY <2>1, <1>t, <1>n, <1>m DEF SettlementInv, StampsBounded
<1>4. SealedBeforeRequest'
  BY <1>1, <1>t, <1>b, <1>n, <1>m DEF SettlementInv, SealedBeforeRequest
<1>5. WordIsRequested' BY <1>1, <1>t DEF SettlementInv, WordIsRequested
<1>6. (work.human => work.box[ReadBuffer] = 0)' BY <1>b
<1>7. (go.lvl # 0 => rng.terminal)' BY <1>1, <1>t DEF SettlementInv
<1> QED BY <1>2, <1>3, <1>4, <1>5, <1>6, <1>7 DEF SettlementInv
(* Sealing: the buffers swap over a settled cohort, and the request is asked after every entry. *)
LEMMA SealInv ==
  ASSUME Inv, vrf' = AskVrf, UNCHANGED go,
         rng.complete, ~rng.terminal, work' = SealRngWriteBuffer(work),
         ~rng'.complete, rng'.id = Ask, rng'.word = 0, rng'.terminal = rng.terminal
  PROVE  SettlementInv'
<1>t. TypeOK /\ SettlementInv BY DEF Inv
<1>d. work.settling = 0 /\ work.human BY <1>t DEF SettlementInv, CompleteMeansDrained
<1>s. work' = IF work.open = 0 THEN SwapRngBuffers(work)
              ELSE [SwapRngBuffers(work) EXCEPT !.settling = work.open, !.open = 0]
  BY <1>d DEF SealRngWriteBuffer, CloseRedemptionBatch, SwapRngBuffers
<1>w. /\ work'.write = 1 - work.write /\ work'.human = FALSE
      /\ work'.box = [b \in Buffers |-> IF b = work.write THEN work.box[b] ELSE 0]
      /\ work'.bet = [b \in Buffers |-> IF b = work.write THEN work.bet[b] ELSE 0]
      /\ work'.craps = work.craps /\ work'.afking = work.afking
      /\ work'.settling = work.open /\ work'.open = 0
  <2>1. SwapRngBuffers(work) \in WorkType BY <1>t, SealType DEF TypeOK
  <2>2. work.open \in Nat BY <1>t DEF TypeOK, WorkType
  <2> QED BY <1>s, <1>d, <1>t DEF SwapRngBuffers, TypeOK, WorkType
<1>a. Ask \in Nat /\ Stamp = Ask /\ Stamp' = Ask + 1 /\ vrf'.asks = Ask
  BY <1>t, StampType DEF Stamp, Ask, AskVrf, TypeOK, VrfType
<1>n. /\ \A b \in Buffers : work.box[b] \in Nat /\ work.bet[b] \in Nat /\ work.craps[b] \in Nat
      /\ work.open \in Nat /\ work.afking \in Nat /\ work.write \in Buffers
  BY <1>t DEF TypeOK, WorkType, SessionQueue
<1>b. /\ \A b \in Buffers : work.box[b] <= Ask /\ work.bet[b] <= Ask /\ work.craps[b] <= Ask
      /\ work.open <= Ask /\ work.afking <= Ask
  BY <1>t, <1>a DEF SettlementInv, StampsBounded
<1>2. CompleteMeansDrained' BY DEF CompleteMeansDrained
<1>3. StampsBounded' BY <1>a, <1>b, <1>n, <1>w DEF StampsBounded
<1>4. SealedBeforeRequest'
  <2>1. ReadBuffer' = work.write BY <1>w, <1>n DEF ReadBuffer, Buffers
  <2> QED BY <2>1, <1>b, <1>n, <1>w DEF SealedBeforeRequest
<1>5. WordIsRequested' BY <1>a DEF WordIsRequested
<1>6. (work.human => work.box[ReadBuffer] = 0)' BY <1>w
<1>7. (go.lvl # 0 => rng.terminal)' BY <1>t DEF SettlementInv
<1> QED BY <1>2, <1>3, <1>4, <1>5, <1>6, <1>7 DEF SettlementInv

(* An entry joins an accumulating queue. *)
LEMMA EntryInv ==
  ASSUME Inv, UNCHANGED <<vrf, rng, go>>, tix'.midDay = tix.midDay, tix'.processed = tix.processed,
         work' \in WorkType, work'.write = work.write, work'.human = work.human, work'.dec = work.dec,
         work'.settling = work.settling,
         \A b \in Buffers :
           /\ work'.box[b] \in {work.box[b], Stamp} /\ work'.bet[b] \in {work.bet[b], Stamp}
           /\ work'.craps[b] \in {work.craps[b], Stamp},
         /\ work'.box[ReadBuffer] = work.box[ReadBuffer] /\ work'.bet[ReadBuffer] = work.bet[ReadBuffer]
         /\ work'.craps[ReadBuffer] = work.craps[ReadBuffer],
         work'.open \in {work.open, Stamp},
         work'.afking = work.afking \/ (work'.afking = Stamp /\ rng.complete)
  PROVE  SettlementInv'
<1>t. TypeOK /\ SettlementInv BY DEF Inv
<1>b. ReadBuffer' = ReadBuffer BY DEF ReadBuffer
<1>s. Stamp' = Stamp /\ Stamp \in Nat BY <1>t, StampType DEF Stamp
<1>1. CompleteMeansDrained' BY <1>t, <1>b DEF SettlementInv, CompleteMeansDrained
<1>2. StampsBounded' BY <1>t, <1>s DEF SettlementInv, StampsBounded
<1>3. SealedBeforeRequest' BY <1>t, <1>b DEF SettlementInv, SealedBeforeRequest
<1>4. WordIsRequested' BY <1>t DEF SettlementInv, WordIsRequested
<1> QED BY <1>t, <1>b, <1>1, <1>2, <1>3, <1>4 DEF SettlementInv

(* A request sent again, or answered: the sealed cohort stays, the id only grows. *)
LEMMA ResendInv ==
  ASSUME Inv, UNCHANGED <<work, tix, go>>, vrf'.asks \in Nat, vrf'.asks >= vrf.asks,
         \/ rng'.id = rng.id /\ rng'.word \in {rng.word, rng.id}
         \/ rng'.id = vrf'.asks /\ rng'.word = 0 /\ (rng.active \/ rng.locked),
         rng'.complete = rng.complete, rng'.terminal = rng.terminal,
         rng'.active = rng.active, rng'.locked = rng.locked
  PROVE  SettlementInv'
<1>t. TypeOK /\ SettlementInv BY DEF Inv
<1>b. ReadBuffer' = ReadBuffer BY DEF ReadBuffer
<1>s. Stamp' \in Nat /\ Stamp \in Nat /\ Stamp' >= Stamp /\ vrf.asks \in Nat
  BY <1>t, StampType DEF Stamp, TypeOK, VrfType
<1>n. /\ \A b \in Buffers : work.box[b] \in Nat /\ work.bet[b] \in Nat /\ work.craps[b] \in Nat
      /\ work.open \in Nat /\ work.afking \in Nat /\ work.settling \in Nat /\ rng.id \in Nat
      /\ ReadBuffer \in Buffers
  BY <1>t DEF TypeOK, WorkType, SessionQueue, RngType, ReadBuffer, Buffers
<1>i. rng.id <= vrf.asks BY <1>t DEF SettlementInv, WordIsRequested
<1>1. CompleteMeansDrained' BY <1>t, <1>b DEF SettlementInv, CompleteMeansDrained
<1>2. StampsBounded' BY <1>t, <1>s, <1>n DEF SettlementInv, StampsBounded
<1>3. SealedBeforeRequest' BY <1>t, <1>b, <1>n, <1>i, <1>s DEF SettlementInv, SealedBeforeRequest
<1>4. WordIsRequested' BY <1>t, <1>s, <1>n DEF SettlementInv, WordIsRequested
<1> QED BY <1>t, <1>b, <1>1, <1>2, <1>3, <1>4 DEF SettlementInv

-----------------------------------------------------------------------------

(* Player entries and time. *)
LEMMA EntriesInv == Inv /\ (PlayerEntry \/ Tick) => SettlementInv'
<1> SUFFICES ASSUME Inv, PlayerEntry \/ Tick PROVE SettlementInv' OBVIOUS
<1>t. TypeOK /\ SettlementInv BY DEF Inv
<1>p. TypeOK' BY <1>t, EntriesTyped
<1>w. /\ work \in WorkType /\ work' \in WorkType /\ work.write \in Buffers /\ ReadBuffer # work.write
      /\ ReadBuffer \in Buffers
  BY <1>t, <1>p DEF TypeOK, WorkType, Buffers, ReadBuffer
<1>q. work.box \in SessionQueue /\ work.bet \in SessionQueue /\ work.craps \in SessionQueue
  BY <1>w DEF WorkType
<1>1. CASE BuyBox
  <2>1. work' = [work EXCEPT !.box[work.write] = Stamp] /\ UNCHANGED <<vrf, rng, tix, go>> BY <1>1 DEF BuyBox
  <2>2. work'.box = [work.box EXCEPT ![work.write] = Stamp] /\ work' = [work EXCEPT !.box = work'.box]
    BY <2>1, <1>w DEF WorkType
  <2> QED BY <2>1, <2>2, <1>w, <1>q, EntryInv DEF WorkType, SessionQueue
<1>2. CASE PlaceBet
  <2>1. work' = [work EXCEPT !.bet[work.write] = Stamp] /\ UNCHANGED <<vrf, rng, tix, go>> BY <1>2 DEF PlaceBet
  <2>2. work'.bet = [work.bet EXCEPT ![work.write] = Stamp] /\ work' = [work EXCEPT !.bet = work'.bet]
    BY <2>1, <1>w DEF WorkType
  <2> QED BY <2>1, <2>2, <1>w, <1>q, EntryInv DEF WorkType, SessionQueue
<1>3. CASE CrapsWindow
  <2>1. work' = [work EXCEPT !.craps[work.write] = Stamp] /\ UNCHANGED <<vrf, rng, tix, go>> BY <1>3 DEF CrapsWindow
  <2>2. work'.craps = [work.craps EXCEPT ![work.write] = Stamp] /\ work' = [work EXCEPT !.craps = work'.craps]
    BY <2>1, <1>w DEF WorkType
  <2> QED BY <2>1, <2>2, <1>w, <1>q, EntryInv DEF WorkType, SessionQueue
<1>4. CASE RequestRedemption
  <2>1. work' = [work EXCEPT !.open = Stamp] /\ UNCHANGED <<vrf, rng, tix, go>> BY <1>4 DEF RequestRedemption
  <2> QED BY <2>1, <1>w, EntryInv DEF WorkType
<1>5. CASE BuyTicket
  <2>1. tix'.midDay = tix.midDay /\ tix'.processed = tix.processed BY <1>5, <1>t DEF BuyTicket, TypeOK, TicketType
  <2> QED BY <2>1, <1>5, QuietSession DEF BuyTicket
<1>6. CASE Nudge
  <2>1. rng' = [rng EXCEPT !.nudges = Stamp] BY <1>6 DEF Nudge
  <2>2. /\ rng'.id = rng.id /\ rng'.word = rng.word /\ rng'.complete = rng.complete
        /\ rng'.terminal = rng.terminal /\ rng'.active = rng.active /\ rng'.locked = rng.locked
    BY <2>1, <1>t DEF TypeOK, RngType
  <2>3. rng.complete /\ ~rng.terminal =>
          /\ ~rng.active /\ ~rng.locked /\ tix.midDay = 0 /\ (tix.processed \/ rng.id = 0)
    BY <1>t DEF SettlementInv, CompleteMeansDrained
  <2>4. go.lvl # 0 => rng.terminal BY <1>t DEF SettlementInv
  <2> QED BY <2>2, <2>3, <2>4, <1>6, KeepsInv DEF Nudge
<1>7. ASSUME NEW l \in Levels, BuyFar(l) PROVE SettlementInv'
  <2>1. tix'.midDay = tix.midDay /\ tix'.processed = tix.processed BY <1>7, <1>t DEF BuyFar, TypeOK, TicketType
  <2> QED BY <2>1, <1>7, QuietSession DEF BuyFar
<1>8. CASE Tick BY <1>8, QuietSession DEF Tick
<1> QED BY <1>1, <1>2, <1>3, <1>4, <1>5, <1>6, <1>7, <1>8 DEF PlayerEntry

(* Requests and answers. *)
LEMMA RequestsInv == Inv /\ (RequestDaily \/ RequestMidday \/ Answers \/ Recovery) => SettlementInv'
<1> SUFFICES ASSUME Inv, RequestDaily \/ RequestMidday \/ Answers \/ Recovery PROVE SettlementInv' OBVIOUS
<1>t. TypeOK /\ SettlementInv BY DEF Inv
<1>r. rng \in RngType BY <1>t DEF TypeOK
<1>c. rng.complete /\ ~rng.terminal =>
        /\ ~rng.active /\ ~rng.locked /\ tix.midDay = 0 /\ (tix.processed \/ rng.id = 0)
  BY <1>t DEF SettlementInv, CompleteMeansDrained
<1>g. go.lvl # 0 => rng.terminal BY <1>t DEF SettlementInv
<1>1. CASE RequestDaily
  <2>1. rng' = [FreshRequest(rng, daily.idx + 1) EXCEPT !.locked = TRUE] BY <1>1 DEF RequestDaily
  <2>2. ~rng'.complete /\ rng'.id = Ask /\ rng'.word = 0 /\ rng'.terminal = rng.terminal
    BY <2>1, <1>r DEF FreshRequest, RngType
  <2> QED BY <2>2, <1>1, Scheduled, SealInv DEF RequestDaily
<1>2. CASE RequestMidday
  <2>1. rng' = FreshRequest(rng, 0) BY <1>2 DEF RequestMidday
  <2>2. ~rng'.complete /\ rng'.id = Ask /\ rng'.word = 0 /\ rng'.terminal = rng.terminal
    BY <2>1, <1>r DEF FreshRequest, RngType
  <2> QED BY <2>2, <1>2, Scheduled, SealInv DEF RequestMidday
<1>3. CASE Answers
  <2>1. PICK a \in vrf.outstanding, reserved \in BOOLEAN : RawFulfillRandomWords(a, reserved)
    BY <1>3 DEF Answers
  <2>2. vrf'.asks = vrf.asks /\ vrf.asks \in Nat
    BY <2>1, <1>t DEF RawFulfillRandomWords, TypeOK, VrfType
  <2>3. rng' = IF AcceptsAnswer(a) /\ ~reserved THEN [rng EXCEPT !.word = a] ELSE rng
    BY <2>1 DEF RawFulfillRandomWords
  <2>4. /\ rng'.id = rng.id /\ rng'.word \in {rng.word, rng.id}
        /\ rng'.complete = rng.complete /\ rng'.terminal = rng.terminal
        /\ rng'.active = rng.active /\ rng'.locked = rng.locked
    BY <2>3, <1>r DEF AcceptsAnswer, RngType
  <2> QED BY <2>1, <2>2, <2>4, ResendInv DEF RawFulfillRandomWords
<1>a. AskVrf.asks = Ask /\ Ask \in Nat /\ vrf.asks \in Nat /\ Ask >= vrf.asks
  BY <1>t, StampType DEF AskVrf, Ask, TypeOK, VrfType
<1>4. CASE RetryRng
  <2>1. /\ rng' = [rng EXCEPT !.retrySpent = TRUE, !.id = Ask] /\ vrf' = AskVrf
        /\ rng.active /\ rng.word = 0
    BY <1>4 DEF RetryRng, RngRetryDue
  <2>2. /\ rng'.id = Ask /\ rng'.word = 0
        /\ rng'.complete = rng.complete /\ rng'.terminal = rng.terminal
        /\ rng'.active = rng.active /\ rng'.locked = rng.locked
    BY <2>1, <1>r DEF RngType
  <2> QED BY <2>1, <2>2, <1>a, <1>4, ResendInv DEF RetryRng
<1>5. CASE UpdateVrfCoordinatorAndSub
  <2>1. CASE ReissueDue
    <3>1. /\ rng' = [rng EXCEPT !.id = Ask, !.retrySpent = @ \/ rng.locked]
          /\ vrf' = [AskVrf EXCEPT !.old = vrf.asks]
      BY <2>1, <1>5 DEF UpdateVrfCoordinatorAndSub
    <3>2. /\ rng'.id = Ask /\ rng'.word = 0 /\ (rng.active \/ rng.locked)
          /\ rng'.complete = rng.complete /\ rng'.terminal = rng.terminal
          /\ rng'.active = rng.active /\ rng'.locked = rng.locked
      BY <2>1, <3>1, <1>r DEF ReissueDue, RngType
    <3>3. vrf'.asks = Ask BY <3>1, <1>a, <1>t DEF AskVrf, TypeOK, VrfType
    <3> QED BY <3>2, <3>3, <1>a, <1>5, ResendInv DEF UpdateVrfCoordinatorAndSub
  <2>2. CASE ~ReissueDue
    <3>1. rng' = rng /\ vrf' = [vrf EXCEPT !.old = vrf.asks]
      BY <2>2, <1>5 DEF UpdateVrfCoordinatorAndSub
    <3>2. vrf'.asks = vrf.asks BY <3>1, <1>t DEF TypeOK, VrfType
    <3> QED BY <3>1, <3>2, <1>a, <1>5, ResendInv DEF UpdateVrfCoordinatorAndSub
  <2> QED BY <2>1, <2>2
<1> QED BY <1>1, <1>2, <1>3, <1>4, <1>5 DEF Recovery

(* Publication, tickets, the daily word and the work between sessions. *)
LEMMA QuietWorkInv ==
  Inv /\ (PublishRng \/ TicketsRead \/ TicketsFar \/ TicketsDone \/ ApplyDailyWord
            \/ PrepareSubscriptions \/ SeizeLoans \/ GrowthSettle) => SettlementInv'
<1> SUFFICES ASSUME Inv,
                    PublishRng \/ TicketsRead \/ TicketsFar \/ TicketsDone \/ ApplyDailyWord
                      \/ PrepareSubscriptions \/ SeizeLoans \/ GrowthSettle
             PROVE  SettlementInv'
  OBVIOUS
<1>t. TypeOK /\ SettlementInv BY DEF Inv
<1>r. rng \in RngType /\ tix \in TicketType /\ work \in WorkType BY <1>t DEF TypeOK
<1>c. rng.complete /\ ~rng.terminal =>
        /\ ~rng.active /\ ~rng.locked /\ tix.midDay = 0 /\ (tix.processed \/ rng.id = 0)
  BY <1>t DEF SettlementInv, CompleteMeansDrained
<1>g. go.lvl # 0 => rng.terminal BY <1>t DEF SettlementInv
<1>1. CASE PublishRng
  <2>1. rng.active BY <1>1, Scheduled DEF PublishRng
  <2>2. rng' = [rng EXCEPT !.published = TRUE, !.active = rng.locked] BY <1>1 DEF PublishRng
  <2>3. /\ rng'.id = rng.id /\ rng'.word = rng.word
        /\ rng'.complete = rng.complete /\ rng'.terminal = rng.terminal
    BY <2>2, <1>r DEF RngType
  <2> QED BY <2>1, <2>3, <1>c, <1>g, <1>1, KeepsInv DEF PublishRng
<1>2. CASE TicketsRead
  <2>1. tix'.midDay = tix.midDay /\ tix'.processed = tix.processed BY <1>2, <1>r DEF TicketsRead, TicketType
  <2> QED BY <2>1, <1>2, QuietSession DEF TicketsRead
<1>3. CASE TicketsFar
  <2>1. tix'.midDay = tix.midDay /\ tix'.processed = tix.processed BY <1>3, <1>r DEF TicketsFar, TicketType
  <2> QED BY <2>1, <1>3, QuietSession DEF TicketsFar
<1>4. CASE TicketsDone
  <2>1. ~rng.complete BY <1>4, Scheduled DEF TicketsDone
  <2> QED BY <2>1, <1>g, <1>4, KeepsInv DEF TicketsDone
<1>5. CASE ApplyDailyWord
  <2>1. rng' = [rng EXCEPT !.nudges = 0] BY <1>5 DEF ApplyDailyWord, ApplyDailyRng
  <2>2. /\ rng'.id = rng.id /\ rng'.word = rng.word
        /\ rng'.complete = rng.complete /\ rng'.terminal = rng.terminal
        /\ rng'.active = rng.active /\ rng'.locked = rng.locked
    BY <2>1, <1>r DEF RngType
  <2> QED BY <2>2, <1>c, <1>g, <1>5, KeepsInv DEF ApplyDailyWord
<1>6. CASE PrepareSubscriptions
  <2>1. rng.complete BY <1>6, Scheduled DEF PrepareSubscriptions
  <2>2. /\ work'.write = work.write /\ work'.human = work.human /\ work'.dec = work.dec
        /\ work'.settling = work.settling /\ work'.open = work.open
        /\ work'.box = work.box /\ work'.bet = work.bet /\ work'.craps = work.craps
        /\ work'.afking \in {work.afking, Stamp}
    BY <1>6, <1>r DEF PrepareSubscriptions, WorkType
  <2>3. work' \in WorkType BY <1>6, <1>t, ConsumersTyped DEF TypeOK
  <2>4. tix'.midDay = tix.midDay /\ tix'.processed = tix.processed
    BY <1>6, <1>r DEF PrepareSubscriptions, TicketType
  <2> QED BY <2>1, <2>2, <2>3, <2>4, <1>6, EntryInv DEF PrepareSubscriptions
<1>7. CASE SeizeLoans BY <1>7, QuietSession DEF SeizeLoans
<1>8. CASE GrowthSettle BY <1>8, QuietSession DEF GrowthSettle
<1> QED BY <1>1, <1>2, <1>3, <1>4, <1>5, <1>6, <1>7, <1>8

(* Unlocking the day tries to certify the session on the queues as they are. *)
LEMMA UnlockInv ==
  ASSUME Inv, NEW p, UnlockRng(p), ~rng.complete, UNCHANGED <<work, vrf, go>>,
         tix'.midDay = tix.midDay, tix'.processed = tix.processed
  PROVE  SettlementInv'
<1>t. TypeOK /\ SettlementInv BY DEF Inv
<1>1. /\ Unlocked \in RngType /\ Unlocked.id = rng.id /\ Unlocked.word = rng.word
      /\ Unlocked.terminal = rng.terminal /\ Unlocked.complete = rng.complete
      /\ ~Unlocked.active /\ ~Unlocked.locked
  BY <1>t DEF TypeOK, Unlocked, RngType
<1> DEFINE done == ~Unlocked.complete /\ ~Unlocked.locked /\ ~Unlocked.active /\ ConsumersComplete(work)
<1>2. CertifyRngComplete(Unlocked, done) BY DEF UnlockRng, TryCompleteRng
<1>3. done => ConsumersComplete(work') BY DEF ConsumersComplete, ReadPrepared
<1>4. /\ work \in WorkType /\ work.settling \in Nat /\ work.afking \in Nat
      /\ \A b \in Buffers : work.box[b] \in Nat /\ work.bet[b] \in Nat /\ work.craps[b] \in Nat
  BY <1>t DEF TypeOK, WorkType, SessionQueue
<1>5. work.human => work.box[ReadBuffer] = 0 BY <1>t DEF SettlementInv
<1> HIDE DEF done
<1> QED BY <1>1, <1>2, <1>3, <1>4, <1>5, WorkerInv

(* Sealing a purchase day unlocks it. *)
LEMMA SealPurchaseInv ==
  ASSUME Inv, SealPurchaseDay(ph), ~rng.complete, UNCHANGED <<work, vrf, go>>,
         tix'.midDay = tix.midDay, tix'.processed = tix.processed
  PROVE  SettlementInv'
  BY UnlockInv DEF SealPurchaseDay

(* The parts of a day. *)
LEMMA DailyWorkInv == Inv /\ DailyWork => SettlementInv'
<1> SUFFICES ASSUME Inv, DailyWork PROVE SettlementInv' OBVIOUS
<1>t. TypeOK /\ SettlementInv BY DEF Inv
<1>r. rng \in RngType /\ tix \in TicketType /\ work \in WorkType BY <1>t DEF TypeOK
<1>g. go.lvl # 0 => rng.terminal BY <1>t DEF SettlementInv
<1>s. DailyStage # "none" => ~rng.complete BY Scheduled DEF DailyStage
<1>a. \A l : \A t \in Awards(tix, l) : t.midDay = tix.midDay /\ t.processed = tix.processed
  BY <1>r DEF Awards, TicketType
<1>1. CASE JackpotBattle BY <1>1, QuietSession DEF JackpotBattle
<1>2. CASE DegenesisDay BY <1>2, <1>s, UnlockInv DEF DegenesisDay
<1>3. CASE PurchaseDaily BY <1>3, <1>s, SealPurchaseInv, QuietSession DEF PurchaseDaily
<1>4. CASE EthDraw BY <1>4, <1>s, SealPurchaseInv, QuietSession DEF EthDraw
<1>5. CASE PurchaseTickets BY <1>5, <1>s, <1>a, SealPurchaseInv DEF PurchaseTickets
<1>6. CASE Consolidate
  <2>1. PICK battle \in BOOLEAN :
          work' = [work EXCEPT !.dec = @ \/ battle] /\ rng' = [rng EXCEPT !.complete = @ /\ ~battle]
    BY <1>6 DEF Consolidate
  <2>2. ~rng.complete BY <1>6, <1>s DEF Consolidate
  <2>3. rng' = rng BY <2>1, <2>2, <1>r DEF RngType
  <2>4. /\ ReadBuffer' = ReadBuffer /\ Stamp' = Stamp
        /\ work'.human = work.human /\ work'.box = work.box /\ work'.bet = work.bet
        /\ work'.craps = work.craps /\ work'.settling = work.settling /\ work'.open = work.open
        /\ work'.afking = work.afking
    BY <2>1, <1>6, <1>r DEF WorkType, ReadBuffer, Stamp, Consolidate
  <2>5. vrf' = vrf /\ go' = go BY <1>6 DEF Consolidate
  <2> QED BY <2>2, <2>3, <2>4, <2>5, <1>t
          DEF SettlementInv, CompleteMeansDrained, StampsBounded, SealedBeforeRequest, WordIsRequested
<1>7. CASE BafAwards BY <1>7, <1>a, QuietSession DEF BafAwards
<1>8. CASE JackpotDaily BY <1>8, QuietSession DEF JackpotDaily
<1>9. CASE EarlyBird BY <1>9, <1>a, QuietSession DEF EarlyBird
<1>10. CASE JackpotTickets BY <1>10, <1>s, <1>a, UnlockInv, QuietSession DEF JackpotTickets
<1>11. CASE PhaseTransition BY <1>11, <1>s, UnlockInv DEF PhaseTransition
<1> QED BY <1>1, <1>2, <1>3, <1>4, <1>5, <1>6, <1>7, <1>8, <1>9, <1>10, <1>11 DEF DailyWork

(* A consumer's last worker certifies on the queues it leaves. *)
LEMMA ConsumerInv ==
  ASSUME Inv, NextMinerAction \in Consumers, TryCompleteRng(rng, work'),
         work' \in WorkType, work'.write = work.write,
         \A b \in Buffers : /\ work'.box[b] <= work.box[b] /\ work'.bet[b] <= work.bet[b]
                            /\ work'.craps[b] <= work.craps[b],
         work'.open = work.open, work'.settling = work.settling, work'.afking <= work.afking,
         work'.human => work'.box[ReadBuffer] = 0,
         UNCHANGED <<vrf, go>>, tix'.midDay = tix.midDay, tix'.processed = tix.processed
  PROVE  SettlementInv'
<1> DEFINE done == ~rng.complete /\ ~rng.locked /\ ~rng.active /\ ConsumersComplete(work')
<1>1. CertifyRngComplete(rng, done) BY DEF TryCompleteRng
<1>2. ~rng.complete BY ConsumerSelected
<1>3. rng \in RngType /\ work.settling \in Nat BY DEF Inv, TypeOK, WorkType
<1>4. done => ConsumersComplete(work') /\ ~rng.active /\ ~rng.locked OBVIOUS
<1>5. work'.settling <= work.settling BY <1>3
<1> HIDE DEF done
<1> QED BY <1>1, <1>2, <1>3, <1>4, <1>5, WorkerInv

(* The six read consumers, in the scheduler's order. *)
LEMMA ReadConsumersInv == Inv /\ ReadConsumers => SettlementInv'
<1> SUFFICES ASSUME Inv, ReadConsumers PROVE SettlementInv' OBVIOUS
<1>t. TypeOK /\ SettlementInv BY DEF Inv
<1>p. work' \in WorkType BY <1>t, ConsumersTyped DEF TypeOK
<1>r. /\ tix \in TicketType /\ work \in WorkType /\ ReadBuffer \in Buffers
      /\ work.box \in SessionQueue /\ work.bet \in SessionQueue /\ work.craps \in SessionQueue
      /\ work.afking \in Nat /\ work.settling \in Nat
  BY <1>t DEF TypeOK, WorkType, ReadBuffer, Buffers
<1>n. \A b \in Buffers : work.box[b] \in Nat /\ work.bet[b] \in Nat /\ work.craps[b] \in Nat
  BY <1>r DEF SessionQueue
<1>h. work.human => work.box[ReadBuffer] = 0 BY <1>t DEF SettlementInv
<1>1. CASE RedemptionWork
  <2>1. work' = [work EXCEPT !.settling = 0] /\ UNCHANGED <<clock, daily, rng, vrf, tix, ph, legs, go>>
        /\ NextMinerAction = "redemption"
    BY <1>1 DEF RedemptionWork, Settles
  <2>2. ~rng.complete BY <2>1, ConsumerSelected DEF Consumers
  <2>3. /\ ReadBuffer' = ReadBuffer /\ Stamp' = Stamp
        /\ work'.human = work.human /\ work'.box = work.box /\ work'.bet = work.bet
        /\ work'.craps = work.craps /\ work'.settling = 0 /\ work'.open = work.open
        /\ work'.afking = work.afking
    BY <2>1, <1>r DEF WorkType, ReadBuffer, Stamp
  <2>4. Stamp \in Nat /\ rng.id \in Nat BY <1>t, StampType DEF TypeOK, RngType
  <2>5. StampsBounded' BY <2>1, <2>3, <2>4, <1>t DEF SettlementInv, StampsBounded
  <2>6. SealedBeforeRequest' BY <2>1, <2>3, <2>4, <1>t DEF SettlementInv, SealedBeforeRequest
  <2> QED BY <2>1, <2>2, <2>3, <2>5, <2>6, <1>t
          DEF SettlementInv, CompleteMeansDrained, WordIsRequested
<1>2. CASE AfkingWork
  <2>1. work' = [work EXCEPT !.afking = 0] /\ NextMinerAction \in Consumers
    BY <1>2 DEF AfkingWork, Settles, Consumers
  <2>2. /\ work'.write = work.write /\ work'.human = work.human /\ work'.box = work.box
        /\ work'.bet = work.bet /\ work'.craps = work.craps /\ work'.open = work.open
        /\ work'.settling = work.settling /\ work'.afking = 0
    BY <2>1, <1>r DEF WorkType
  <2> QED BY <2>1, <2>2, <1>p, <1>r, <1>n, <1>h, <1>2, ConsumerInv DEF AfkingWork
<1>3. CASE HumanBoxWork
  <2>1. work' = [work EXCEPT !.human = TRUE, !.box[ReadBuffer] = 0] /\ NextMinerAction \in Consumers
    BY <1>3 DEF HumanBoxWork, Settles, Consumers
  <2>2. /\ work'.write = work.write /\ work'.box = [work.box EXCEPT ![ReadBuffer] = 0]
        /\ work'.bet = work.bet /\ work'.craps = work.craps /\ work'.open = work.open
        /\ work'.settling = work.settling /\ work'.afking = work.afking
    BY <2>1, <1>r DEF WorkType
  <2>3. work'.box[ReadBuffer] = 0 /\ \A b \in Buffers : work'.box[b] <= work.box[b]
    BY <2>2, <1>r, <1>n DEF SessionQueue
  <2>4. tix'.midDay = tix.midDay /\ tix'.processed = tix.processed
    BY <1>3, <1>r DEF HumanBoxWork, Awards, TicketType
  <2> QED BY <2>1, <2>2, <2>3, <2>4, <1>p, <1>r, <1>n, <1>3, ConsumerInv DEF HumanBoxWork
<1>4. CASE DegeneretteWork
  <2>1. work' = [work EXCEPT !.bet[ReadBuffer] = 0] /\ NextMinerAction \in Consumers
    BY <1>4 DEF DegeneretteWork, Settles, Consumers
  <2>2. /\ work'.write = work.write /\ work'.human = work.human /\ work'.box = work.box
        /\ work'.bet = [work.bet EXCEPT ![ReadBuffer] = 0]
        /\ work'.craps = work.craps /\ work'.open = work.open
        /\ work'.settling = work.settling /\ work'.afking = work.afking
    BY <2>1, <1>r DEF WorkType
  <2>3. \A b \in Buffers : work'.bet[b] <= work.bet[b] BY <2>2, <1>r, <1>n DEF SessionQueue
  <2> QED BY <2>1, <2>2, <2>3, <1>p, <1>r, <1>n, <1>h, <1>4, ConsumerInv DEF DegeneretteWork
<1>5. CASE DecimatorWork
  <2>1. work' = [work EXCEPT !.dec = FALSE] /\ NextMinerAction \in Consumers
    BY <1>5 DEF DecimatorWork, Settles, Consumers
  <2>2. /\ work'.write = work.write /\ work'.human = work.human /\ work'.box = work.box
        /\ work'.bet = work.bet /\ work'.craps = work.craps /\ work'.open = work.open
        /\ work'.settling = work.settling /\ work'.afking = work.afking
    BY <2>1, <1>r DEF WorkType
  <2> QED BY <2>1, <2>2, <1>p, <1>r, <1>n, <1>h, <1>5, ConsumerInv DEF DecimatorWork
<1>6. CASE CrapsReadWork
  <2>1. work' = [work EXCEPT !.craps[ReadBuffer] = 0] /\ NextMinerAction \in Consumers
    BY <1>6 DEF CrapsReadWork, Settles, Consumers
  <2>2. /\ work'.write = work.write /\ work'.human = work.human /\ work'.box = work.box
        /\ work'.bet = work.bet /\ work'.craps = [work.craps EXCEPT ![ReadBuffer] = 0]
        /\ work'.open = work.open
        /\ work'.settling = work.settling /\ work'.afking = work.afking
    BY <2>1, <1>r DEF WorkType
  <2>3. \A b \in Buffers : work'.craps[b] <= work.craps[b] BY <2>2, <1>r, <1>n DEF SessionQueue
  <2> QED BY <2>1, <2>2, <2>3, <1>p, <1>r, <1>n, <1>h, <1>6, ConsumerInv DEF CrapsReadWork
<1> QED BY <1>1, <1>2, <1>3, <1>4, <1>5, <1>6 DEF ReadConsumers

(* Once an ending has turned the consumers off, only the stamps' bounds are left to keep. *)
LEMMA TurnedOffInv ==
  ASSUME Inv, rng'.terminal, vrf'.asks \in Nat, vrf'.asks >= vrf.asks,
         work' = work \/ work' = SwapRngBuffers(work),
         rng'.id <= vrf'.asks, rng'.word # 0 => rng'.word = rng'.id \/ rng'.id = 0
  PROVE  SettlementInv'
<1>t. TypeOK /\ SettlementInv BY DEF Inv
<1>s. Stamp' \in Nat /\ Stamp \in Nat /\ Stamp' >= Stamp
  BY <1>t, StampType DEF Stamp, TypeOK, VrfType
<1>n. /\ \A b \in Buffers : work.box[b] \in Nat /\ work.bet[b] \in Nat /\ work.craps[b] \in Nat
      /\ work.open \in Nat /\ work.afking \in Nat /\ work.settling \in Nat /\ work \in WorkType
  BY <1>t DEF TypeOK, WorkType, SessionQueue
<1>w. /\ \A b \in Buffers : /\ work'.box[b] \in {work.box[b], 0} /\ work'.bet[b] \in {work.bet[b], 0}
                            /\ work'.craps[b] = work.craps[b]
      /\ work'.open = work.open /\ work'.afking = work.afking /\ work'.settling = work.settling
      /\ work'.human => work' = work
  <2>1. CASE work' = work BY <2>1
  <2>2. CASE work' = SwapRngBuffers(work) BY <2>2, <1>n DEF SwapRngBuffers, WorkType
  <2> QED BY <2>1, <2>2
<1>1. CompleteMeansDrained' /\ SealedBeforeRequest' BY DEF CompleteMeansDrained, SealedBeforeRequest
<1>2. StampsBounded' BY <1>t, <1>s, <1>n, <1>w DEF SettlementInv, StampsBounded
<1>3. WordIsRequested' BY DEF WordIsRequested
<1>4. (work.human => work.box[ReadBuffer] = 0)' BY <1>w, <1>t DEF SettlementInv, ReadBuffer
<1> QED BY <1>1, <1>2, <1>3, <1>4 DEF SettlementInv

(* Paying the ending closes its session. *)
LEMMA PayInv == ASSUME Inv, NEW paid \in BOOLEAN, PayTerminal(paid) PROVE SettlementInv'
<1>t. TypeOK /\ SettlementInv BY DEF Inv
<1>r. rng \in RngType /\ work \in WorkType BY <1>t DEF TypeOK
<1>u. UNCHANGED <<vrf, work, tix>> /\ go'.lvl = go.lvl BY <1>t DEF PayTerminal, TypeOK, EndType
<1>1. CASE ~paid
  BY <1>1, <1>u, QuietSession DEF PayTerminal
<1>2. CASE paid
  <2>1. rng' = [Unlocked EXCEPT !.complete = @ \/ ConsumersComplete(work)] BY <1>2 DEF PayTerminal
  <2>2. /\ rng'.id = rng.id /\ rng'.word = rng.word /\ rng'.terminal = rng.terminal
        /\ rng'.complete = (rng.complete \/ ConsumersComplete(work)) /\ ~rng'.active /\ ~rng'.locked
    BY <2>1, <1>r DEF Unlocked, RngType
  <2>3. CompleteMeansDrained'
    <3>1. ReadBuffer' = ReadBuffer BY <1>u DEF ReadBuffer
    <3> QED BY <3>1, <2>2, <1>u, <1>t
            DEF SettlementInv, CompleteMeansDrained, ConsumersComplete, ReadPrepared, ReadBuffer
  <2>4. rng.complete => rng'.complete BY <2>2
  <2> QED BY <2>2, <2>3, <2>4, <1>u, <1>t
          DEF SettlementInv, StampsBounded, SealedBeforeRequest, WordIsRequested, Stamp, ReadBuffer
<1> QED BY <1>1, <1>2

(* The endings. *)
LEMMA TerminalInv == Inv /\ TerminalWork => SettlementInv'
<1> SUFFICES ASSUME Inv, TerminalWork PROVE SettlementInv' OBVIOUS
<1>t. TypeOK /\ SettlementInv BY DEF Inv
<1>r. /\ rng \in RngType /\ tix \in TicketType /\ go \in EndType
      /\ vrf.asks \in Nat /\ vrf.asks >= vrf.asks
  BY <1>t DEF TypeOK, VrfType
<1>g. go.lvl # 0 => rng.terminal BY <1>t DEF SettlementInv
<1>i. rng.id <= vrf.asks /\ (rng.word # 0 => rng.word = rng.id \/ rng.id = 0)
  BY <1>t DEF SettlementInv, WordIsRequested
<1>1. CASE TerminalEnter
  <2>1. rng'.terminal /\ rng'.id = rng.id /\ rng'.word = rng.word
    BY <1>1, <1>r DEF TerminalEnter, EnterTerminal, RngType
  <2> QED BY <2>1, <1>1, <1>r, <1>i, TurnedOffInv DEF TerminalEnter
<1>2. CASE TerminalLoans
  <2>1. go'.lvl = go.lvl BY <1>2, <1>r DEF TerminalLoans, EndType
  <2> QED BY <2>1, <1>2, QuietSession DEF TerminalLoans
<1>3. CASE DeadLatch
  <2>1. rng' = DropWord(IF go.lvl = 0 THEN EnterTerminal(rng) ELSE rng) BY <1>3 DEF DeadLatch
  <2>2. CASE go.lvl = 0
    BY <2>1, <2>2, <1>3, <1>r, TurnedOffInv DEF DeadLatch, DropWord, EnterTerminal, RngType
  <2>3. CASE go.lvl # 0
    BY <2>1, <2>3, <1>3, <1>r, <1>g, TurnedOffInv DEF DeadLatch, DropWord, RngType
  <2> QED BY <2>2, <2>3
<1>4. CASE DeadPay
  <2>1. go'.lvl = go.lvl BY <1>4, <1>r DEF DeadPay, FinishTerminalPayout, EndType
  <2> QED BY <2>1, <1>4, QuietSession DEF DeadPay
<1>5. CASE DropPreFreeze
  <2>1. rng'.terminal /\ rng'.id = 0 BY <1>5, <1>r, <1>g DEF DropPreFreeze, RngType
  <2> QED BY <2>1, <1>5, <1>r, TurnedOffInv DEF DropPreFreeze
<1>6. CASE TerminalDrainCommitted
  <2>1. tix'.midDay = tix.midDay /\ tix'.processed = tix.processed
    BY <1>6, <1>r DEF TerminalDrainCommitted, TicketType
  <2> QED BY <2>1, <1>6, QuietSession DEF TerminalDrainCommitted
<1>7. CASE ApplyTerminalRng
  <2>1. rng' = [[rng EXCEPT !.published = TRUE] EXCEPT !.nudges = 0]
    BY <1>7 DEF ApplyTerminalRng, ApplyDailyRng
  <2>2. rng'.terminal /\ rng'.id = rng.id /\ rng'.word = rng.word
    BY <2>1, <1>7, <1>r, <1>g DEF ApplyTerminalRng, RngType
  <2> QED BY <2>2, <1>7, <1>r, <1>i, TurnedOffInv DEF ApplyTerminalRng
<1>8. CASE TerminalDrainBatch
  <2>1. tix'.midDay = tix.midDay /\ tix'.processed = tix.processed
    BY <1>8, <1>r DEF TerminalDrainBatch, TicketType
  <2> QED BY <2>1, <1>8, QuietSession DEF TerminalDrainBatch
<1>9. CASE TerminalPay BY <1>9, PayInv DEF TerminalPay
<1>10. CASE ResumeTerminalPayout BY <1>10, PayInv DEF ResumeTerminalPayout
<1>11. CASE FinalSweep
  <2>1. go'.lvl = go.lvl BY <1>11, <1>r DEF FinalSweep, EndType
  <2> QED BY <2>1, <1>11, QuietSession DEF FinalSweep
<1> QED BY <1>1, <1>2, <1>3, <1>4, <1>5, <1>6, <1>7, <1>8, <1>9, <1>10, <1>11 DEF TerminalWork

(* The ending's own request, accepted or refused. *)
LEMMA TerminalRequestInv ==
  ASSUME Inv, NEW accepted \in BOOLEAN, RequestTerminalRng(accepted) PROVE SettlementInv'
<1>t. TypeOK /\ SettlementInv BY DEF Inv
<1>r. rng \in RngType /\ vrf.asks \in Nat /\ Ask \in Nat /\ Ask >= vrf.asks /\ AskVrf.asks = Ask
  BY <1>t, StampType DEF TypeOK, VrfType, Ask, AskVrf
<1>g. rng.terminal BY <1>t DEF SettlementInv, RequestTerminalRng, AwaitsTerminalRequest
<1>i. rng.id <= vrf.asks /\ (rng.word # 0 => rng.word = rng.id \/ rng.id = 0)
  BY <1>t DEF SettlementInv, WordIsRequested
<1> DEFINE r == [ArmTerminal(rng) EXCEPT !.complete = @ /\ ~TerminalSwap]
<1>a. r \in RngType /\ r.terminal /\ r.id = rng.id /\ r.word \in {rng.word, 0}
  <2>1. daily.idx + 1 \in Nat BY <1>t DEF TypeOK, DailyType
  <2>2. /\ ArmTerminal(rng) \in RngType /\ ArmTerminal(rng).terminal /\ ArmTerminal(rng).id = rng.id
        /\ ArmTerminal(rng).word \in {rng.word, 0}
    BY <2>1, <1>r, <1>g DEF ArmTerminal, RngType
  <2> QED BY <2>2 DEF RngType
<1>q. rng' = IF accepted
             THEN [r EXCEPT !.complete = FALSE, !.published = FALSE, !.word = 0,
                            !.id = Ask, !.active = TRUE, !.locked = TRUE]
             ELSE r
  BY DEF RequestTerminalRng
<1> HIDE DEF r
<1>1. CASE accepted
  <2>1. rng'.terminal /\ rng'.id = Ask /\ rng'.word = 0 BY <1>1, <1>q, <1>a DEF RngType
  <2>2. vrf' = AskVrf /\ work' = SwapRngBuffers(work) BY <1>1 DEF RequestTerminalRng
  <2> QED BY <2>1, <2>2, <1>r, TurnedOffInv
<1>2. CASE ~accepted
  <2>1. rng'.terminal /\ rng'.id = rng.id /\ rng'.word \in {rng.word, 0} BY <1>2, <1>q, <1>a
  <2>2. vrf' = vrf /\ work' = work BY <1>2 DEF RequestTerminalRng
  <2> QED BY <2>1, <2>2, <1>r, <1>i, TurnedOffInv
<1> QED BY <1>1, <1>2

-----------------------------------------------------------------------------

(* Deployment, and the first day of a later level, satisfy the invariant. *)
LEMMA InitInv == Init => Inv
<1> SUFFICES ASSUME Init PROVE Inv OBVIOUS
<1>w. /\ work.write = 0 /\ work.box = NoEntries /\ work.bet = NoEntries /\ work.craps = NoEntries
      /\ work.human /\ work.open = 0 /\ work.settling = 0 /\ work.afking = 0 /\ ~work.dec
  BY DEF Init
<1>r. /\ rng.complete /\ ~rng.terminal /\ ~rng.active /\ ~rng.locked
      /\ rng.id = FirstWord /\ rng.word = FirstWord /\ vrf.asks = FirstWord
  BY DEF Init
<1>x. tix.midDay = 0 /\ tix.processed = (StartLevel # 0) /\ go.lvl = 0 BY DEF Init
<1>f. FirstWord \in {0, 1} /\ (StartLevel = 0 => FirstWord = 0) BY DEF FirstWord
<1>e. ReadBuffer = 1 /\ \A b \in Buffers : NoEntries[b] = 0
  BY <1>w DEF ReadBuffer, NoEntries
<1>b. 1 \in Buffers BY DEF Buffers
<1>1. CompleteMeansDrained BY <1>w, <1>r, <1>x, <1>f, <1>e, <1>b DEF CompleteMeansDrained
<1>2. StampsBounded BY <1>w, <1>r, <1>f, <1>e DEF StampsBounded, Stamp
<1>3. SealedBeforeRequest BY <1>r DEF SealedBeforeRequest
<1>4. WordIsRequested BY <1>r, <1>f DEF WordIsRequested
<1>5. TypeOK BY InitTyped
<1> QED BY <1>1, <1>2, <1>3, <1>4, <1>5, <1>w, <1>e, <1>b, <1>x DEF Inv, SettlementInv

(* Every step keeps the invariant. *)
LEMMA NextInv == Inv /\ [Next]_vars => Inv'
<1> SUFFICES ASSUME Inv, [Next]_vars PROVE Inv' OBVIOUS
<1>1. TypeOK' BY NextTyped DEF Inv
<1>2. CASE UNCHANGED vars BY <1>2, <1>1, QuietSession DEF vars, Inv
<1>3. CASE Next
  BY <1>3, <1>1, EntriesInv, RequestsInv, QuietWorkInv, DailyWorkInv, ReadConsumersInv, TerminalInv,
     TerminalRequestInv DEF Next, MinerStep, LiveWork, Requests, Inv
<1> QED BY <1>2, <1>3

(* The inductive invariant, with its types, holds in every reachable state. *)
LEMMA Invariance == Spec => []Inv
<1>1. Init => Inv BY InitInv
<1>2. Inv /\ [Next]_vars => Inv' BY NextInv
<1> QED BY <1>1, <1>2, PTL DEF Spec

(* What was sealed, when it was asked for and which word answers agree in every reachable state
   (_sealRngWriteBuffer, _requestVrfWord, rawFulfillRandomWords, _rngConsumersComplete). *)
THEOREM SettlementInvariant == Spec => []SettlementInv
<1>1. Inv => SettlementInv BY DEF Inv
<1> QED BY <1>1, Invariance, PTL

(* A certified session has settled every queue it sealed, whatever entries, recoveries, late answers
   and jackpot parts came in between (_certifyRngComplete against _swapRngBuffers). *)
THEOREM CertifiedIsDrained == Spec => []CompleteMeansDrained
<1>1. Inv => CompleteMeansDrained BY DEF Inv, SettlementInv
<1> QED BY <1>1, Invariance, PTL

-----------------------------------------------------------------------------
(* Settlement is blind.                                                     *)

(* Steps that settle nothing. *)
LEMMA SettlesNothing ==
  ASSUME Inv,
         work'.human => work.human,
         rng'.active \/ work'.bet[ReadBuffer] = work.bet[ReadBuffer],
         work'.craps[ReadBuffer] \in {work.craps[ReadBuffer], Stamp},
         work'.settling = work.settling \/ work.settling = 0,
         work'.afking \in {work.afking, Stamp}
  PROVE  SettlesBlind
<1>t. TypeOK BY DEF Inv
<1>s. Stamp \in Nat /\ Stamp # 0 BY <1>t, StampType DEF Stamp, TypeOK, VrfType
<1>n. rng.word \in Nat BY <1>t DEF TypeOK, RngType
<1> QED BY <1>s, <1>n DEF SettlesBlind

(* A selected consumer's cohort was sealed before the word it reads was asked for. *)
LEMMA SealedBeforeWord ==
  ASSUME Inv, NextMinerAction \in Consumers
  PROVE  /\ work.box[ReadBuffer] <= rng.word /\ work.bet[ReadBuffer] <= rng.word
         /\ work.craps[ReadBuffer] <= rng.word
         /\ work.settling <= rng.word /\ work.afking <= rng.word
<1>t. TypeOK /\ SettlementInv BY DEF Inv
<1>n. /\ ReadBuffer \in Buffers /\ rng.word \in Nat /\ rng.id \in Nat
      /\ work.settling \in Nat /\ work.afking \in Nat
      /\ \A b \in Buffers : work.box[b] \in Nat /\ work.bet[b] \in Nat /\ work.craps[b] \in Nat
  BY <1>t DEF TypeOK, RngType, WorkType, SessionQueue, ReadBuffer, Buffers
<1>1. rng.word # 0 /\ ~rng.complete /\ ~rng.terminal BY ConsumerSelected DEF ReadPrepared
<1>2. rng.id <= rng.word BY <1>1, <1>t, <1>n DEF SettlementInv, WordIsRequested
<1> QED BY <1>1, <1>2, <1>n, <1>t DEF SettlementInv, SealedBeforeRequest

(* Entries and time settle nothing. *)
LEMMA EntriesBlind == Inv /\ (PlayerEntry \/ Tick) => SettlesBlind
<1> SUFFICES ASSUME Inv, PlayerEntry \/ Tick PROVE SettlesBlind OBVIOUS
<1>w. /\ work \in WorkType /\ work.write \in Buffers /\ ReadBuffer # work.write
      /\ work.bet \in SessionQueue /\ work.craps \in SessionQueue
  BY DEF Inv, TypeOK, WorkType, Buffers, ReadBuffer
<1>1. CASE BuyBox BY <1>1, <1>w, SettlesNothing DEF BuyBox, WorkType
<1>2. CASE PlaceBet
  <2>1. work' = [work EXCEPT !.bet[work.write] = Stamp] BY <1>2 DEF PlaceBet
  <2> QED BY <2>1, <1>w, SettlesNothing DEF WorkType, SessionQueue
<1>3. CASE CrapsWindow
  <2>1. work' = [work EXCEPT !.craps[work.write] = Stamp] BY <1>3 DEF CrapsWindow
  <2> QED BY <2>1, <1>w, SettlesNothing DEF WorkType, SessionQueue
<1>4. CASE RequestRedemption BY <1>4, <1>w, SettlesNothing DEF RequestRedemption, WorkType
<1>5. CASE UNCHANGED work BY <1>5, SettlesNothing
<1> QED BY <1>1, <1>2, <1>3, <1>4, <1>5 DEF PlayerEntry, BuyTicket, Nudge, BuyFar, Tick

(* A request seals only onto settled queues. *)
LEMMA RequestsBlind == Inv /\ (Requests \/ Answers \/ Recovery) => SettlesBlind
<1> SUFFICES ASSUME Inv, Requests \/ Answers \/ Recovery PROVE SettlesBlind OBVIOUS
<1>w. work \in WorkType /\ rng \in RngType BY DEF Inv, TypeOK
<1>v. /\ SwapRngBuffers(work).human = FALSE /\ SwapRngBuffers(work).craps = work.craps
      /\ SwapRngBuffers(work).settling = work.settling /\ SwapRngBuffers(work).afking = work.afking
  BY <1>w DEF SwapRngBuffers, WorkType
<1>1. CASE RequestDaily \/ RequestMidday
  <2>1. work' = SealRngWriteBuffer(work) BY <1>1 DEF RequestDaily, RequestMidday
  <2>2. work.settling = 0
    BY <1>1, Scheduled DEF RequestDaily, RequestMidday, Inv, SettlementInv, CompleteMeansDrained
  <2>3. SwapRngBuffers(work) \in WorkType BY <1>w, SealType
  <2>4. work'.human = FALSE /\ work'.craps = work.craps /\ work'.afking = work.afking
    BY <2>1, <2>3, <1>v DEF SealRngWriteBuffer, CloseRedemptionBatch, WorkType
  <2>5. rng' \in {[FreshRequest(rng, daily.idx + 1) EXCEPT !.locked = TRUE], FreshRequest(rng, 0)}
    BY <1>1 DEF RequestDaily, RequestMidday
  <2>6. rng'.active BY <2>5, <1>w DEF FreshRequest, RngType
  <2> QED BY <2>2, <2>4, <2>6, SettlesNothing
<1>2. ASSUME NEW accepted \in BOOLEAN, RequestTerminalRng(accepted) PROVE SettlesBlind
  <2>1. CASE accepted
    <3>1. work' = SwapRngBuffers(work) BY <2>1, <1>2 DEF RequestTerminalRng
    <3> DEFINE r == [ArmTerminal(rng) EXCEPT !.complete = @ /\ ~TerminalSwap]
    <3>2. rng' = [r EXCEPT !.complete = FALSE, !.published = FALSE, !.word = 0,
                           !.id = Ask, !.active = TRUE, !.locked = TRUE]
      BY <2>1, <1>2 DEF RequestTerminalRng
    <3>3. "active" \in DOMAIN r BY <1>w DEF ArmTerminal, RngType
    <3> HIDE DEF r
    <3>4. rng'.active BY <3>2, <3>3
    <3> QED BY <3>1, <3>4, <1>v, SettlesNothing
  <2>2. CASE ~accepted
    <3>1. work' = work BY <2>2, <1>2 DEF RequestTerminalRng
    <3> QED BY <3>1, SettlesNothing
  <2> QED BY <2>1, <2>2
<1>3. CASE Answers \/ Recovery
  <2>1. UNCHANGED work
    BY <1>3 DEF Answers, Recovery, RawFulfillRandomWords, RetryRng, UpdateVrfCoordinatorAndSub
  <2> QED BY <2>1, SettlesNothing
<1> QED BY <1>1, <1>2, <1>3 DEF Requests

(* A worker settles only what its word could not have been known to. *)
LEMMA MinerBlind == Inv /\ MinerStep => SettlesBlind
<1> SUFFICES ASSUME Inv, MinerStep PROVE SettlesBlind OBVIOUS
<1>w. /\ work \in WorkType /\ ReadBuffer \in Buffers /\ rng.word \in Nat
      /\ work.settling \in Nat /\ work.afking \in Nat
      /\ work.box \in SessionQueue /\ work.bet \in SessionQueue /\ work.craps \in SessionQueue
  BY DEF Inv, TypeOK, WorkType, RngType, ReadBuffer, Buffers
<1>n. \A b \in Buffers : work.box[b] \in Nat /\ work.bet[b] \in Nat /\ work.craps[b] \in Nat
  BY <1>w DEF SessionQueue
<1>1. CASE ReadConsumers
  <2>1. NextMinerAction \in Consumers
    BY <1>1 DEF ReadConsumers, RedemptionWork, AfkingWork, HumanBoxWork, DegeneretteWork,
                DecimatorWork, CrapsReadWork, Settles, Consumers
  <2> QED BY <2>1, SealedBeforeWord DEF SettlesBlind
<1>2. CASE PrepareSubscriptions
  <2>1. /\ work'.human = work.human /\ work'.settling = work.settling
        /\ work'.bet = work.bet /\ work'.craps = work.craps
        /\ work'.afking \in {work.afking, Stamp}
    BY <1>2, <1>w DEF PrepareSubscriptions, WorkType
  <2> QED BY <2>1, SettlesNothing
<1>3. CASE Consolidate
  <2>1. /\ work'.human = work.human /\ work'.settling = work.settling
        /\ work'.bet = work.bet /\ work'.craps = work.craps /\ work'.afking = work.afking
    BY <1>3, <1>w DEF Consolidate, WorkType
  <2> QED BY <2>1, SettlesNothing
<1>4. CASE UNCHANGED work BY <1>4, SettlesNothing
<1>5. DailyWork => UNCHANGED work \/ Consolidate
  BY DEF DailyWork, JackpotBattle, DegenesisDay, PurchaseDaily, EthDraw, PurchaseTickets, BafAwards,
         JackpotDaily, EarlyBird, JackpotTickets, PhaseTransition
<1>6. TerminalWork => UNCHANGED work
  BY DEF TerminalWork, TerminalEnter, TerminalLoans, DeadLatch, DeadPay, DropPreFreeze,
         TerminalDrainCommitted, ApplyTerminalRng, TerminalDrainBatch, TerminalPay,
         ResumeTerminalPayout, FinalSweep, PayTerminal
<1> QED BY <1>1, <1>2, <1>3, <1>4, <1>5, <1>6
        DEF MinerStep, PublishRng, LiveWork, TicketsRead, TicketsFar, TicketsDone, ApplyDailyWord,
            SeizeLoans, GrowthSettle

(* Nothing a session settles could have been chosen knowing its word: boxes, bets, craps seats,
   redemption batches and subscribers' boxes all settle on a word that was asked for after their last
   entry (_swapRngBuffers, closeRedemptionBatch, the consumers' guards). *)
THEOREM SettlementIsBlind == Spec => ConsumersBlind
<1>1. Inv /\ [Next]_vars => [SettlesBlind]_vars
  BY EntriesBlind, RequestsBlind, MinerBlind DEF Next
<1> QED BY <1>1, Invariance, PTL DEF Spec, ConsumersBlind

-----------------------------------------------------------------------------
(* A delivered word stays.                                                  *)

(* The certificate keeps the session's word. *)
LEMMA CertifyKeepsWord ==
  ASSUME NEW r \in RngType, NEW done, CertifyRngComplete(r, done)
  PROVE  rng'.word = r.word
  BY DEF CertifyRngComplete, RngType

(* Unlocking a day keeps the session's word. *)
LEMMA UnlockKeepsWord ==
  ASSUME TypeOK, NEW p, UnlockRng(p) PROVE rng'.word = rng.word
<1>1. Unlocked \in RngType /\ Unlocked.word = rng.word BY DEF TypeOK, Unlocked, RngType
<1> QED BY <1>1, CertifyKeepsWord DEF UnlockRng, TryCompleteRng

(* No worker of a live game replaces the word it reads. *)
LEMMA LiveWorkKeepsWord == TypeOK /\ (LiveWork \/ PublishRng) => rng'.word = rng.word
<1> SUFFICES ASSUME TypeOK, LiveWork \/ PublishRng PROVE rng'.word = rng.word OBVIOUS
<1>r. rng \in RngType BY DEF TypeOK
<1>1. CASE ApplyDailyWord BY <1>1, <1>r DEF ApplyDailyWord, ApplyDailyRng, RngType
<1>2. CASE PublishRng BY <1>2, <1>r DEF PublishRng, RngType
<1>3. CASE Consolidate
  <2>1. PICK battle : rng' = [rng EXCEPT !.complete = @ /\ ~battle] BY <1>3 DEF Consolidate
  <2> QED BY <2>1, <1>r DEF RngType
<1>4. CASE UNCHANGED rng BY <1>4
<1>5. CASE ReadConsumers
  BY <1>5, <1>r, CertifyKeepsWord
  DEF ReadConsumers, RedemptionWork, AfkingWork, HumanBoxWork, DegeneretteWork, DecimatorWork,
      CrapsReadWork, TryCompleteRng
<1>6. ASSUME DailyWork PROVE Consolidate \/ UNCHANGED rng \/ \E p : UnlockRng(p)
  BY <1>6 DEF DailyWork, JackpotBattle, DegenesisDay, PurchaseDaily, EthDraw, PurchaseTickets, BafAwards,
              JackpotDaily, EarlyBird, JackpotTickets, PhaseTransition, SealPurchaseDay
<1>7. CASE DailyWork BY <1>3, <1>4, <1>6, <1>7, UnlockKeepsWord
<1> QED BY <1>1, <1>2, <1>4, <1>5, <1>7
        DEF LiveWork, TicketsRead, TicketsFar, TicketsDone, PrepareSubscriptions, SeizeLoans, GrowthSettle

(* An ending may discard a word, never replace it. *)
LEMMA TerminalKeepsWord ==
  TypeOK /\ (TerminalWork \/ \E accepted \in BOOLEAN : RequestTerminalRng(accepted)) => WordKept
<1> SUFFICES ASSUME TypeOK, TerminalWork \/ \E accepted \in BOOLEAN : RequestTerminalRng(accepted)
             PROVE  rng'.word \in {0, rng.word}
  BY DEF WordKept
<1>r. rng \in RngType BY DEF TypeOK
<1>1. CASE TerminalEnter BY <1>1, <1>r DEF TerminalEnter, EnterTerminal, RngType
<1>2. CASE DeadLatch BY <1>2, <1>r DEF DeadLatch, DropWord, EnterTerminal, RngType
<1>3. CASE DropPreFreeze BY <1>3, <1>r DEF DropPreFreeze, RngType
<1>4. CASE ApplyTerminalRng BY <1>4, <1>r DEF ApplyTerminalRng, ApplyDailyRng, RngType
<1>5. ASSUME NEW paid \in BOOLEAN, PayTerminal(paid) PROVE rng'.word = rng.word
  BY <1>5, <1>r DEF PayTerminal, Unlocked, RngType
<1>6. ASSUME NEW accepted \in BOOLEAN, RequestTerminalRng(accepted) PROVE rng'.word \in {0, rng.word}
  <2>1. daily.idx + 1 \in Nat BY DEF TypeOK, DailyType
  <2>2. ArmTerminal(rng) \in RngType /\ ArmTerminal(rng).word \in {0, rng.word}
    BY <2>1, <1>r DEF ArmTerminal, RngType
  <2> QED BY <2>2, <1>6 DEF RequestTerminalRng, RngType
<1>7. CASE UNCHANGED rng BY <1>7
<1> QED BY <1>1, <1>2, <1>3, <1>4, <1>5, <1>6, <1>7
        DEF TerminalWork, TerminalLoans, DeadPay, TerminalDrainCommitted, TerminalDrainBatch, TerminalPay,
            ResumeTerminalPayout, FinalSweep

(* Requests discard the word; answers and recoveries reach only a waiting session. *)
LEMMA RequestsKeepWord ==
  Inv /\ (RequestDaily \/ RequestMidday \/ Answers \/ Recovery) => WordKept
<1> SUFFICES ASSUME Inv, RequestDaily \/ RequestMidday \/ Answers \/ Recovery PROVE WordKept OBVIOUS
<1>r. rng \in RngType BY DEF Inv, TypeOK
<1>1. CASE RequestDaily BY <1>1, <1>r DEF RequestDaily, FreshRequest, RngType, WordKept
<1>2. CASE RequestMidday BY <1>2, <1>r DEF RequestMidday, FreshRequest, RngType, WordKept
<1>3. CASE Answers
  <2>1. PICK a \in vrf.outstanding, reserved \in BOOLEAN : RawFulfillRandomWords(a, reserved)
    BY <1>3 DEF Answers
  <2>2. rng.word # 0 => rng.word = rng.id \/ rng.id = 0
    BY DEF Inv, SettlementInv, WordIsRequested
  <2> QED BY <2>1, <2>2, <1>r DEF RawFulfillRandomWords, AcceptsAnswer, WordKept, RngType
<1>4. CASE RetryRng BY <1>4, <1>r DEF RetryRng, WordKept, RngType
<1>5. CASE UpdateVrfCoordinatorAndSub
  BY <1>5, <1>r DEF UpdateVrfCoordinatorAndSub, WordKept, RngType
<1> QED BY <1>1, <1>2, <1>3, <1>4, <1>5 DEF Recovery

(* Entries and time leave the word alone. *)
LEMMA EntriesKeepWord == TypeOK /\ (PlayerEntry \/ Tick) => rng'.word = rng.word
  BY DEF TypeOK, RngType, PlayerEntry, Tick, BuyBox, PlaceBet, CrapsWindow, RequestRedemption, BuyTicket,
         BuyFar, Nudge

(* Whatever answers arrive late, twice, or through an orphaned coordinator, and however a request was
   retried or re-issued, a word once delivered is never replaced by another
   (rawFulfillRandomWords, retryRng, updateVrfCoordinatorAndSub). *)
THEOREM WordStays == Spec => WordNeverReplaced
<1>1. Inv /\ Next => WordKept
  <2> SUFFICES ASSUME Inv, Next PROVE WordKept OBVIOUS
  <2>1. TypeOK BY DEF Inv
  <2> QED BY <2>1, LiveWorkKeepsWord, TerminalKeepsWord, RequestsKeepWord, EntriesKeepWord
          DEF Next, MinerStep, Requests, WordKept
<1>2. Inv /\ [Next]_vars => [WordKept]_vars BY <1>1
<1> QED BY <1>2, Invariance, PTL DEF Spec, WordNeverReplaced

-----------------------------------------------------------------------------
(* The endings.  Once one is latched nobody can enter, so what the terminal  *)
(* request sealed is everything there is.                                   *)

TicketsUpTo(n) ==
  \A l \in Levels : tix.far[l] <= n /\ \A b \in Buffers : tix.queue[b][l] <= n

QueuesUpTo(n) ==
  /\ work.open <= n /\ work.afking <= n
  /\ \A b \in Buffers : work.box[b] <= n /\ work.bet[b] <= n

TicketStamps == TicketsUpTo(Stamp) /\ rng.nudges <= Stamp

\* What the session flags say of its id, its word and the nudges waiting for it.
SessionFlags ==
  /\ rng.active /\ rng.published => rng.word # 0
  /\ rng.id = 0 => ~rng.active /\ (rng.locked => rng.word = 0)
  /\ rng.locked => rng.nudges <= rng.id \/ rng.id = 0

\* The read side was committed to a published word, except before the first request.
CohortHasWord ==
  \/ rng.active \/ go.swap \/ go.dead \/ go.over
  \/ rng.published /\ rng.word # 0
  \/ /\ rng.published /\ ph.level = StartLevel
     /\ \A l \in Levels : tix.queue[ReadSlot][l] = 0

\* The terminal request came after every entry and left no drawable ticket behind.
TerminalSealed ==
  go.swap => /\ rng.active => TicketsUpTo(rng.id) /\ QueuesUpTo(rng.id) /\ rng.nudges <= rng.id
             /\ tix.queue[tix.write][DrainLevel] = 0

\* The order in which an ending's latches are set.
EndingOrder ==
  /\ go.swap \/ go.dead => go.lvl # 0
  /\ go.dead => rng.word = 0 /\ rng.id = 0
  /\ go.over => go.swap \/ go.dead
  /\ go.paid => go.over
  /\ go.swept => go.paid

EndInv == TicketStamps /\ SessionFlags /\ CohortHasWord /\ TerminalSealed /\ EndingOrder

-----------------------------------------------------------------------------
(* Steps of a live game: no latch of an ending is set.                      *)

LEMMA LiveUnlatched ==
  ASSUME Inv, EndInv, Live
  PROVE  ~go.swap /\ ~go.dead /\ ~go.over /\ go.lvl = 0 /\ ~go.paid /\ ~go.swept
<1>1. go.lvl # 0 => rng.terminal BY DEF Inv, SettlementInv
<1>2. ~rng.terminal BY LiveSession
<1>3. ~go.over BY DEF Live, EndingReason
<1> QED BY <1>1, <1>2, <1>3 DEF EndInv, EndingOrder

(* The types the steps below rely on. *)
LEMMA StateTypes ==
  ASSUME Inv
  PROVE  /\ rng \in RngType /\ tix \in TicketType /\ work \in WorkType /\ go \in EndType
         /\ ph \in PhaseType /\ vrf \in VrfType /\ legs \in LegType /\ daily \in DailyType
         /\ Stamp \in Nat /\ Ask \in Nat /\ AskVrf \in VrfType
         /\ ReadSlot \in Buffers /\ tix.write \in Buffers /\ ReadSlot # tix.write
<1>1. TypeOK BY DEF Inv
<1> QED BY <1>1, StampType DEF TypeOK, TicketType, ReadSlot, Buffers

(* A live step that leaves the session's request and word alone. *)
LEMMA LiveQuiet ==
  ASSUME Inv, EndInv, Live, UNCHANGED <<vrf, go>>,
         rng'.id = rng.id, rng'.word = rng.word, rng'.active = rng.active,
         rng'.published = rng.published, rng'.locked = rng.locked,
         rng'.nudges \in {0, rng.nudges} \/ (rng'.nudges = Stamp /\ ~rng.locked),
         ph'.level = ph.level, tix'.write = tix.write,
         \A l \in Levels :
           /\ tix'.far[l] \in {0, tix.far[l], Stamp}
           /\ tix'.queue[tix.write][l] \in {tix.queue[tix.write][l], Stamp}
           /\ tix'.queue[ReadSlot][l] \in {tix.queue[ReadSlot][l], 0}
  PROVE  EndInv'
<1>u. ~go.swap /\ ~go.dead /\ ~go.over /\ ~go.paid /\ ~go.swept BY LiveUnlatched
<1>t. Stamp \in Nat /\ rng \in RngType BY StateTypes
<1>b. \A b \in Buffers : b = tix.write \/ b = ReadSlot BY StateTypes DEF Buffers, ReadSlot
<1>s. Stamp' = Stamp BY DEF Stamp
<1>1. TicketStamps' BY <1>s, <1>t, <1>b DEF EndInv, TicketStamps, TicketsUpTo
<1>2. SessionFlags'
  <2>1. SessionFlags /\ rng.id \in Nat BY <1>t DEF EndInv, RngType
  <2> QED BY <2>1 DEF SessionFlags
<1>3. CohortHasWord'
  <2>1. ReadSlot' = ReadSlot BY DEF ReadSlot
  <2> QED BY <1>u, <2>1 DEF EndInv, CohortHasWord
<1>4. TerminalSealed' BY <1>u DEF TerminalSealed
<1>5. EndingOrder' BY <1>u DEF EndingOrder
<1> QED BY <1>1, <1>2, <1>3, <1>4, <1>5 DEF EndInv

(* A live step that ends a request whose word was published. *)
LEMMA LiveDrawn ==
  ASSUME Inv, EndInv, Live, UNCHANGED <<vrf, go>>,
         rng'.id = rng.id, rng'.word = rng.word, rng'.nudges = rng.nudges,
         rng'.published, rng.word # 0, rng.id # 0,
         rng'.locked => rng.locked,
         tix'.write = tix.write,
         \A l \in Levels :
           /\ tix'.far[l] \in {tix.far[l], Stamp}
           /\ \A b \in Buffers : tix'.queue[b][l] \in {tix.queue[b][l], Stamp}
  PROVE  EndInv'
<1>u. ~go.swap /\ ~go.dead /\ ~go.over /\ ~go.paid /\ ~go.swept BY LiveUnlatched
<1>t. Stamp \in Nat BY StateTypes
<1>s. Stamp' = Stamp BY DEF Stamp
<1>1. TicketStamps' BY <1>s, <1>t DEF EndInv, TicketStamps, TicketsUpTo
<1>2. SessionFlags' BY DEF EndInv, SessionFlags
<1>3. CohortHasWord' BY DEF CohortHasWord
<1>4. TerminalSealed' BY <1>u DEF TerminalSealed
<1>5. EndingOrder' BY <1>u DEF EndingOrder
<1> QED BY <1>1, <1>2, <1>3, <1>4, <1>5 DEF EndInv

(* What the scheduler promises a worker of a live game. *)
LEMMA LiveScheduled ==
  /\ NextMinerAction \notin {"Terminal", "Idle", "Wait"} => Live /\ ~go.over
  /\ NextMinerAction = "Publish" => rng.active /\ rng.word # 0
  /\ NextMinerAction \in {"DailyApply", "DailyPhase"} => rng.locked /\ rng.published /\ rng.word # 0
<1>1. NextMinerAction \notin {"Terminal", "Idle", "Wait"} => Live /\ ~go.over
  BY DEF NextMinerAction
<1>2. NextMinerAction = "Publish" => rng.active /\ rng.word # 0
  BY DEF NextMinerAction, ConsumerStage
<1>3. NextMinerAction \in {"DailyApply", "DailyPhase"} => rng.locked /\ rng.published /\ rng.word # 0
  BY DEF NextMinerAction, ConsumerStage
<1> QED BY <1>1, <1>2, <1>3

-----------------------------------------------------------------------------

(* Player entries and time. *)
LEMMA EntriesEnd == Inv /\ EndInv /\ (PlayerEntry \/ Tick) => EndInv'
<1> SUFFICES ASSUME Inv, EndInv, PlayerEntry \/ Tick PROVE EndInv' OBVIOUS
<1>t. rng \in RngType /\ tix \in TicketType /\ ph \in PhaseType /\ tix.write \in Buffers
      /\ ReadSlot \in Buffers /\ ReadSlot # tix.write
  BY StateTypes
<1>p. Contributes => ph'.level = ph.level BY <1>t DEF Contributes, AddPrizeContribution, PhaseType
<1>1. CASE BuyBox BY <1>1, <1>p, LiveQuiet DEF BuyBox, Open
<1>2. CASE PlaceBet BY <1>2, LiveQuiet DEF PlaceBet, Open
<1>3. CASE CrapsWindow
  <2>1. work' = [work EXCEPT !.craps[work.write] = Stamp] /\ UNCHANGED <<rng, vrf, tix, ph, go>>
    BY <1>3 DEF CrapsWindow
  <2>2. work'.box = work.box /\ work'.bet = work.bet /\ work'.open = work.open
        /\ work'.afking = work.afking
    BY <2>1, StateTypes DEF WorkType
  <2> QED BY <2>1, <2>2 DEF EndInv, TicketStamps, TicketsUpTo, QueuesUpTo, SessionFlags, CohortHasWord,
        TerminalSealed, EndingOrder, Stamp, ReadSlot, DrainLevel, GameOverTicketLevel
<1>4. CASE RequestRedemption BY <1>4, LiveQuiet DEF RequestRedemption, Open
<1>5. CASE BuyTicket
  <2>1. tix' = [tix EXCEPT !.queue[tix.write][ActiveTicketLevel] = Stamp] BY <1>5 DEF BuyTicket
  <2>2. /\ tix'.write = tix.write
        /\ \A l \in Levels : /\ tix'.far[l] = tix.far[l]
                             /\ tix'.queue[tix.write][l] \in {tix.queue[tix.write][l], Stamp}
                             /\ tix'.queue[ReadSlot][l] = tix.queue[ReadSlot][l]
    BY <2>1, <1>t DEF TicketType, TicketQueue
  <2> QED BY <2>2, <1>5, <1>p, LiveQuiet DEF BuyTicket, Open
<1>6. CASE Nudge
  <2>1. rng' = [rng EXCEPT !.nudges = Stamp] /\ ~rng.locked BY <1>6 DEF Nudge
  <2>2. /\ rng'.id = rng.id /\ rng'.word = rng.word /\ rng'.active = rng.active
        /\ rng'.published = rng.published /\ rng'.locked = rng.locked /\ rng'.nudges = Stamp
    BY <2>1, <1>t DEF RngType
  <2> QED BY <2>1, <2>2, <1>6, LiveQuiet DEF Nudge, Open
<1>7. ASSUME NEW l \in Levels, BuyFar(l) PROVE EndInv'
  <2>1. /\ tix'.write = tix.write /\ tix'.queue = tix.queue
        /\ \A k \in Levels : tix'.far[k] \in {tix.far[k], Stamp}
    BY <1>7, <1>t DEF BuyFar, TicketType, FarQueues
  <2> QED BY <2>1, <1>7, LiveQuiet DEF BuyFar, Open
<1>8. CASE Tick
  BY <1>8 DEF Tick, EndInv, TicketStamps, TicketsUpTo, QueuesUpTo, SessionFlags, CohortHasWord,
     TerminalSealed, EndingOrder, Stamp, ReadSlot, DrainLevel, GameOverTicketLevel
<1> QED BY <1>1, <1>2, <1>3, <1>4, <1>5, <1>6, <1>7, <1>8 DEF PlayerEntry

(* The request that seals a live cohort. *)
LEMMA LiveAsked ==
  ASSUME Inv, EndInv, Live, vrf' = AskVrf, UNCHANGED go,
         rng'.id = Ask, rng'.word = 0, rng'.active, ~rng'.published, rng'.nudges = rng.nudges,
         \A l \in Levels : /\ tix'.far[l] = tix.far[l]
                           /\ \A b \in Buffers : tix'.queue[b][l] \in {tix.queue[b][l], Stamp}
  PROVE  EndInv'
<1>u. ~go.swap /\ ~go.dead /\ ~go.over /\ ~go.paid /\ ~go.swept BY LiveUnlatched
<1>t. tix \in TicketType /\ rng.nudges \in Nat /\ vrf.asks \in Nat BY StateTypes DEF RngType, VrfType
<1>s. Stamp' = Stamp + 1 /\ Ask = Stamp /\ Stamp \in Nat /\ Stamp # 0
  BY <1>t, StateTypes DEF Stamp, Ask, AskVrf, VrfType
<1>n. \A l \in Levels : tix.far[l] \in Nat /\ \A b \in Buffers : tix.queue[b][l] \in Nat
  BY <1>t DEF TicketType, TicketQueue, FarQueues
<1>0. TicketStamps BY DEF EndInv
<1>1. TicketStamps'
  <2>1. rng'.nudges <= Stamp' BY <1>0, <1>t, <1>s DEF TicketStamps
  <2>2. ASSUME NEW l \in Levels PROVE tix'.far[l] <= Stamp' BY <1>0, <1>n, <1>s DEF TicketStamps, TicketsUpTo
  <2>3. ASSUME NEW l \in Levels, NEW b \in Buffers PROVE tix'.queue[b][l] <= Stamp'
    BY <1>0, <1>n, <1>s DEF TicketStamps, TicketsUpTo
  <2> QED BY <2>1, <2>2, <2>3 DEF TicketStamps, TicketsUpTo
<1>2. SessionFlags' BY <1>0, <1>s DEF TicketStamps, SessionFlags
<1>3. CohortHasWord' BY DEF CohortHasWord
<1>4. TerminalSealed' BY <1>u DEF TerminalSealed
<1>5. EndingOrder' BY <1>u DEF EndingOrder
<1> QED BY <1>1, <1>2, <1>3, <1>4, <1>5 DEF EndInv

(* The same request sent again. *)
LEMMA ResentEnd ==
  ASSUME Inv, EndInv, vrf'.asks = Ask, UNCHANGED <<work, tix, ph, go>>,
         rng'.id = Ask, rng.word = 0, rng'.word = 0, ~go.dead,
         rng'.active = rng.active, rng'.published = rng.published, rng'.locked = rng.locked,
         rng'.nudges = rng.nudges
  PROVE  EndInv'
<1>t. /\ tix \in TicketType /\ rng.nudges \in Nat /\ vrf.asks \in Nat /\ work \in WorkType
  BY StateTypes DEF RngType, VrfType
<1>s. Stamp' = Stamp + 1 /\ Ask = Stamp /\ Stamp \in Nat /\ Stamp # 0
  BY <1>t, StateTypes DEF Stamp, Ask
<1>n. \A l \in Levels : tix.far[l] \in Nat /\ \A b \in Buffers : tix.queue[b][l] \in Nat
  BY <1>t DEF TicketType, TicketQueue, FarQueues
<1>0. TicketStamps /\ SessionFlags /\ CohortHasWord /\ TerminalSealed /\ EndingOrder BY DEF EndInv
<1>1. TicketStamps' BY <1>0, <1>n, <1>s, <1>t DEF TicketStamps, TicketsUpTo
<1>2. SessionFlags' BY <1>0, <1>s DEF TicketStamps, SessionFlags
<1>3. CohortHasWord'
  <2>1. ReadSlot' = ReadSlot BY DEF ReadSlot
  <2> QED BY <2>1, <1>0 DEF CohortHasWord
<1>4. TerminalSealed'
  <2>1. (TicketsUpTo(rng.id))' /\ rng'.nudges <= rng'.id BY <1>0, <1>s DEF TicketStamps, TicketsUpTo
  <2>2. (QueuesUpTo(rng.id))' BY <1>s DEF Inv, SettlementInv, StampsBounded, QueuesUpTo
  <2>3. DrainLevel' = DrainLevel \/ ~go.swap BY <1>0 DEF EndingOrder, DrainLevel, GameOverTicketLevel
  <2> QED BY <2>1, <2>2, <2>3, <1>0 DEF TerminalSealed
<1>5. EndingOrder' BY <1>0 DEF EndingOrder
<1> QED BY <1>1, <1>2, <1>3, <1>4, <1>5 DEF EndInv

(* Requests and answers. *)
LEMMA RequestsEnd == Inv /\ EndInv /\ (RequestDaily \/ RequestMidday \/ Answers \/ Recovery) => EndInv'
<1> SUFFICES ASSUME Inv, EndInv, RequestDaily \/ RequestMidday \/ Answers \/ Recovery PROVE EndInv' OBVIOUS
<1>r. rng \in RngType /\ tix \in TicketType /\ tix.write \in Buffers /\ vrf \in VrfType BY StateTypes
<1>0. TicketStamps /\ SessionFlags /\ CohortHasWord /\ TerminalSealed /\ EndingOrder BY DEF EndInv
<1>1. CASE RequestDaily
  <2>1. /\ rng' = [FreshRequest(rng, daily.idx + 1) EXCEPT !.locked = TRUE] /\ vrf' = AskVrf /\ go' = go
        /\ NextMinerAction = "RequestDaily"
    BY <1>1 DEF RequestDaily
  <2>2. rng'.id = Ask /\ rng'.word = 0 /\ rng'.active /\ ~rng'.published /\ rng'.nudges = rng.nudges
    BY <2>1, <1>r DEF FreshRequest, RngType
  <2>3. PICK early \in {ph.level + 2, tix.early}, gnrus \in BOOLEAN :
          tix' = SwapTicketSlot(GnrusBuys([tix EXCEPT !.early = early], gnrus))
    BY <1>1 DEF RequestDaily
  <2>4. \A l \in Levels : /\ tix'.far[l] = tix.far[l]
                          /\ \A b \in Buffers : tix'.queue[b][l] \in {tix.queue[b][l], Stamp}
    BY <2>3, <1>r DEF SwapTicketSlot, GnrusBuys, TicketType, TicketQueue
  <2> QED BY <2>1, <2>2, <2>4, LiveScheduled, LiveAsked
<1>2. CASE RequestMidday
  <2>1. rng' = FreshRequest(rng, 0) BY <1>2 DEF RequestMidday
  <2>2. rng'.id = Ask /\ rng'.word = 0 /\ rng'.active /\ ~rng'.published /\ rng'.nudges = rng.nudges
    BY <2>1, <1>r DEF FreshRequest, RngType
  <2>3. tix'.far = tix.far /\ tix'.queue = tix.queue
    BY <1>2, <1>r DEF RequestMidday, SwapTicketSlot, TicketType
  <2> QED BY <2>2, <2>3, <1>2, LiveScheduled, LiveAsked DEF RequestMidday
<1>3. CASE Answers
  <2>1. PICK a \in vrf.outstanding, reserved \in BOOLEAN : RawFulfillRandomWords(a, reserved)
    BY <1>3 DEF Answers
  <2>2. vrf'.asks = vrf.asks /\ UNCHANGED <<work, tix, ph, go>>
    BY <2>1, <1>r DEF RawFulfillRandomWords, VrfType
  <2>3. rng' = IF AcceptsAnswer(a) /\ ~reserved THEN [rng EXCEPT !.word = a] ELSE rng
    BY <2>1 DEF RawFulfillRandomWords
  <2>4. /\ rng'.id = rng.id /\ rng'.active = rng.active /\ rng'.published = rng.published
        /\ rng'.locked = rng.locked /\ rng'.nudges = rng.nudges
        /\ rng'.word = rng.word \/ (rng'.word = rng.id /\ rng.id # 0)
    BY <2>3, <1>r DEF AcceptsAnswer, RngType
  <2>5. TicketStamps' BY <2>2, <2>4, <1>0 DEF TicketStamps, TicketsUpTo, Stamp
  <2>6. SessionFlags' BY <2>4, <1>0 DEF SessionFlags
  <2>7. CohortHasWord' BY <2>2, <2>4, <1>0 DEF CohortHasWord, ReadSlot
  <2>8. TerminalSealed' BY <2>2, <2>4, <1>0 DEF TerminalSealed, TicketsUpTo, QueuesUpTo, DrainLevel, GameOverTicketLevel
  <2>9. EndingOrder' BY <2>2, <2>4, <1>0 DEF EndingOrder
  <2> QED BY <2>5, <2>6, <2>7, <2>8, <2>9 DEF EndInv
<1>a. AskVrf.asks = Ask BY <1>r DEF AskVrf, VrfType
<1>4. CASE RetryRng
  <2>1. /\ rng' = [rng EXCEPT !.retrySpent = TRUE, !.id = Ask] /\ vrf' = AskVrf /\ rng.word = 0 /\ Live
    BY <1>4 DEF RetryRng, RngRetryDue
  <2>2. /\ rng'.id = Ask /\ rng'.word = 0 /\ rng'.active = rng.active /\ rng'.published = rng.published
        /\ rng'.locked = rng.locked /\ rng'.nudges = rng.nudges
    BY <2>1, <1>r DEF RngType
  <2> QED BY <2>1, <2>2, <1>a, <1>4, LiveUnlatched, ResentEnd DEF RetryRng
<1>5. CASE UpdateVrfCoordinatorAndSub
  <2>1. CASE ReissueDue
    <3>1. /\ rng' = [rng EXCEPT !.id = Ask, !.retrySpent = @ \/ rng.locked]
          /\ vrf' = [AskVrf EXCEPT !.old = vrf.asks]
      BY <2>1, <1>5 DEF UpdateVrfCoordinatorAndSub
    <3>2. /\ rng'.id = Ask /\ rng.word = 0 /\ rng'.word = 0 /\ ~go.dead /\ rng'.active = rng.active
          /\ rng'.published = rng.published /\ rng'.locked = rng.locked /\ rng'.nudges = rng.nudges
      BY <2>1, <3>1, <1>r DEF ReissueDue, RngType
    <3>3. vrf'.asks = Ask BY <3>1, <1>a, <1>r DEF AskVrf, VrfType
    <3> QED BY <3>2, <3>3, <1>5, ResentEnd DEF UpdateVrfCoordinatorAndSub
  <2>2. CASE ~ReissueDue
    <3>1. rng' = rng /\ vrf' = [vrf EXCEPT !.old = vrf.asks] /\ UNCHANGED <<work, tix, ph, go>>
      BY <2>2, <1>5 DEF UpdateVrfCoordinatorAndSub
    <3>2. vrf'.asks = vrf.asks BY <3>1, <1>r DEF VrfType
    <3> QED BY <3>1, <3>2 DEF EndInv, TicketStamps, TicketsUpTo, QueuesUpTo, SessionFlags, CohortHasWord,
          TerminalSealed, EndingOrder, Stamp, ReadSlot, DrainLevel, GameOverTicketLevel
  <2> QED BY <2>1, <2>2
<1> QED BY <1>1, <1>2, <1>3, <1>4, <1>5 DEF Recovery

-----------------------------------------------------------------------------

(* An award joins the accumulating side of the tickets. *)
LEMMA AwardKeeps ==
  ASSUME Inv, NEW lvl, NEW t \in Awards(tix, lvl)
  PROVE  /\ t.write = tix.write
         /\ \A l \in Levels : /\ t.far[l] \in {tix.far[l], Stamp}
                              /\ t.queue[tix.write][l] \in {tix.queue[tix.write][l], Stamp}
                              /\ t.queue[ReadSlot][l] = tix.queue[ReadSlot][l]
  BY StateTypes DEF Awards, TicketType, TicketQueue, FarQueues

(* Unlocking the day. *)
LEMMA UnlockKeeps ==
  ASSUME Inv, NEW p, UnlockRng(p)
  PROVE  /\ rng'.id = rng.id /\ rng'.word = rng.word /\ rng'.nudges = rng.nudges
         /\ rng'.published = rng.published /\ ~rng'.active /\ ~rng'.locked
  BY StateTypes DEF UnlockRng, TryCompleteRng, CertifyRngComplete, Unlocked, RngType

LEMMA UnlockEnd ==
  ASSUME Inv, EndInv, NEW p, UnlockRng(p), NextMinerAction = "DailyPhase", UNCHANGED <<vrf, go>>,
         tix' = tix \/ \E l \in Nat : tix' \in Awards(tix, l)
  PROVE  EndInv'
<1>1. rng.locked /\ rng.published /\ rng.word # 0 /\ Live BY LiveScheduled
<1>2. rng.id # 0 BY <1>1 DEF EndInv, SessionFlags
<1>3. /\ tix'.write = tix.write
      /\ \A l \in Levels : /\ tix'.far[l] \in {tix.far[l], Stamp}
                           /\ \A b \in Buffers : tix'.queue[b][l] \in {tix.queue[b][l], Stamp}
  <2>1. \A b \in Buffers : b = tix.write \/ b = ReadSlot BY StateTypes DEF Buffers, ReadSlot
  <2> QED BY <2>1, AwardKeeps
<1> QED BY <1>1, <1>2, <1>3, UnlockKeeps, LiveDrawn

(* A worker that only certifies. *)
LEMMA CertifyKeeps ==
  ASSUME Inv, NEW w, TryCompleteRng(rng, w)
  PROVE  /\ rng'.id = rng.id /\ rng'.word = rng.word /\ rng'.nudges = rng.nudges
         /\ rng'.published = rng.published /\ rng'.active = rng.active /\ rng'.locked = rng.locked
  BY StateTypes DEF TryCompleteRng, CertifyRngComplete, RngType

(* The parts of a day. *)
LEMMA DailyWorkEnd == Inv /\ EndInv /\ DailyWork => EndInv'
<1> SUFFICES ASSUME Inv, EndInv, DailyWork PROVE EndInv' OBVIOUS
<1>s. DailyStage # "none" => NextMinerAction = "DailyPhase" /\ Live BY LiveScheduled DEF DailyStage
<1>t. rng \in RngType /\ ph \in PhaseType BY StateTypes
<1>l. ph.level + 1 \in Nat BY <1>t DEF PhaseType
<1>a. ASSUME NextMinerAction = "DailyPhase", SealPurchaseDay(ph), UNCHANGED <<vrf, go>>,
             tix' = tix \/ \E l \in Nat : tix' \in Awards(tix, l)
      PROVE  EndInv'
  BY <1>a, UnlockEnd DEF SealPurchaseDay
<1>1. CASE JackpotBattle BY <1>1, <1>s, LiveQuiet DEF JackpotBattle
<1>2. CASE DegenesisDay BY <1>2, <1>s, UnlockEnd DEF DegenesisDay
<1>3. CASE PurchaseDaily
  <2>1. CASE ph.level = 0 BY <2>1, <1>3, <1>s, <1>a DEF PurchaseDaily
  <2>2. CASE ph.level # 0
    <3>1. ph'.level = ph.level BY <2>2, <1>3, <1>t DEF PurchaseDaily, PhaseType
    <3> QED BY <2>2, <3>1, <1>3, <1>s, LiveQuiet DEF PurchaseDaily
  <2> QED BY <2>1, <2>2
<1>4. CASE EthDraw
  <2>1. CASE ~ph.jackpot /\ ~legs.purchase BY <2>1, <1>4, <1>s, <1>a DEF EthDraw
  <2>2. CASE ~(~ph.jackpot /\ ~legs.purchase) BY <2>2, <1>4, <1>s, LiveQuiet DEF EthDraw
  <2> QED BY <2>1, <2>2
<1>5. CASE PurchaseTickets BY <1>5, <1>s, <1>l, <1>a DEF PurchaseTickets
<1>6. CASE Consolidate
  <2>1. /\ \E met, growth : ph' = [ph EXCEPT !.jackpot = TRUE, !.last = FALSE, !.met = met, !.growth = growth]
        /\ \E complete : rng' = [rng EXCEPT !.complete = complete]
    BY <1>6 DEF Consolidate
  <2>2. ph'.level = ph.level BY <2>1, <1>t DEF PhaseType
  <2>3. /\ rng'.id = rng.id /\ rng'.word = rng.word /\ rng'.active = rng.active
        /\ rng'.published = rng.published /\ rng'.locked = rng.locked /\ rng'.nudges = rng.nudges
    BY <2>1, <1>t DEF RngType
  <2> QED BY <2>2, <2>3, <1>6, <1>s, LiveQuiet DEF Consolidate
<1>7. CASE BafAwards BY <1>7, <1>s, AwardKeeps, LiveQuiet DEF BafAwards
<1>8. CASE JackpotDaily BY <1>8, <1>s, LiveQuiet DEF JackpotDaily
<1>9. CASE EarlyBird BY <1>9, <1>s, AwardKeeps, LiveQuiet DEF EarlyBird
<1>10. CASE JackpotTickets
  <2>1. CASE ph.counter + 1 >= PhaseDays
    <3>1. ph'.level = ph.level BY <2>1, <1>10, <1>t DEF JackpotTickets, PhaseType
    <3> QED BY <2>1, <3>1, <1>10, <1>s, AwardKeeps, LiveQuiet DEF JackpotTickets
  <2>2. CASE ~(ph.counter + 1 >= PhaseDays) BY <2>2, <1>10, <1>s, <1>l, UnlockEnd DEF JackpotTickets
  <2> QED BY <2>1, <2>2
<1>11. CASE PhaseTransition BY <1>11, <1>s, UnlockEnd DEF PhaseTransition
<1> QED BY <1>1, <1>2, <1>3, <1>4, <1>5, <1>6, <1>7, <1>8, <1>9, <1>10, <1>11 DEF DailyWork

(* Publication and the rest of a live mining call. *)
LEMMA LiveWorkEnd == Inv /\ EndInv /\ (PublishRng \/ LiveWork) => EndInv'
<1> SUFFICES ASSUME Inv, EndInv, PublishRng \/ LiveWork PROVE EndInv' OBVIOUS
<1>t. rng \in RngType /\ ph \in PhaseType /\ tix \in TicketType /\ ReadSlot \in Buffers /\ ReadSlot # tix.write
  BY StateTypes
<1>1. CASE PublishRng
  <2>1. rng' = [rng EXCEPT !.published = TRUE, !.active = rng.locked] /\ rng.active /\ rng.word # 0 /\ Live
    BY <1>1, LiveScheduled DEF PublishRng
  <2>2. rng.id # 0 BY <2>1 DEF EndInv, SessionFlags
  <2>3. /\ rng'.id = rng.id /\ rng'.word = rng.word /\ rng'.nudges = rng.nudges /\ rng'.published
        /\ rng'.locked = rng.locked
    BY <2>1, <1>t DEF RngType
  <2> QED BY <2>1, <2>2, <2>3, <1>1, LiveDrawn DEF PublishRng
<1>2. CASE TicketsRead
  <2>1. PICK k \in ReadQueues : tix' = [tix EXCEPT !.queue[ReadSlot][k] = 0] BY <1>2 DEF TicketsRead
  <2>2. /\ tix'.write = tix.write /\ tix'.far = tix.far
        /\ tix'.queue[tix.write] = tix.queue[tix.write]
        /\ \A l \in Levels : tix'.queue[ReadSlot][l] \in {tix.queue[ReadSlot][l], 0}
    BY <2>1, <1>t DEF TicketType, TicketQueue
  <2> QED BY <2>2, <1>2, LiveScheduled, LiveQuiet DEF TicketsRead
<1>3. CASE TicketsFar
  <2>1. PICK k \in FarQueue : tix' = [tix EXCEPT !.far[k] = 0] BY <1>3 DEF TicketsFar
  <2>2. /\ tix'.write = tix.write /\ tix'.queue = tix.queue
        /\ \A l \in Levels : tix'.far[l] \in {tix.far[l], 0}
    BY <2>1, <1>t DEF TicketType, FarQueues
  <2> QED BY <2>2, <1>3, LiveScheduled, LiveQuiet DEF TicketsFar
<1>4. CASE TicketsDone
  <2>1. tix'.write = tix.write /\ tix'.queue = tix.queue /\ tix'.far = tix.far
    BY <1>4, <1>t DEF TicketsDone, TicketType
  <2> QED BY <2>1, <1>4, LiveScheduled, LiveQuiet DEF TicketsDone
<1>5. CASE ApplyDailyWord
  <2>1. rng' = [rng EXCEPT !.nudges = 0] BY <1>5 DEF ApplyDailyWord, ApplyDailyRng
  <2>2. /\ rng'.id = rng.id /\ rng'.word = rng.word /\ rng'.active = rng.active
        /\ rng'.published = rng.published /\ rng'.locked = rng.locked /\ rng'.nudges = 0
    BY <2>1, <1>t DEF RngType
  <2> QED BY <2>2, <1>5, LiveScheduled, LiveQuiet DEF ApplyDailyWord
<1>6. CASE DailyWork BY <1>6, DailyWorkEnd
<1>7. CASE ReadConsumers
  <2>1. \A s \in Consumers : NextMinerAction = s => Live BY LiveScheduled DEF Consumers
  <2>2. CASE RedemptionWork BY <2>2, <2>1, LiveQuiet DEF RedemptionWork, Settles, Consumers
  <2>3. CASE AfkingWork BY <2>3, <2>1, CertifyKeeps, LiveQuiet DEF AfkingWork, Settles, Consumers
  <2>4. CASE HumanBoxWork
    <3>1. tix' = tix \/ \E l : tix' \in Awards(tix, l) BY <2>4 DEF HumanBoxWork
    <3>2. /\ tix'.write = tix.write
          /\ \A l \in Levels : /\ tix'.far[l] \in {tix.far[l], Stamp}
                               /\ tix'.queue[tix.write][l] \in {tix.queue[tix.write][l], Stamp}
                               /\ tix'.queue[ReadSlot][l] = tix.queue[ReadSlot][l]
      BY <3>1, AwardKeeps
    <3> QED BY <3>2, <2>4, <2>1, CertifyKeeps, LiveQuiet DEF HumanBoxWork, Settles, Consumers
  <2>5. CASE DegeneretteWork BY <2>5, <2>1, CertifyKeeps, LiveQuiet DEF DegeneretteWork, Settles, Consumers
  <2>6. CASE DecimatorWork BY <2>6, <2>1, CertifyKeeps, LiveQuiet DEF DecimatorWork, Settles, Consumers
  <2>7. CASE CrapsReadWork BY <2>7, <2>1, CertifyKeeps, LiveQuiet DEF CrapsReadWork, Settles, Consumers
  <2> QED BY <1>7, <2>2, <2>3, <2>4, <2>5, <2>6, <2>7 DEF ReadConsumers
<1>8. CASE PrepareSubscriptions
  <2>1. \/ tix' = tix
        \/ \E k : tix' = [tix EXCEPT !.queue[tix.write][k] = Stamp]
    BY <1>8 DEF PrepareSubscriptions
  <2>2. /\ tix'.write = tix.write /\ tix'.far = tix.far
        /\ tix'.queue[ReadSlot] = tix.queue[ReadSlot]
        /\ \A l \in Levels : tix'.queue[tix.write][l] \in {tix.queue[tix.write][l], Stamp}
    BY <2>1, <1>t, StateTypes DEF TicketType, TicketQueue
  <2> QED BY <2>2, <1>8, LiveScheduled, LiveQuiet DEF PrepareSubscriptions
<1>9. CASE SeizeLoans
  <2>1. ph'.level = ph.level BY <1>9, <1>t DEF SeizeLoans, PhaseType
  <2> QED BY <2>1, <1>9, LiveScheduled, LiveQuiet DEF SeizeLoans
<1>10. CASE GrowthSettle
  <2>1. ph'.level = ph.level BY <1>10, <1>t DEF GrowthSettle, PhaseType
  <2> QED BY <2>1, <1>10, LiveScheduled, LiveQuiet DEF GrowthSettle
<1> QED BY <1>1, <1>2, <1>3, <1>4, <1>5, <1>6, <1>7, <1>8, <1>9, <1>10 DEF LiveWork

-----------------------------------------------------------------------------
(* The endings themselves.                                                  *)

(* Once the drain level is latched it stays. *)
LEMMA DrainLevelLatched ==
  ASSUME go.lvl # 0, go'.lvl = go.lvl, ph'.level = ph.level
  PROVE  DrainLevel' = DrainLevel /\ DrainLevel = ph.level + go.lvl - 1
  BY DEF DrainLevel, GameOverTicketLevel

(* A normal ending under way is not a dead one. *)
LEMMA NormalIsAlive == Inv /\ NormalEnding /\ go.lvl # 0 => ~go.dead /\ ~go.over
<1> SUFFICES ASSUME Inv, NormalEnding, go.lvl # 0 PROVE ~go.dead /\ ~go.over OBVIOUS
<1>1. rng.terminal BY DEF Inv, SettlementInv
<1>2. EndingReason = "PurchaseTimeout" /\ ~go.over BY DEF NormalEnding
<1>3. ~go.dead
  <2>1. CASE HardStalled BY <2>1, <1>2 DEF EndingReason
  <2>2. CASE ~HardStalled
    <3>1. EndingReason = IF go.dead THEN "HardStall" ELSE "PurchaseTimeout"
      BY <2>2, <1>1 DEF EndingReason
    <3> QED BY <3>1, <1>2
  <2> QED BY <2>1, <2>2
<1> QED BY <1>2, <1>3

(* A terminal step that leaves the request, the word and the write side alone. *)
LEMMA TerminalQuiet ==
  ASSUME Inv, EndInv, UNCHANGED <<vrf, work>>,
         go'.swap = go.swap, go'.dead = go.dead, go.over => go'.over,
         go.lvl # 0 => go'.lvl = go.lvl, ph'.level = ph.level,
         rng'.id = rng.id, rng'.word = rng.word, rng'.nudges \in {0, rng.nudges},
         rng'.active => rng.active, rng'.active = rng.active \/ go'.over,
         rng'.locked => rng.locked,
         rng'.published = rng.published \/ (rng'.published /\ rng.word # 0),
         tix'.write = tix.write, tix'.far = tix.far, tix'.queue[tix.write] = tix.queue[tix.write],
         \A l \in Levels : tix'.queue[ReadSlot][l] \in {tix.queue[ReadSlot][l], 0},
         EndingOrder'
  PROVE  EndInv'
<1>0. TicketStamps /\ SessionFlags /\ CohortHasWord /\ TerminalSealed /\ EndingOrder BY DEF EndInv
<1>t. Stamp \in Nat /\ rng.id \in Nat BY StateTypes DEF RngType
<1>b. \A b \in Buffers : b = tix.write \/ b = ReadSlot BY StateTypes DEF Buffers, ReadSlot
<1>s. Stamp' = Stamp /\ ReadSlot' = ReadSlot BY DEF Stamp, ReadSlot
<1>1. TicketStamps' BY <1>0, <1>s, <1>t, <1>b DEF TicketStamps, TicketsUpTo
<1>2. SessionFlags' BY <1>0, <1>t DEF SessionFlags
<1>3. CohortHasWord' BY <1>0, <1>s DEF CohortHasWord
<1>4. TerminalSealed'
  <2> SUFFICES ASSUME go.swap
               PROVE  /\ rng'.active => (TicketsUpTo(rng.id))' /\ (QueuesUpTo(rng.id))' /\ rng'.nudges <= rng'.id
                      /\ tix'.queue[tix'.write][DrainLevel'] = 0
    BY DEF TerminalSealed
  <2>1. DrainLevel' = DrainLevel BY <1>0, DrainLevelLatched DEF EndingOrder
  <2>2. tix.queue[tix.write][DrainLevel] = 0 BY <1>0 DEF TerminalSealed
  <2>3. rng.active => TicketsUpTo(rng.id) /\ QueuesUpTo(rng.id) /\ rng.nudges <= rng.id
    BY <1>0 DEF TerminalSealed
  <2>4. rng'.active => (QueuesUpTo(rng.id))' /\ rng'.nudges <= rng'.id BY <2>3, <1>t DEF QueuesUpTo
  <2>5. rng'.active => (TicketsUpTo(rng.id))' BY <2>3, <1>t, <1>b DEF TicketsUpTo
  <2> QED BY <2>1, <2>2, <2>4, <2>5
<1> QED BY <1>1, <1>2, <1>3, <1>4 DEF EndInv

(* The payout ends the lock, whether its draw is finished or not. *)
LEMMA PayEnd ==
  ASSUME Inv, EndInv, NEW paid \in BOOLEAN, PayTerminal(paid), go.over => paid, go.swap \/ go.over
  PROVE  EndInv'
<1>0. EndingOrder BY DEF EndInv
<1>t. rng \in RngType /\ ph \in PhaseType /\ go \in EndType BY StateTypes
<1>1. go' = [go EXCEPT !.over = TRUE, !.paid = paid] /\ ph' = Drained(ph) /\ UNCHANGED <<vrf, work, tix>>
  BY DEF PayTerminal
<1>2. rng' = rng \/ rng' = [Unlocked EXCEPT !.complete = @ \/ ConsumersComplete(work)]
  BY DEF PayTerminal
<1>3. /\ rng'.id = rng.id /\ rng'.word = rng.word /\ rng'.nudges = rng.nudges
      /\ rng'.published = rng.published
      /\ (rng'.active => rng.active) /\ (rng'.locked => rng.locked)
  <2>1. CASE rng' = rng BY <2>1
  <2>2. CASE rng' = [Unlocked EXCEPT !.complete = @ \/ ConsumersComplete(work)]
    BY <2>2, <1>t DEF Unlocked, RngType
  <2> QED BY <1>2, <2>1, <2>2
<1>4. ph'.level = ph.level BY <1>1, <1>t DEF Drained, PhaseType
<1>5. /\ go'.over = TRUE /\ go'.paid = paid /\ go'.swap = go.swap /\ go'.dead = go.dead
      /\ go'.lvl = go.lvl /\ go'.swept = go.swept
  BY <1>1, <1>t DEF EndType
<1>6. EndingOrder' BY <1>0, <1>3, <1>5 DEF EndingOrder
<1> QED BY <1>1, <1>3, <1>4, <1>5, <1>6, TerminalQuiet

(* The steps of both endings. *)
LEMMA TerminalEnd == Inv /\ EndInv /\ TerminalWork => EndInv'
<1> SUFFICES ASSUME Inv, EndInv, TerminalWork PROVE EndInv' OBVIOUS
<1>0. TicketStamps /\ SessionFlags /\ CohortHasWord /\ TerminalSealed /\ EndingOrder BY DEF EndInv
<1>t. /\ rng \in RngType /\ ph \in PhaseType /\ go \in EndType /\ tix \in TicketType
      /\ ReadSlot \in Buffers /\ tix.write \in Buffers /\ ReadSlot # tix.write /\ Stamp \in Nat
  BY StateTypes
<1>1. CASE TerminalEnter
  <2>1. rng' = [rng EXCEPT !.terminal = TRUE, !.day = 0] /\ go.lvl = 0
        /\ go' = [go EXCEPT !.lvl = LatchLevel, !.loans = TRUE] /\ UNCHANGED <<vrf, work, tix, ph>>
    BY <1>1 DEF TerminalEnter, EnterTerminal
  <2>2. /\ rng'.id = rng.id /\ rng'.word = rng.word /\ rng'.nudges = rng.nudges
        /\ rng'.active = rng.active /\ rng'.locked = rng.locked /\ rng'.published = rng.published
    BY <2>1, <1>t DEF RngType
  <2>3. /\ go'.swap = go.swap /\ go'.dead = go.dead /\ go'.over = go.over
        /\ go'.paid = go.paid /\ go'.swept = go.swept
    BY <2>1, <1>t DEF EndType
  <2>4. ~go.swap /\ ~go.dead BY <2>1, <1>0 DEF EndingOrder
  <2>5. EndingOrder' BY <2>3, <2>4, <1>0 DEF EndingOrder
  <2> QED BY <2>1, <2>2, <2>3, <2>5, TerminalQuiet
<1>2. CASE TerminalLoans
  <2>1. /\ go' = [go EXCEPT !.loans = FALSE] /\ ph' = [ph EXCEPT !.loansDue = FALSE]
        /\ UNCHANGED <<rng, vrf, work, tix>>
    BY <1>2 DEF TerminalLoans
  <2>2. /\ go'.swap = go.swap /\ go'.dead = go.dead /\ go'.over = go.over /\ go'.lvl = go.lvl
        /\ go'.paid = go.paid /\ go'.swept = go.swept /\ ph'.level = ph.level
    BY <2>1, <1>t DEF EndType, PhaseType
  <2>3. EndingOrder' BY <2>1, <2>2, <1>0 DEF EndingOrder
  <2> QED BY <2>1, <2>2, <2>3, TerminalQuiet
<1>3. CASE DeadLatch
  <2>1. /\ go' = [go EXCEPT !.dead = TRUE, !.loans = FALSE, !.lvl = IF @ = 0 THEN LatchLevel ELSE @]
        /\ rng' = DropWord(IF go.lvl = 0 THEN EnterTerminal(rng) ELSE rng)
        /\ UNCHANGED <<vrf, work, tix, ph>>
    BY <1>3 DEF DeadLatch
  <2>2. rng'.id = 0 /\ rng'.word = 0 /\ ~rng'.active /\ rng'.nudges = rng.nudges
    BY <2>1, <1>t DEF DropWord, EnterTerminal, RngType
  <2>3. /\ go'.dead = TRUE /\ go'.lvl = (IF go.lvl = 0 THEN LatchLevel ELSE go.lvl) /\ go'.swap = go.swap
        /\ go'.over = go.over /\ go'.paid = go.paid /\ go'.swept = go.swept
    BY <2>1, <1>t DEF EndType
  <2>4. TicketStamps' BY <2>1, <2>2, <1>0 DEF TicketStamps, TicketsUpTo, Stamp
  <2>5. SessionFlags' BY <2>2 DEF SessionFlags
  <2>6. CohortHasWord' BY <2>3 DEF CohortHasWord
  <2>7. TerminalSealed'
    <3>1. go.swap => go.lvl # 0 /\ go'.lvl = go.lvl BY <2>3, <1>0 DEF EndingOrder
    <3>2. go.swap => DrainLevel' = DrainLevel BY <3>1, <2>1, DrainLevelLatched
    <3> QED BY <3>2, <2>1, <2>2, <2>3, <1>0 DEF TerminalSealed
  <2>8. EndingOrder'
    <3>1. LatchLevel # 0 BY DEF LatchLevel
    <3> QED BY <3>1, <2>2, <2>3, <1>0 DEF EndingOrder
  <2> QED BY <2>4, <2>5, <2>6, <2>7, <2>8 DEF EndInv
<1>4. CASE DeadPay
  <2>1. go' = [go EXCEPT !.over = TRUE, !.paid = TRUE] /\ ph' = Drained(ph) /\ UNCHANGED <<rng, vrf, work, tix>>
    BY <1>4 DEF DeadPay, FinishTerminalPayout
  <2>2. /\ go'.swap = go.swap /\ go'.dead = go.dead /\ go'.over = TRUE /\ go'.lvl = go.lvl
        /\ go'.paid = TRUE /\ go'.swept = go.swept /\ ph'.level = ph.level
    BY <2>1, <1>t DEF EndType, Drained, PhaseType
  <2>3. EndingOrder' BY <2>1, <2>2, <1>4, <1>0 DEF EndingOrder, DeadPay
  <2> QED BY <2>1, <2>2, <2>3, TerminalQuiet
<1>5. CASE DropPreFreeze
  <2>1. /\ rng' = [rng EXCEPT !.published = TRUE, !.id = 0, !.active = FALSE, !.locked = FALSE,
                              !.nudges = IF rng.locked THEN 0 ELSE @]
        /\ rng.word # 0 /\ ~go.swap /\ UNCHANGED <<vrf, work, tix, ph, go>>
    BY <1>5 DEF DropPreFreeze, BeforeTerminalRequest
  <2>2. /\ rng'.published /\ rng'.word # 0 /\ ~rng'.active /\ ~rng'.locked
        /\ rng'.nudges \in {0, rng.nudges}
    BY <2>1, <1>t DEF RngType
  <2>3. TicketStamps' BY <2>1, <2>2, <1>0, <1>t DEF TicketStamps, TicketsUpTo, Stamp
  <2>4. SessionFlags' BY <2>2 DEF SessionFlags
  <2>5. CohortHasWord' BY <2>2 DEF CohortHasWord
  <2>6. TerminalSealed' BY <2>1 DEF TerminalSealed
  <2>7. EndingOrder' BY <2>1, <1>0 DEF EndingOrder
  <2> QED BY <2>3, <2>4, <2>5, <2>6, <2>7 DEF EndInv
<1>d. ASSUME tix' = [tix EXCEPT !.queue[ReadSlot][DrainLevel] = 0]
      PROVE  /\ tix'.write = tix.write /\ tix'.far = tix.far /\ tix'.queue[tix.write] = tix.queue[tix.write]
             /\ \A l \in Levels : tix'.queue[ReadSlot][l] \in {tix.queue[ReadSlot][l], 0}
  BY <1>d, <1>t DEF TicketType, TicketQueue
<1>6. CASE TerminalDrainCommitted
  <2>1. EndingOrder' BY <1>6, <1>0 DEF TerminalDrainCommitted, EndingOrder
  <2> QED BY <2>1, <1>6, <1>d, TerminalQuiet DEF TerminalDrainCommitted
<1>7. CASE ApplyTerminalRng
  <2>1. rng' = [[rng EXCEPT !.published = TRUE] EXCEPT !.nudges = 0] /\ rng.word # 0
        /\ UNCHANGED <<vrf, work, tix, ph, go>>
    BY <1>7 DEF ApplyTerminalRng, ApplyDailyRng
  <2>2. /\ rng'.id = rng.id /\ rng'.word = rng.word /\ rng'.nudges = 0 /\ rng'.published
        /\ rng'.active = rng.active /\ rng'.locked = rng.locked
    BY <2>1, <1>t DEF RngType
  <2>3. EndingOrder' BY <2>1, <2>2, <1>0 DEF EndingOrder
  <2> QED BY <2>1, <2>2, <2>3, TerminalQuiet
<1>8. CASE TerminalDrainBatch
  <2>1. EndingOrder' BY <1>8, <1>0 DEF TerminalDrainBatch, EndingOrder
  <2> QED BY <2>1, <1>8, <1>d, TerminalQuiet DEF TerminalDrainBatch
<1>9. CASE TerminalPay BY <1>9, PayEnd DEF TerminalPay, TerminalWordApplied, NormalEnding
<1>10. CASE ResumeTerminalPayout BY <1>10, PayEnd DEF ResumeTerminalPayout
<1>11. CASE FinalSweep
  <2>1. go' = [go EXCEPT !.swept = TRUE] /\ go.paid /\ UNCHANGED <<rng, vrf, work, tix, ph>>
    BY <1>11 DEF FinalSweep
  <2>2. /\ go'.swap = go.swap /\ go'.dead = go.dead /\ go'.over = go.over /\ go'.lvl = go.lvl
        /\ go'.paid = go.paid
    BY <2>1, <1>t DEF EndType
  <2>3. EndingOrder' BY <2>1, <2>2, <1>0 DEF EndingOrder
  <2> QED BY <2>1, <2>2, <2>3, TerminalQuiet
<1> QED BY <1>1, <1>2, <1>3, <1>4, <1>5, <1>6, <1>7, <1>8, <1>9, <1>10, <1>11 DEF TerminalWork

(* The terminal request comes after every entry, and its one ticket swap leaves nothing behind. *)
LEMMA TerminalRequestEnd ==
  ASSUME Inv, EndInv, NEW accepted \in BOOLEAN, RequestTerminalRng(accepted)
  PROVE  EndInv'
<1>0. TicketStamps /\ SessionFlags /\ CohortHasWord /\ TerminalSealed /\ EndingOrder BY DEF EndInv
<1>t. /\ rng \in RngType /\ ph \in PhaseType /\ go \in EndType /\ tix \in TicketType /\ work \in WorkType
      /\ vrf \in VrfType /\ ReadSlot \in Buffers /\ tix.write \in Buffers /\ ReadSlot # tix.write
      /\ Stamp \in Nat /\ Ask \in Nat
  BY StateTypes
<1>g. /\ NormalEnding /\ go.lvl # 0 /\ ~rng.active /\ ~CommittedCohort /\ (~accepted => ~Armed)
      /\ tix' = (IF TerminalSwap THEN SwapTicketSlot(tix) ELSE tix)
      /\ go' = [go EXCEPT !.swap = TRUE]
      /\ work' = (IF accepted THEN SwapRngBuffers(work) ELSE work)
      /\ vrf' = (IF accepted THEN AskVrf ELSE vrf)
      /\ ph' = ph
  BY DEF RequestTerminalRng, AwaitsTerminalRequest
<1>a. ~go.dead /\ ~go.over BY <1>g, NormalIsAlive
<1>2. /\ go'.swap = TRUE /\ go'.dead = go.dead /\ go'.over = go.over /\ go'.lvl = go.lvl
      /\ go'.paid = go.paid /\ go'.swept = go.swept
  BY <1>g, <1>t DEF EndType
<1>r. /\ rng'.nudges = rng.nudges /\ (accepted => rng'.id = Ask /\ ~rng'.published)
      /\ (~accepted => rng'.id = rng.id /\ ~rng'.active /\ rng'.word = 0 /\ rng'.locked = rng.locked)
  <2> DEFINE r == [ArmTerminal(rng) EXCEPT !.complete = @ /\ ~TerminalSwap]
  <2>1. /\ r.nudges = rng.nudges /\ r.id = rng.id /\ r.active = rng.active /\ r.locked = rng.locked
        /\ ~Armed => r.word = 0
    BY <1>t DEF ArmTerminal, RngType
  <2>2. r \in RngType
    <3>1. daily.idx + 1 \in Nat BY StateTypes DEF DailyType
    <3>2. ArmTerminal(rng) \in RngType BY <3>1, <1>t DEF ArmTerminal, RngType
    <3> QED BY <3>2 DEF RngType
  <2>3. rng' = IF accepted
               THEN [r EXCEPT !.complete = FALSE, !.published = FALSE, !.word = 0,
                              !.id = Ask, !.active = TRUE, !.locked = TRUE]
               ELSE r
    BY DEF RequestTerminalRng
  <2> HIDE DEF r
  <2>4. CASE accepted BY <2>1, <2>2, <2>3, <2>4 DEF RngType
  <2>5. CASE ~accepted BY <2>1, <2>3, <2>5, <1>g
  <2> QED BY <2>4, <2>5
<1>q. /\ tix'.far = tix.far /\ tix'.queue = tix.queue
      /\ tix'.write = IF TerminalSwap THEN ReadSlot ELSE tix.write
  BY <1>g, <1>t DEF SwapTicketSlot, TicketType, ReadSlot
<1>s. /\ Stamp \in Nat /\ Ask = Stamp /\ Ask # 0 /\ Stamp' \in {Stamp, Stamp + 1}
      /\ Stamp' = IF accepted THEN Stamp + 1 ELSE Stamp
  BY <1>g, <1>t DEF Stamp, Ask, AskVrf, VrfType
<1>n. /\ rng.nudges \in Nat
      /\ \A l \in Levels : tix.far[l] \in Nat /\ \A b \in Buffers : tix.queue[b][l] \in Nat
  BY <1>t DEF RngType, TicketType, TicketQueue, FarQueues
<1>3. TicketStamps'
  <2>0. TicketsUpTo(Stamp) /\ rng.nudges <= Stamp BY <1>0 DEF TicketStamps
  <2>1. rng'.nudges <= Stamp' BY <2>0, <1>r, <1>s, <1>n
  <2>2. \A l \in Levels : tix'.far[l] <= Stamp' BY <2>0, <1>q, <1>s, <1>n DEF TicketsUpTo
  <2>3. \A l \in Levels : \A b \in Buffers : tix'.queue[b][l] <= Stamp'
    BY <2>0, <1>q, <1>s, <1>n DEF TicketsUpTo
  <2> QED BY <2>1, <2>2, <2>3 DEF TicketStamps, TicketsUpTo
<1>4. SessionFlags'
  <2>1. CASE accepted BY <2>1, <1>0, <1>r, <1>s DEF SessionFlags, TicketStamps
  <2>2. CASE ~accepted BY <2>2, <1>0, <1>r DEF SessionFlags
  <2> QED BY <2>1, <2>2
<1>5. CohortHasWord' BY <1>2 DEF CohortHasWord
<1>6. TerminalSealed'
  <2>1. rng'.active => (TicketsUpTo(rng.id))' /\ rng'.nudges <= rng'.id
    BY <1>0, <1>q, <1>r, <1>s DEF TicketStamps, TicketsUpTo
  <2>2. rng'.active => (QueuesUpTo(rng.id))'
    <3> SUFFICES ASSUME accepted PROVE (QueuesUpTo(rng.id))' BY <1>r
    <3>1. /\ work'.open = work.open /\ work'.afking = work.afking
          /\ \A b \in Buffers : work'.box[b] \in {work.box[b], 0} /\ work'.bet[b] \in {work.bet[b], 0}
      BY <1>g, <1>t DEF SwapRngBuffers, WorkType, SessionQueue
    <3>2. StampsBounded BY DEF Inv, SettlementInv
    <3> QED BY <3>1, <3>2, <1>r, <1>s DEF StampsBounded, QueuesUpTo
  <2>3. DrainLevel' = DrainLevel /\ DrainLevel = ph.level + go.lvl - 1 BY <1>g, <1>2, DrainLevelLatched
  <2>4. tix.queue[tix'.write][DrainLevel] = 0
    <3>1. CASE go.swap BY <3>1, <1>0, <1>q DEF TerminalSealed, TerminalSwap
    <3>2. CASE ~go.swap
      <4>1. tix.queue[ReadSlot][DrainLevel] = 0
        <5>1. CASE rng.word # 0
          <6>1. rng.published BY <3>2, <1>a, <1>g, <1>0 DEF CohortHasWord
          <6> QED BY <5>1, <6>1, <3>2, <1>g DEF CommittedCohort, LootboxWord
        <5>2. CASE rng.word = 0
          <6>1. ph.level = StartLevel /\ \A l \in Levels : tix.queue[ReadSlot][l] = 0
            BY <5>2, <3>2, <1>a, <1>g, <1>0 DEF CohortHasWord
          <6>2. DrainLevel \in Levels
            BY <2>3, <6>1, <1>t, <1>g, GameAssumption, BoundAssumption DEF Levels, EndType
          <6> QED BY <6>1, <6>2
        <5> QED BY <5>1, <5>2
      <4> QED BY <4>1, <3>2, <1>q DEF TerminalSwap
    <3> QED BY <3>1, <3>2
  <2> QED BY <2>1, <2>2, <2>3, <2>4, <1>q DEF TerminalSealed
<1>7. EndingOrder' BY <1>0, <1>2, <1>g, <1>a DEF EndingOrder
<1> QED BY <1>3, <1>4, <1>5, <1>6, <1>7 DEF EndInv

LEMMA EndInit == Init => EndInv
<1> SUFFICES ASSUME Init PROVE EndInv OBVIOUS
<1>1. FirstWord \in Nat BY DEF FirstWord
<1>2. TicketStamps BY <1>1 DEF Init, TicketStamps, TicketsUpTo, Stamp
<1>3. SessionFlags BY <1>1 DEF Init, SessionFlags
<1>4. CohortHasWord BY DEF Init, CohortHasWord, ReadSlot, Buffers
<1>5. TerminalSealed BY DEF Init, TerminalSealed
<1>6. EndingOrder BY DEF Init, EndingOrder
<1> QED BY <1>2, <1>3, <1>4, <1>5, <1>6 DEF EndInv

LEMMA EndNext == Inv /\ EndInv /\ [Next]_vars => EndInv'
<1> SUFFICES ASSUME Inv, EndInv, [Next]_vars PROVE EndInv' OBVIOUS
<1>1. CASE UNCHANGED vars
  BY <1>1 DEF vars, EndInv, TicketStamps, TicketsUpTo, QueuesUpTo, SessionFlags, CohortHasWord,
     TerminalSealed, EndingOrder, Stamp, ReadSlot, DrainLevel, GameOverTicketLevel
<1>2. CASE Next
  BY <1>2, EntriesEnd, RequestsEnd, LiveWorkEnd, TerminalEnd, TerminalRequestEnd
     DEF Next, MinerStep, Requests
<1> QED BY <1>1, <1>2

(* The endings' invariant holds in every reachable state. *)
LEMMA EndInvariance == Spec => [](Inv /\ EndInv)
<1>1. Init => Inv /\ EndInv BY InitInv, EndInit
<1>2. Inv /\ EndInv /\ [Next]_vars => (Inv /\ EndInv)' BY NextInv, EndNext
<1> QED BY <1>1, <1>2, PTL DEF Spec

-----------------------------------------------------------------------------

(* The work of a live game is selected only in one. *)
LEMMA LiveSelected ==
  PublishRng \/ LiveWork \/ RequestDaily \/ RequestMidday => Live /\ ~go.over
<1>1. PublishRng \/ LiveWork \/ RequestDaily \/ RequestMidday
        => NextMinerAction \notin {"Terminal", "Idle", "Wait"}
  BY DEF PublishRng, LiveWork, RequestDaily, RequestMidday, TicketsRead, TicketsFar, TicketsDone,
     ApplyDailyWord, DailyWork, JackpotBattle, DegenesisDay, PurchaseDaily, EthDraw, PurchaseTickets,
     Consolidate, BafAwards, JackpotDaily, EarlyBird, JackpotTickets, PhaseTransition, DailyStage,
     ReadConsumers, RedemptionWork, AfkingWork, HumanBoxWork, DegeneretteWork, DecimatorWork,
     CrapsReadWork, Settles, PrepareSubscriptions, SeizeLoans, GrowthSettle
<1> QED BY <1>1, LiveScheduled

(* Nothing but the payout and the sweep happens to a game that is over. *)
LEMMA OverStep == Inv /\ EndInv /\ Next => StaysOver
<1> SUFFICES ASSUME Inv, EndInv, Next, go.over PROVE StaysOver BY DEF StaysOver
<1>t. go \in EndType /\ work \in WorkType /\ vrf \in VrfType BY StateTypes
<1>l. ~Live BY DEF Live, EndingReason
<1>o. (go.paid => go.over) /\ (go.swept => go.paid) BY DEF EndInv, EndingOrder
<1>1. CASE PublishRng \/ LiveWork \/ RequestDaily \/ RequestMidday BY <1>1, LiveSelected
<1>2. CASE PlayerEntry
  <2>1. CrapsWindow
    BY <1>2, <1>l DEF PlayerEntry, Open, BuyBox, PlaceBet, RequestRedemption, BuyTicket, BuyFar, Nudge
  <2>2. work'.box = work.box /\ work'.bet = work.bet BY <2>1, <1>t DEF CrapsWindow, WorkType
  <2> QED BY <2>1, <2>2, <1>o DEF CrapsWindow, StaysOver
<1>3. CASE Tick BY <1>3, <1>o DEF Tick, StaysOver
<1>4. CASE Answers
  <2>1. PICK a \in vrf.outstanding, reserved \in BOOLEAN : RawFulfillRandomWords(a, reserved)
    BY <1>4 DEF Answers
  <2>2. vrf'.asks = vrf.asks BY <2>1, <1>t DEF RawFulfillRandomWords, VrfType
  <2> QED BY <2>1, <2>2, <1>o DEF RawFulfillRandomWords, StaysOver
<1>5. CASE Recovery
  <2>1. UpdateVrfCoordinatorAndSub BY <1>5 DEF Recovery, RetryRng
  <2>2. vrf' = [vrf EXCEPT !.old = vrf.asks] BY <2>1 DEF UpdateVrfCoordinatorAndSub, ReissueDue
  <2>3. vrf'.asks = vrf.asks BY <2>2, <1>t DEF VrfType
  <2> QED BY <2>1, <2>3, <1>o DEF UpdateVrfCoordinatorAndSub, StaysOver
<1>6. ASSUME NEW accepted \in BOOLEAN, RequestTerminalRng(accepted) PROVE StaysOver
  BY <1>6 DEF RequestTerminalRng, AwaitsTerminalRequest, NormalEnding
<1>7. CASE TerminalWork
  <2>1. CASE TerminalLoans BY <2>1, <1>t, <1>o DEF TerminalLoans, StaysOver, EndType
  <2>2. CASE ResumeTerminalPayout
    <3>1. go' = [go EXCEPT !.over = TRUE, !.paid = TRUE] /\ UNCHANGED <<daily, vrf, work, tix>> /\ ~go.paid
      BY <2>2 DEF ResumeTerminalPayout, PayTerminal
    <3>2. go'.paid = TRUE /\ go'.swept = go.swept BY <3>1, <1>t DEF EndType
    <3> QED BY <3>1, <3>2, <1>o DEF StaysOver
  <2>3. CASE FinalSweep
    <3>1. go' = [go EXCEPT !.swept = TRUE] /\ UNCHANGED <<daily, vrf, work, tix>> /\ go.paid
      BY <2>3 DEF FinalSweep
    <3>2. go'.paid = go.paid BY <3>1, <1>t DEF EndType
    <3> QED BY <3>1, <3>2 DEF StaysOver
  <2> QED BY <1>7, <2>1, <2>2, <2>3 DEF TerminalWork, TerminalEnter, DeadLatch, DeadPay, DropPreFreeze,
        TerminalDrainCommitted, ApplyTerminalRng, TerminalDrainBatch, TerminalPay, NormalEnding, DeadEnding,
        AwaitsTerminalRequest
<1> QED BY <1>1, <1>2, <1>3, <1>4, <1>5, <1>6, <1>7 DEF Next, MinerStep, Requests

(* Once the game is over no day, request, box, bet or ticket of it changes any more: it is paid, then
   swept, and neither is taken back (handleGameOver's latches, handleFinalSweep's condition). *)
THEOREM OverStaysOver == Spec => OverIsFinal
<1>1. Inv /\ EndInv /\ [Next]_vars => [StaysOver]_vars BY OverStep
<1> QED BY <1>1, EndInvariance, PTL DEF Spec, OverIsFinal

(* Only two steps end the game: the deterministic payout and the terminal draw's. *)
LEMMA EndsTwice ==
  Inv /\ Next /\ go'.over /\ ~go.over => DeadPay \/ TerminalPay
<1> SUFFICES ASSUME Inv, Next, go'.over, ~go.over PROVE DeadPay \/ TerminalPay OBVIOUS
<1>t. go \in EndType BY StateTypes
<1>1. go' # go OBVIOUS
<1>2. CASE LiveWork
  BY <1>1, <1>2 DEF LiveWork, TicketsRead, TicketsFar, TicketsDone, ApplyDailyWord, DailyWork,
     JackpotBattle, DegenesisDay, PurchaseDaily, EthDraw, PurchaseTickets, Consolidate, BafAwards,
     JackpotDaily, EarlyBird, JackpotTickets, PhaseTransition, ReadConsumers, RedemptionWork, AfkingWork,
     HumanBoxWork, DegeneretteWork, DecimatorWork, CrapsReadWork, PrepareSubscriptions, SeizeLoans,
     GrowthSettle
<1>3. CASE PublishRng \/ RequestDaily \/ RequestMidday \/ Answers \/ Recovery \/ PlayerEntry \/ Tick
  BY <1>1, <1>3 DEF PublishRng, RequestDaily, RequestMidday, Answers, RawFulfillRandomWords, Recovery,
     RetryRng, UpdateVrfCoordinatorAndSub, PlayerEntry, BuyBox, PlaceBet, CrapsWindow, RequestRedemption,
     BuyTicket, BuyFar, Nudge, Tick
<1>4. ASSUME NEW accepted \in BOOLEAN, RequestTerminalRng(accepted) PROVE FALSE
  BY <1>4, <1>t DEF RequestTerminalRng, EndType
<1>5. CASE TerminalWork
  BY <1>5, <1>t DEF TerminalWork, TerminalEnter, TerminalLoans, DeadLatch, DropPreFreeze,
     TerminalDrainCommitted, ApplyTerminalRng, TerminalDrainBatch, ResumeTerminalPayout, FinalSweep, EndType
<1> QED BY <1>2, <1>3, <1>4, <1>5 DEF Next, MinerStep, Requests

LEMMA DrawStep == Inv /\ EndInv /\ Next => FairDraw
<1> SUFFICES ASSUME Inv, EndInv, Next, go'.over, ~go.over PROVE FairDraw BY DEF FairDraw
<1>0. SessionFlags /\ TerminalSealed /\ EndingOrder BY DEF EndInv
<1>1. CASE DeadPay
  <2>1. go.dead /\ rng.word = 0 BY <1>1, <1>0 DEF DeadPay, EndingOrder
  <2> QED BY <2>1 DEF FairDraw
<1>2. CASE TerminalPay
  <2>1. NormalEnding /\ rng.active /\ rng.published /\ go.swap /\ tix.queue[ReadSlot][DrainLevel] = 0
    BY <1>2 DEF TerminalPay, TerminalWordApplied
  <2>2. ~go.dead BY <2>1, <1>0, NormalIsAlive DEF EndingOrder
  <2>3. rng.word # 0 /\ rng.word = rng.id
    BY <2>1, <1>0 DEF SessionFlags, Inv, SettlementInv, WordIsRequested
  <2>4. TicketsUpTo(rng.word) /\ QueuesUpTo(rng.word) /\ rng.nudges <= rng.word
    BY <2>1, <2>3, <1>0 DEF TerminalSealed
  <2>5. \A b \in Buffers : b = tix.write \/ b = ReadSlot BY StateTypes DEF Buffers, ReadSlot
  <2>6. \A b \in Buffers : tix.queue[b][DrainLevel] = 0 BY <2>1, <2>5, <1>0 DEF TerminalSealed
  <2>7. ASSUME NEW b \in Buffers,
               NEW s \in {work.box[b], work.bet[b], work.open, work.afking, rng.nudges}
                           \cup {tix.queue[b][l] : l \in Levels} \cup {tix.far[l] : l \in Levels}
        PROVE  s <= rng.word
    BY <2>4, <2>7 DEF TicketsUpTo, QueuesUpTo
  <2> QED BY <2>2, <2>3, <2>6, <2>7 DEF FairDraw
<1> QED BY <1>1, <1>2, EndsTwice

(* The terminal draw is paid on a word that was asked for after every box, bet, redemption, nudge and
   ticket the game ever took, with no ticket of the drawn level left out; or the ending reads no word at
   all (handleGameOver, _requestTerminalRng, _latchDeadEnding). *)
THEOREM TerminalDrawIsFair == Spec => TerminalDrawFair
<1>1. Inv /\ EndInv /\ [Next]_vars => [FairDraw]_vars BY DrawStep
<1> QED BY <1>1, EndInvariance, PTL DEF Spec, TerminalDrawFair

(* A word is recorded for a day in two steps only, each under a lock older than its request. *)
LEMMA NudgeStep == Inv /\ EndInv /\ Next => NudgesInTime
<1> SUFFICES ASSUME Inv, EndInv, Next, daily'.recorded # daily.recorded PROVE rng.nudges <= rng.word
  BY DEF NudgesInTime
<1>0. SessionFlags /\ TerminalSealed BY DEF EndInv
<1>t. daily \in DailyType BY StateTypes
<1>w. rng.word # 0 => rng.word = rng.id \/ rng.id = 0 BY DEF Inv, SettlementInv, WordIsRequested
<1>1. CASE ApplyDailyWord
  <2>1. rng.locked /\ rng.word # 0 BY <1>1, LiveScheduled DEF ApplyDailyWord
  <2> QED BY <2>1, <1>0, <1>w DEF SessionFlags
<1>2. CASE ApplyTerminalRng
  <2>1. go.swap /\ rng.active /\ rng.word # 0 BY <1>2 DEF ApplyTerminalRng
  <2> QED BY <2>1, <1>0, <1>w DEF SessionFlags, TerminalSealed
<1>c. ASSUME NEW r, NEW done, CertifyRngComplete(r, done) PROVE FALSE
  BY <1>c, <1>t DEF CertifyRngComplete, DailyType
<1>d. ASSUME NEW r, NEW w, TryCompleteRng(r, w) PROVE FALSE BY <1>d, <1>c DEF TryCompleteRng
<1>u. ASSUME NEW p, UnlockRng(p) PROVE FALSE BY <1>u, <1>d DEF UnlockRng
<1>3. CASE DailyWork
  <2>1. ~SealPurchaseDay(ph) BY <1>u DEF SealPurchaseDay
  <2>2. daily' # daily OBVIOUS
  <2> QED BY <1>3, <1>u, <2>1, <2>2 DEF DailyWork, JackpotBattle, DegenesisDay, PurchaseDaily, EthDraw,
        PurchaseTickets, Consolidate, BafAwards, JackpotDaily, EarlyBird, JackpotTickets, PhaseTransition
<1>4. CASE ReadConsumers
  BY <1>4, <1>d DEF ReadConsumers, RedemptionWork, AfkingWork, HumanBoxWork, DegeneretteWork,
     DecimatorWork, CrapsReadWork
<1>5. CASE TicketsRead \/ TicketsFar \/ TicketsDone \/ PrepareSubscriptions \/ SeizeLoans \/ GrowthSettle
             \/ PublishRng
  BY <1>5 DEF TicketsRead, TicketsFar, TicketsDone, PrepareSubscriptions, SeizeLoans, GrowthSettle, PublishRng
<1>6. CASE RequestDaily
  <2>1. daily' = [daily EXCEPT !.idx = daily.idx + 1, !.complete = FALSE] BY <1>6 DEF RequestDaily
  <2> QED BY <2>1, <1>t DEF DailyType
<1>7. CASE RequestMidday \/ Answers \/ Recovery \/ PlayerEntry \/ Tick
  BY <1>7 DEF RequestMidday, Answers, RawFulfillRandomWords, Recovery,
     RetryRng, UpdateVrfCoordinatorAndSub, PlayerEntry, BuyBox, PlaceBet, CrapsWindow, RequestRedemption,
     BuyTicket, BuyFar, Nudge, Tick
<1>8. ASSUME NEW accepted \in BOOLEAN, RequestTerminalRng(accepted) PROVE FALSE
  BY <1>8 DEF RequestTerminalRng
<1>9. CASE TerminalWork
  BY <1>9, <1>2 DEF TerminalWork, TerminalEnter, TerminalLoans, DeadLatch, DeadPay, DropPreFreeze,
     TerminalDrainCommitted, TerminalDrainBatch, TerminalPay, PayTerminal, ResumeTerminalPayout, FinalSweep
<1> QED BY <1>1, <1>3, <1>4, <1>5, <1>6, <1>7, <1>8, <1>9 DEF Next, MinerStep, LiveWork, Requests

(* The nudges that shift a day's word were all bought before the word was asked for: reverseFlip's
   lock covers every request that can become a daily word, the terminal one included. *)
THEOREM NudgesComeFirst == Spec => NudgesBlind
<1>1. Inv /\ EndInv /\ [Next]_vars => [NudgesInTime]_vars BY NudgeStep
<1> QED BY <1>1, EndInvariance, PTL DEF Spec, NudgesBlind

-----------------------------------------------------------------------------

LEMMA ReasonCases ==
  /\ HardStalled => EndingReason = "HardStall"
  /\ ~HardStalled /\ (go.over \/ rng.terminal)
       => EndingReason = IF go.dead THEN "HardStall" ELSE "PurchaseTimeout"
  /\ ~HardStalled /\ ~(go.over \/ rng.terminal)
       => EndingReason = IF PurchaseExpired THEN "PurchaseTimeout" ELSE "None"
  BY DEF EndingReason

LEMMA ReasonCasesNext ==
  /\ HardStalled' => EndingReason' = "HardStall"
  /\ ~HardStalled' /\ (go'.over \/ rng'.terminal)
       => EndingReason' = IF go'.dead THEN "HardStall" ELSE "PurchaseTimeout"
  /\ ~HardStalled' /\ ~(go'.over \/ rng'.terminal)
       => EndingReason' = IF PurchaseExpired' THEN "PurchaseTimeout" ELSE "None"
  BY DEF EndingReason

(* What can still happen once an ending is decided. *)
LEMMA EndedStep ==
  Inv /\ Next /\ ~Live =>
    CrapsWindow \/ Tick \/ Answers \/ UpdateVrfCoordinatorAndSub \/ TerminalWork
      \/ \E accepted \in BOOLEAN : RequestTerminalRng(accepted)
  BY LiveSelected DEF Next, MinerStep, Requests, Recovery, RetryRng, PlayerEntry, Open, BuyBox, PlaceBet,
     RequestRedemption, BuyTicket, BuyFar, Nudge

(* The ages an ending is read from do not shrink, and its latches are never cleared. *)
LEMMA AnswersKeep ==
  ASSUME Inv, Answers \/ UpdateVrfCoordinatorAndSub
  PROVE  /\ UNCHANGED <<clock, daily, ph, go>>
         /\ rng'.published = rng.published /\ rng'.active = rng.active /\ rng'.terminal = rng.terminal
<1>r. rng \in RngType BY StateTypes
<1>1. CASE Answers BY <1>1, <1>r DEF Answers, RawFulfillRandomWords, RngType
<1>2. CASE UpdateVrfCoordinatorAndSub BY <1>2, <1>r DEF UpdateVrfCoordinatorAndSub, RngType
<1> QED BY <1>1, <1>2

LEMMA TickKeeps ==
  ASSUME Inv, Tick
  PROVE  /\ UNCHANGED <<daily, rng, ph, go>>
         /\ clock.newDay => clock'.newDay
         /\ clock.completed >= DeadTimeout => clock'.completed >= DeadTimeout
         /\ clock.request >= DeadTimeout => clock'.request >= DeadTimeout
<1>1. clock \in ClockType /\ DeadTimeout \in Nat BY ClockAssumption DEF Inv, TypeOK
<1> QED BY <1>1 DEF Tick, Older, ClockType

LEMMA StallStays == Inv /\ EndInv /\ Next /\ HardStalled => HardStalled'
<1> SUFFICES ASSUME Inv, EndInv, Next, HardStalled PROVE HardStalled' OBVIOUS
<1>t. rng \in RngType /\ go \in EndType /\ clock \in ClockType BY StateTypes DEF Inv, TypeOK
<1>h. EndingReason = "HardStall" /\ ~Live BY ReasonCases DEF Live
<1>o. go.over => go.swap \/ go.dead BY DEF EndInv, EndingOrder
<1> USE DEF HardStalled, VrfDeadmanFired, VrfDead
<1>1. CASE CrapsWindow BY <1>1 DEF CrapsWindow
<1>2. CASE Tick BY <1>2, TickKeeps
<1>3. CASE Answers \/ UpdateVrfCoordinatorAndSub BY <1>3, AnswersKeep
<1>4. CASE DeadLatch
  <2>1. /\ rng' = DropWord(IF go.lvl = 0 THEN EnterTerminal(rng) ELSE rng) /\ clock' = clock
        /\ go' = [go EXCEPT !.dead = TRUE, !.loans = FALSE, !.lvl = IF @ = 0 THEN LatchLevel ELSE @]
    BY <1>4 DEF DeadLatch
  <2>2. ~rng'.published /\ go'.dead BY <2>1, <1>t DEF DropWord, EnterTerminal, RngType, EndType
  <2> QED BY <2>1, <2>2
<1>5. CASE DeadPay
  <2>1. /\ go' = [go EXCEPT !.over = TRUE, !.paid = TRUE] /\ rng' = rng
        /\ clock' = [clock EXCEPT !.ended = 0]
    BY <1>5 DEF DeadPay, FinishTerminalPayout
  <2>2. go'.dead = go.dead /\ go'.swap = go.swap /\ clock'.completed = clock.completed
        /\ clock'.request = clock.request
    BY <2>1, <1>t DEF EndType, ClockType
  <2> QED BY <2>1, <2>2
<1>6. CASE ResumeTerminalPayout
  <2>1. /\ go' = [go EXCEPT !.over = TRUE, !.paid = TRUE] /\ clock' = [clock EXCEPT !.ended = 0]
        /\ rng' = [Unlocked EXCEPT !.complete = @ \/ ConsumersComplete(work)] /\ go.over
    BY <1>6 DEF ResumeTerminalPayout, PayTerminal
  <2>2. go'.dead = go.dead /\ go'.swap = go.swap /\ clock'.completed = clock.completed
        /\ clock'.request = clock.request
    BY <2>1, <1>t DEF EndType, ClockType
  <2>3. rng'.published = rng.published BY <2>1, <1>t DEF Unlocked, RngType
  <2> QED BY <2>1, <2>2, <2>3, <1>o
<1>7. CASE FinalSweep
  <2>1. go' = [go EXCEPT !.swept = TRUE] /\ rng' = rng /\ clock' = clock BY <1>7 DEF FinalSweep
  <2>2. go'.dead = go.dead /\ go'.swap = go.swap BY <2>1, <1>t DEF EndType
  <2> QED BY <2>1, <2>2
<1>8. CASE TerminalWork
  BY <1>h, <1>4, <1>5, <1>6, <1>7, <1>8 DEF TerminalWork, TerminalEnter, TerminalLoans, SettlingLoans,
     DropPreFreeze, TerminalDrainCommitted, AwaitsTerminalRequest, ApplyTerminalRng, TerminalDrainBatch,
     TerminalPay, NormalEnding
<1>9. ASSUME NEW accepted \in BOOLEAN, RequestTerminalRng(accepted) PROVE FALSE
  BY <1>9, <1>h DEF RequestTerminalRng, AwaitsTerminalRequest, NormalEnding
<1> QED BY <1>h, <1>1, <1>2, <1>3, <1>8, <1>9, EndedStep

(* The ending's latches stay set. *)
LEMMA LatchesStay ==
  Inv /\ EndInv /\ Next =>
    /\ rng.terminal => rng'.terminal
    /\ go.over => go'.over
    /\ go.dead => go'.dead
<1> SUFFICES ASSUME Inv, EndInv, Next, rng.terminal \/ go.over \/ go.dead
             PROVE  (rng.terminal => rng'.terminal) /\ (go.over => go'.over) /\ (go.dead => go'.dead)
  OBVIOUS
<1>t. rng \in RngType /\ go \in EndType BY StateTypes
<1>l. ~Live
  <2>1. go.dead => rng.terminal BY DEF EndInv, EndingOrder, Inv, SettlementInv
  <2>2. rng.terminal => ~Live BY LiveSession
  <2>3. go.over => ~Live BY DEF Live, EndingReason
  <2> QED BY <2>1, <2>2, <2>3
<1>1. CASE CrapsWindow \/ Tick BY <1>1 DEF CrapsWindow, Tick
<1>2. CASE Answers \/ UpdateVrfCoordinatorAndSub BY <1>2, AnswersKeep
<1>3. ASSUME NEW accepted \in BOOLEAN, RequestTerminalRng(accepted)
      PROVE  (rng.terminal => rng'.terminal) /\ (go.over => go'.over) /\ (go.dead => go'.dead)
  <2> DEFINE r == [ArmTerminal(rng) EXCEPT !.complete = @ /\ ~TerminalSwap]
  <2>1. r.terminal = rng.terminal BY <1>t DEF ArmTerminal, RngType
  <2>2. r \in RngType
    <3>1. daily.idx + 1 \in Nat BY StateTypes DEF DailyType
    <3>2. ArmTerminal(rng) \in RngType BY <3>1, <1>t DEF ArmTerminal, RngType
    <3> QED BY <3>2 DEF RngType
  <2>3. rng' = IF accepted
               THEN [r EXCEPT !.complete = FALSE, !.published = FALSE, !.word = 0,
                              !.id = Ask, !.active = TRUE, !.locked = TRUE]
               ELSE r
    BY <1>3 DEF RequestTerminalRng
  <2> HIDE DEF r
  <2>4. rng'.terminal = rng.terminal BY <2>1, <2>2, <2>3 DEF RngType
  <2>5. go' = [go EXCEPT !.swap = TRUE] BY <1>3 DEF RequestTerminalRng
  <2> QED BY <2>4, <2>5, <1>t DEF EndType
<1>4. CASE TerminalWork
  <2>1. CASE TerminalEnter BY <2>1, <1>t DEF TerminalEnter, EnterTerminal, RngType, EndType
  <2>2. CASE TerminalLoans BY <2>2, <1>t DEF TerminalLoans, EndType
  <2>3. CASE DeadLatch BY <2>3, <1>t DEF DeadLatch, DropWord, EnterTerminal, RngType, EndType
  <2>4. CASE DeadPay BY <2>4, <1>t DEF DeadPay, FinishTerminalPayout, EndType
  <2>5. CASE DropPreFreeze BY <2>5, <1>t DEF DropPreFreeze, RngType
  <2>6. CASE TerminalDrainCommitted \/ TerminalDrainBatch
    BY <2>6 DEF TerminalDrainCommitted, TerminalDrainBatch
  <2>7. CASE ApplyTerminalRng BY <2>7, <1>t DEF ApplyTerminalRng, ApplyDailyRng, RngType
  <2>8. ASSUME NEW paid \in BOOLEAN, PayTerminal(paid)
        PROVE  (rng.terminal => rng'.terminal) /\ (go.over => go'.over) /\ (go.dead => go'.dead)
    <3>1. go' = [go EXCEPT !.over = TRUE, !.paid = paid] BY <2>8 DEF PayTerminal
    <3>2. rng' = rng \/ rng' = [Unlocked EXCEPT !.complete = @ \/ ConsumersComplete(work)]
      BY <2>8 DEF PayTerminal
    <3> QED BY <3>1, <3>2, <1>t DEF Unlocked, RngType, EndType
  <2>9. CASE FinalSweep BY <2>9, <1>t DEF FinalSweep, EndType
  <2> QED BY <1>4, <2>1, <2>2, <2>3, <2>4, <2>5, <2>6, <2>7, <2>8, <2>9 DEF TerminalWork, TerminalPay,
        ResumeTerminalPayout
<1> QED BY <1>l, <1>1, <1>2, <1>3, <1>4, EndedStep

(* An expired purchase phase stays expired until its first terminal call. *)
LEMMA ExpiryStays ==
  Inv /\ EndInv /\ Next /\ PurchaseExpired /\ ~HardStalled /\ ~rng.terminal /\ ~go.over =>
    PurchaseExpired' \/ rng'.terminal
<1> SUFFICES ASSUME Inv, EndInv, Next, PurchaseExpired, ~HardStalled, ~rng.terminal, ~go.over
             PROVE  PurchaseExpired' \/ rng'.terminal
  OBVIOUS
<1>t. rng \in RngType /\ go \in EndType /\ ph \in PhaseType BY StateTypes
<1>l. ~Live /\ EndingReason = "PurchaseTimeout" BY ReasonCases DEF Live
<1>v. go.lvl = 0 BY DEF Inv, SettlementInv
<1>k. ASSUME daily' = daily, clock.newDay => clock'.newDay, ph'.last = ph.last, ph'.jackpot = ph.jackpot,
             ph'.start = ph.start, ph'.met = ph.met
      PROVE  PurchaseExpired'
  BY <1>k DEF PurchaseExpired
<1>1. CASE CrapsWindow BY <1>1, <1>k DEF CrapsWindow
<1>2. CASE Tick BY <1>2, <1>k, TickKeeps
<1>3. CASE Answers \/ UpdateVrfCoordinatorAndSub BY <1>3, <1>k, AnswersKeep
<1>4. ASSUME NEW accepted \in BOOLEAN, RequestTerminalRng(accepted) PROVE FALSE
  BY <1>4, <1>v DEF RequestTerminalRng, AwaitsTerminalRequest
<1>5. CASE TerminalEnter BY <1>5, <1>t DEF TerminalEnter, EnterTerminal, RngType
<1>6. CASE TerminalLoans
  <2>1. ph' = [ph EXCEPT !.loansDue = FALSE] /\ UNCHANGED <<clock, daily>> BY <1>6 DEF TerminalLoans
  <2>2. ph'.last = ph.last /\ ph'.jackpot = ph.jackpot /\ ph'.start = ph.start /\ ph'.met = ph.met
    BY <2>1, <1>t DEF PhaseType
  <2> QED BY <2>1, <2>2, <1>k
<1>7. CASE TerminalWork
  <2>1. ~TerminalWordApplied
    <3>1. go.swap => go.lvl # 0 BY DEF EndInv, EndingOrder
    <3> QED BY <3>1, <1>v DEF TerminalWordApplied
  <2> QED BY <2>1, <1>5, <1>6, <1>7, <1>l, <1>v DEF TerminalWork, DeadLatch, DeadPay, DeadEnding, DropPreFreeze,
        TerminalDrainCommitted, AwaitsTerminalRequest, ApplyTerminalRng, TerminalDrainBatch, TerminalPay,
        ResumeTerminalPayout, FinalSweep
<1> QED BY <1>l, <1>1, <1>2, <1>3, <1>4, <1>7, EndedStep

LEMMA EndingKeptStep == Inv /\ EndInv /\ Next => EndingKept
<1> SUFFICES ASSUME Inv, EndInv, Next PROVE EndingKept OBVIOUS
<1>1. go.dead => rng.terminal BY DEF EndInv, EndingOrder, Inv, SettlementInv
<1>2. EndingReason = "HardStall" => EndingReason' = "HardStall"
  <2>1. EndingReason = "HardStall" => HardStalled \/ (go.dead /\ rng.terminal)
    BY <1>1, ReasonCases
  <2> QED BY <2>1, StallStays, LatchesStay, ReasonCasesNext
<1>3. EndingReason # "None" => HardStalled \/ go.over \/ rng.terminal \/ PurchaseExpired
  BY ReasonCases
<1>4. EndingReason # "None" => EndingReason' # "None"
  BY <1>3, StallStays, LatchesStay, ExpiryStays, ReasonCasesNext
<1> QED BY <1>2, <1>4 DEF EndingKept

(* An ending is irrevocable from the moment it is due, before any call latches it: no answer, recovery,
   payout or passing of time revives the game or turns a hard stall into an ordinary ending. *)
THEOREM EndingsAreFinal == Spec => EndingsStick
<1>1. Inv /\ EndInv /\ [Next]_vars => [EndingKept]_vars BY EndingKeptStep
<1> QED BY <1>1, EndInvariance, PTL DEF Spec, EndingsStick

-----------------------------------------------------------------------------
(***************************************************************************)
(* The day: lock, freeze, pending parts and recorded word begin and end      *)
(* together, a live game waits for nothing but an answer of the coordinator, *)
(* tickets are drawn blind and in time, and each cohort of a session follows *)
(* CommitReveal.                                                           *)
(*                                                                         *)
(* The argument is DayInv, about live states only: an ending is irrevocable, *)
(* so a step into a live state is a step from one.                           *)
(***************************************************************************)

\* Which parts of a day may be pending in which phase.
LegOrder ==
  /\ legs.kind # 3
  /\ legs.earlyBird \/ legs.tickets \/ legs.kind \in {2, 7} => ph.jackpot
  /\ legs.purchase \/ legs.kind = 1 => ~ph.jackpot
  /\ ph.transition => legs.kind = 0 /\ ~legs.earlyBird /\ ~legs.tickets /\ ~legs.purchase

DayOpen ==
  /\ rng.locked = ph.frozen
  /\ ~rng.locked => legs = NoLegs /\ ~ph.transition
  /\ rng.locked => ~daily.complete /\ rng.day = daily.idx

\* What the ring holds for the running day, and that it holds nothing of a later one.
Ring ==
  /\ daily.idx # 0 /\ \A p \in 0..1 : daily.recorded[p].day <= daily.idx
  /\ ~daily.complete => RecordedWord(daily.idx) \in {0, rng.word}
  /\ daily.complete /\ daily.idx > 1 => RecordedWord(daily.idx) # 0
  /\ ~daily.complete /\ ~rng.locked => RecordedWord(daily.idx) = rng.word /\ rng.word # 0

\* What can be missing in an open session.
Waiting ==
  /\ rng.active /\ rng.word = 0 => rng.id = vrf.asks
  /\ rng.active /\ rng.published => rng.locked
  /\ ~rng.active /\ ~rng.complete => rng.published /\ rng.word # 0
  /\ tix.processed => tix.midDay = 0

DayParts == LegOrder /\ DayOpen /\ Ring /\ Waiting

DayInv == Live => DayParts

-----------------------------------------------------------------------------

(* A step that leaves the day, its parts and the session's request alone. *)
LEMMA QuietDay ==
  ASSUME DayParts, UNCHANGED <<daily, legs>>, vrf'.asks = vrf.asks,
         rng'.locked = rng.locked, rng'.day = rng.day, rng'.active = rng.active, rng'.id = rng.id,
         rng'.published = rng.published, rng'.complete = rng.complete, rng'.word = rng.word,
         ph'.frozen = ph.frozen, ph'.jackpot = ph.jackpot, ph'.transition = ph.transition,
         tix'.processed => tix'.midDay = 0
  PROVE  DayParts'
<1>1. LegOrder' BY DEF DayParts, LegOrder
<1>2. DayOpen' BY DEF DayParts, DayOpen, NoLegs
<1>3. Ring' BY DEF DayParts, Ring, RecordedWord
<1>4. Waiting' BY DEF DayParts, Waiting
<1> QED BY <1>1, <1>2, <1>3, <1>4 DEF DayParts

(* A part of the day, under its lock. *)
LEMMA PartOfDay ==
  ASSUME DayParts, NextMinerAction = "DailyPhase", UNCHANGED daily, vrf'.asks = vrf.asks,
         rng'.locked = rng.locked, rng'.day = rng.day, rng'.active = rng.active, rng'.id = rng.id,
         rng'.published = rng.published, rng'.word = rng.word,
         ph'.frozen = ph.frozen, tix'.midDay = tix.midDay, tix'.processed = tix.processed,
         LegOrder'
  PROVE  DayParts'
<1>0. rng.locked /\ rng.published /\ rng.word # 0 BY LiveScheduled
<1>2. DayOpen' BY <1>0 DEF DayParts, DayOpen
<1>3. Ring' BY DEF DayParts, Ring, RecordedWord
<1>4. Waiting' BY <1>0 DEF DayParts, Waiting
<1> QED BY <1>2, <1>3, <1>4 DEF DayParts

(* The worker of a day part runs only when the day's word is recorded. *)
LEMMA PhaseScheduled ==
  NextMinerAction = "DailyPhase" =>
    rng.locked /\ rng.published /\ rng.word # 0 /\ RecordedWord(rng.day) # 0 /\ ~rng.complete
<1>1. NextMinerAction = "DailyPhase" => RecordedWord(rng.day) # 0 BY DEF NextMinerAction, ConsumerStage
<1> QED BY <1>1, LiveScheduled, Scheduled

(* Certifying seals at most a day whose word is recorded. *)
LEMMA CertifiedDay ==
  ASSUME Inv, DayParts, NEW r \in RngType, NEW done \in BOOLEAN, CertifyRngComplete(r, done),
         r.word = rng.word,
         done => ~r.locked,
         ~daily.complete /\ ~r.locked => RecordedWord(daily.idx) = rng.word /\ rng.word # 0
  PROVE  /\ Ring' /\ (rng'.locked => ~daily'.complete \/ daily.complete)
         /\ daily'.idx = daily.idx
         /\ rng'.word = r.word /\ rng'.locked = r.locked /\ rng'.active = r.active
         /\ rng'.published = r.published /\ rng'.id = r.id /\ rng'.day = r.day
         /\ rng'.complete \in {r.complete, TRUE}
<1>d. daily \in DailyType BY StateTypes
<1>1. rng' = IF done THEN [r EXCEPT !.complete = TRUE] ELSE r BY DEF CertifyRngComplete
<1>2. /\ rng'.word = r.word /\ rng'.locked = r.locked /\ rng'.active = r.active
      /\ rng'.published = r.published /\ rng'.id = r.id /\ rng'.day = r.day
      /\ rng'.complete \in {r.complete, TRUE}
  BY <1>1 DEF RngType
<1>3. /\ daily'.idx = daily.idx /\ daily'.recorded = daily.recorded
      /\ daily'.complete = daily.complete \/ (daily'.complete /\ done /\ ~daily.complete)
  BY <1>d DEF CertifyRngComplete, SealsDay, DailyType
<1>5. Ring'
  <2>1. Ring BY DEF DayParts
  <2>2. daily'.idx # 0 /\ \A p \in 0..1 : daily'.recorded[p].day <= daily'.idx BY <2>1, <1>3 DEF Ring
  <2>3. ~daily'.complete => ~daily.complete BY <1>3
  <2>4. RecordedWord(daily.idx)' = RecordedWord(daily.idx) BY <1>3 DEF RecordedWord
  <2>5. ~daily'.complete => RecordedWord(daily.idx)' \in {0, rng'.word}
    BY <2>1, <2>3, <2>4, <1>2 DEF Ring
  <2>6. daily'.complete /\ daily'.idx > 1 => RecordedWord(daily.idx)' # 0
    BY <2>1, <2>4, <1>3 DEF Ring
  <2>7. ~daily'.complete /\ ~rng'.locked => RecordedWord(daily.idx)' = rng'.word /\ rng'.word # 0
    BY <2>3, <2>4, <1>2
  <2> QED BY <2>2, <2>5, <2>6, <2>7 DEF Ring
<1>6. rng'.locked => ~daily'.complete \/ daily.complete BY <1>2, <1>3
<1> QED BY <1>2, <1>3, <1>5, <1>6

(* Unlocking ends the day's undertaking: no part and no transition may be left. *)
LEMMA UnlockDay ==
  ASSUME Inv, DayParts, NextMinerAction = "DailyPhase", NEW p \in PhaseType, UnlockRng(p),
         vrf'.asks = vrf.asks, legs' = NoLegs, ~p.transition,
         tix'.midDay = tix.midDay, tix'.processed = tix.processed
  PROVE  DayParts'
<1>0. rng.locked /\ rng.published /\ rng.word # 0 /\ RecordedWord(rng.day) # 0
  BY PhaseScheduled
<1>t. rng \in RngType BY StateTypes
<1>1. /\ Unlocked \in RngType /\ Unlocked.word = rng.word /\ ~Unlocked.locked /\ ~Unlocked.active
      /\ Unlocked.published = rng.published
  BY <1>t DEF Unlocked, RngType
<1>2. RecordedWord(daily.idx) = rng.word
  BY <1>0 DEF DayParts, DayOpen, Ring
<1> DEFINE done == ~Unlocked.complete /\ ~Unlocked.locked /\ ~Unlocked.active /\ ConsumersComplete(work)
<1>3. CertifyRngComplete(Unlocked, done) /\ done \in BOOLEAN BY DEF UnlockRng, TryCompleteRng
<1>4. done => ~Unlocked.locked OBVIOUS
<1> HIDE DEF done
<1>5. /\ Ring' /\ ~rng'.locked /\ ~rng'.active /\ rng'.published = rng.published /\ rng'.word = rng.word
  BY <1>0, <1>1, <1>2, <1>3, <1>4, CertifiedDay
<1>6. ~ph'.frozen /\ ph'.transition = p.transition BY DEF UnlockRng, Unfrozen, PhaseType
<1>7. DayOpen'
  <2>1. ph'.frozen = FALSE BY DEF UnlockRng, Unfrozen, PhaseType
  <2>2. rng'.locked = FALSE BY <1>t, <1>3 DEF CertifyRngComplete, Unlocked, RngType
  <2> QED BY <2>1, <2>2, <1>6 DEF DayOpen, NoLegs
<1>8. LegOrder' BY <1>6 DEF LegOrder, NoLegs
<1>9. Waiting' BY <1>0, <1>5 DEF DayParts, Waiting
<1> QED BY <1>5, <1>7, <1>8, <1>9 DEF DayParts

(* A read consumer's worker may seal the day, outside the lock. *)
LEMMA ConsumerDay ==
  ASSUME Inv, DayParts, TryCompleteRng(rng, work'), UNCHANGED <<vrf, ph, legs>>, ~rng.locked,
         tix'.midDay = tix.midDay, tix'.processed = tix.processed
  PROVE  DayParts'
<1>t. rng \in RngType BY StateTypes
<1> DEFINE done == ~rng.complete /\ ~rng.locked /\ ~rng.active /\ ConsumersComplete(work')
<1>1. CertifyRngComplete(rng, done) /\ done \in BOOLEAN BY DEF TryCompleteRng
<1>2. done => ~rng.locked OBVIOUS
<1>3. ~daily.complete /\ ~rng.locked => RecordedWord(daily.idx) = rng.word /\ rng.word # 0
  BY DEF DayParts, Ring
<1> HIDE DEF done
<1>4. /\ Ring' /\ rng'.word = rng.word /\ rng'.locked = rng.locked /\ rng'.active = rng.active
      /\ rng'.published = rng.published /\ rng'.id = rng.id /\ rng'.complete \in {rng.complete, TRUE}
  BY <1>t, <1>1, <1>2, <1>3, CertifiedDay
<1>5. LegOrder' BY DEF DayParts, LegOrder
<1>6. DayOpen' BY <1>4 DEF DayParts, DayOpen, NoLegs
<1>7. Waiting' BY <1>4 DEF DayParts, Waiting
<1> QED BY <1>4, <1>5, <1>6, <1>7 DEF DayParts

-----------------------------------------------------------------------------

(* Which parts are pending when a part of the day is selected. *)
LEMMA StageParts ==
  /\ DailyStage # "none" => NextMinerAction = "DailyPhase"
  /\ DailyStage \in {"Degenesis", "PurchaseDaily", "Consolidate"} =>
       ~legs.battle /\ ~ph.transition /\ legs.kind \notin {1, 2, 7} /\ ~ph.jackpot /\ ~legs.purchase
  /\ DailyStage = "PurchaseTickets" =>
       ~legs.battle /\ ~ph.transition /\ legs.kind \notin {1, 2, 7} /\ ~ph.jackpot
  /\ DailyStage = "EthDraw" => ~legs.battle /\ ~ph.transition /\ legs.kind \in {1, 2}
  /\ DailyStage = "BafAwards" => ~legs.battle /\ ~ph.transition /\ legs.kind = 7
  /\ DailyStage \in {"EarlyBird", "JackpotTickets", "JackpotDaily"} =>
       ~legs.battle /\ ~ph.transition /\ legs.kind \notin {1, 2, 7} /\ ph.jackpot
  /\ DailyStage = "Transition" => ~legs.battle /\ ph.transition
  BY DEF DailyStage

(* The parts of a day. *)
LEMMA DailyWorkDay == Inv /\ DayParts /\ DailyWork => DayParts'
<1> SUFFICES ASSUME Inv, DayParts, DailyWork PROVE DayParts' OBVIOUS
<1>t. rng \in RngType /\ ph \in PhaseType /\ legs \in LegType /\ tix \in TicketType BY StateTypes
<1>0. LegOrder BY DEF DayParts
<1>a. \A l : \A t \in Awards(tix, l) : t.midDay = tix.midDay /\ t.processed = tix.processed
  BY <1>t DEF Awards, TicketType
<1>s. ASSUME NextMinerAction = "DailyPhase", SealPurchaseDay(ph), ~ph.transition,
             vrf'.asks = vrf.asks, legs' = NoLegs, tix'.midDay = tix.midDay, tix'.processed = tix.processed
      PROVE  DayParts'
  <2>1. PICK p \in {ph, [ph EXCEPT !.last = TRUE,
                           !.turbo = @ \/ OneDayLevel(ph.level + 1)
                                     \/ ((ph.level + 1) % 10 = 0 /\ rng.day - ph.start <= 1)]} :
          UnlockRng(p)
    BY <1>s DEF SealPurchaseDay
  <2>2. p \in PhaseType /\ p.transition = ph.transition BY <1>t DEF PhaseType, OneDayLevel
  <2> QED BY <1>s, <2>1, <2>2, UnlockDay
<1>n. \A l \in LegType :
        ~l.battle /\ l.kind = 0 /\ ~l.earlyBird /\ ~l.tickets /\ ~l.purchase => l = NoLegs
  BY DEF LegType, NoLegs
<1>1. CASE JackpotBattle
  <2>1. legs' = [legs EXCEPT !.battle = FALSE] /\ UNCHANGED <<daily, rng, vrf, tix, ph>> BY <1>1 DEF JackpotBattle
  <2>2. LegOrder' BY <2>1, <1>0, <1>t DEF LegOrder, LegType
  <2> QED BY <2>1, <2>2, <1>1, StageParts, PartOfDay DEF JackpotBattle
<1>2. CASE DegenesisDay
  <2>1. legs = NoLegs BY <1>2, <1>0, <1>n, <1>t, StageParts DEF DegenesisDay, LegOrder, LegType
  <2> QED BY <2>1, <1>2, <1>t, StageParts, UnlockDay DEF DegenesisDay
<1>3. CASE PurchaseDaily
  <2>1. legs = NoLegs BY <1>3, <1>0, <1>n, <1>t, StageParts DEF PurchaseDaily, LegOrder, LegType
  <2>2. CASE ph.level = 0 BY <2>1, <2>2, <1>3, <1>s, StageParts DEF PurchaseDaily
  <2>3. CASE ph.level # 0
    <3>1. PICK tickets \in BOOLEAN, met \in {ph.met, TRUE} :
            legs' = [legs EXCEPT !.kind = 1, !.purchase = tickets] /\ ph' = [ph EXCEPT !.met = met]
      BY <2>3, <1>3 DEF PurchaseDaily
    <3>2. /\ ph'.frozen = ph.frozen /\ ph'.jackpot = ph.jackpot /\ ph'.transition = ph.transition
          /\ legs'.kind = 1 /\ legs'.earlyBird = FALSE /\ legs'.tickets = FALSE
      BY <3>1, <2>1, <1>t DEF PhaseType, LegType, NoLegs
    <3>3. LegOrder'
      <4>1. ~ph'.jackpot /\ ~ph'.transition BY <3>2, <1>3, StageParts DEF PurchaseDaily
      <4> QED BY <3>2, <4>1 DEF LegOrder
    <3> QED BY <3>2, <3>3, <2>3, <1>3, StageParts, PartOfDay DEF PurchaseDaily
  <2> QED BY <2>2, <2>3
<1>4. CASE EthDraw
  <2>1. legs' = [legs EXCEPT !.kind = 0, !.tickets = ph.jackpot \/ @] BY <1>4 DEF EthDraw
  <2>2. /\ legs'.kind = 0 /\ (legs'.tickets => ph.jackpot \/ legs.tickets)
        /\ legs'.earlyBird = legs.earlyBird /\ legs'.purchase = legs.purchase /\ legs'.battle = legs.battle
        /\ legs' \in LegType
    BY <2>1, <1>t DEF LegType
  <2>3. CASE ~ph.jackpot /\ ~legs.purchase
    <3>1. legs' = NoLegs BY <2>2, <2>3, <1>4, <1>0, <1>n, StageParts DEF EthDraw, LegOrder
    <3> QED BY <3>1, <2>3, <1>4, <1>s, StageParts DEF EthDraw
  <2>4. CASE ~(~ph.jackpot /\ ~legs.purchase)
    <3>1. UNCHANGED <<daily, rng, ph, vrf, tix>> BY <2>4, <1>4 DEF EthDraw
    <3>2. LegOrder'
      <4>1. ~ph.transition BY <1>4, StageParts DEF EthDraw
      <4>2. /\ legs.earlyBird \/ legs.tickets => ph.jackpot
            /\ legs.purchase => ~ph.jackpot
        BY <1>0 DEF LegOrder
      <4> QED BY <3>1, <4>1, <4>2, <2>2 DEF LegOrder
    <3> QED BY <3>1, <3>2, <1>4, StageParts, PartOfDay DEF EthDraw
  <2> QED BY <2>3, <2>4
<1>5. CASE PurchaseTickets
  <2>1. legs' = [legs EXCEPT !.purchase = FALSE] BY <1>5 DEF PurchaseTickets
  <2>2. legs' = NoLegs
    <3>1. legs' \in LegType /\ ~legs'.purchase /\ legs'.battle = legs.battle /\ legs'.kind = legs.kind
          /\ legs'.earlyBird = legs.earlyBird /\ legs'.tickets = legs.tickets
      BY <2>1, <1>t DEF LegType
    <3> QED BY <3>1, <1>5, <1>0, <1>n, <1>t, StageParts DEF PurchaseTickets, LegOrder, LegType
  <2> QED BY <2>2, <1>5, <1>a, <1>s, StageParts DEF PurchaseTickets
<1>6. CASE Consolidate
  <2>1. /\ \E met, growth : ph' = [ph EXCEPT !.jackpot = TRUE, !.last = FALSE, !.met = met, !.growth = growth]
        /\ \E kind \in {0, 7} : legs' = [legs EXCEPT !.kind = kind]
        /\ \E complete : rng' = [rng EXCEPT !.complete = complete]
    BY <1>6 DEF Consolidate
  <2>2. /\ ph'.frozen = ph.frozen /\ ph'.jackpot /\ ph'.transition = ph.transition
        /\ legs'.kind \in {0, 7} /\ legs'.purchase = legs.purchase
    BY <2>1, <1>t DEF PhaseType, LegType
  <2>3. /\ rng'.locked = rng.locked /\ rng'.day = rng.day /\ rng'.active = rng.active /\ rng'.id = rng.id
        /\ rng'.published = rng.published /\ rng'.word = rng.word
    BY <2>1, <1>t DEF RngType
  <2>4. LegOrder'
    <3>1. ~ph.transition /\ ~legs.purchase BY <1>6, StageParts DEF Consolidate
    <3> QED BY <3>1, <2>2 DEF LegOrder
  <2> QED BY <2>2, <2>3, <2>4, <1>6, StageParts, PartOfDay DEF Consolidate
<1>7. CASE BafAwards
  <2>1. legs' = [legs EXCEPT !.kind = 0] BY <1>7 DEF BafAwards
  <2>2. LegOrder' BY <2>1, <1>7, <1>0, <1>t, StageParts DEF BafAwards, LegOrder, LegType
  <2> QED BY <2>2, <1>7, <1>a, StageParts, PartOfDay DEF BafAwards
<1>8. CASE JackpotDaily
  <2>1. PICK early \in BOOLEAN : legs' = [legs EXCEPT !.kind = 2, !.earlyBird = early, !.purchase = FALSE]
    BY <1>8 DEF JackpotDaily
  <2>2. LegOrder' BY <2>1, <1>8, <1>0, <1>t, StageParts DEF JackpotDaily, LegOrder, LegType
  <2> QED BY <2>2, <1>8, StageParts, PartOfDay DEF JackpotDaily
<1>9. CASE EarlyBird
  <2>1. legs' = [legs EXCEPT !.earlyBird = FALSE, !.purchase = FALSE] BY <1>9 DEF EarlyBird
  <2>2. LegOrder' BY <2>1, <1>9, <1>0, <1>t, StageParts DEF EarlyBird, LegOrder, LegType
  <2> QED BY <2>2, <1>9, <1>a, StageParts, PartOfDay DEF EarlyBird
<1>10. CASE JackpotTickets
  <2>1. CASE ph.counter + 1 >= PhaseDays
    <3>1. PICK met : ph' = [ph EXCEPT !.transition = TRUE, !.counter = 0, !.turbo = FALSE, !.met = met]
      BY <2>1, <1>10 DEF JackpotTickets
    <3>2. ph'.frozen = ph.frozen BY <3>1, <1>t DEF PhaseType
    <3>3. LegOrder'
      <4>1. legs' = NoLegs BY <1>10 DEF JackpotTickets
      <4> QED BY <4>1 DEF LegOrder, NoLegs
    <3> QED BY <3>2, <3>3, <2>1, <1>10, <1>a, StageParts, PartOfDay DEF JackpotTickets
  <2>2. CASE ~(ph.counter + 1 >= PhaseDays)
    <3>1. UnlockRng([ph EXCEPT !.counter = @ + 1]) /\ legs' = NoLegs BY <2>2, <1>10 DEF JackpotTickets
    <3>2. [ph EXCEPT !.counter = @ + 1] \in PhaseType /\ ~[ph EXCEPT !.counter = @ + 1].transition
      <4>1. ~ph.transition BY <1>10, StageParts DEF JackpotTickets
      <4> QED BY <4>1, <1>t DEF PhaseType
    <3> QED BY <3>1, <3>2, <1>10, <1>a, StageParts, UnlockDay DEF JackpotTickets
  <2> QED BY <2>1, <2>2
<1>11. CASE PhaseTransition
  <2> DEFINE p == [ph EXCEPT !.transition = FALSE, !.start = rng.day, !.jackpot = FALSE]
  <2>1. p \in PhaseType /\ ~p.transition BY <1>t DEF PhaseType, RngType
  <2>2. UnlockRng(p) BY <1>11 DEF PhaseTransition
  <2>3. legs = NoLegs BY <1>11, <1>0, <1>n, <1>t, StageParts DEF PhaseTransition, LegOrder, LegType
  <2> HIDE DEF p
  <2> QED BY <2>1, <2>2, <2>3, <1>11, StageParts, UnlockDay DEF PhaseTransition
<1> QED BY <1>1, <1>2, <1>3, <1>4, <1>5, <1>6, <1>7, <1>8, <1>9, <1>10, <1>11 DEF DailyWork

(* Publication and the rest of a live mining call. *)
LEMMA LiveWorkDay == Inv /\ EndInv /\ DayParts /\ (PublishRng \/ LiveWork) => DayParts'
<1> SUFFICES ASSUME Inv, EndInv, DayParts, PublishRng \/ LiveWork PROVE DayParts' OBVIOUS
<1>t. rng \in RngType /\ ph \in PhaseType /\ tix \in TicketType /\ daily \in DailyType BY StateTypes
<1>p. tix.processed => tix.midDay = 0 BY DEF DayParts, Waiting
<1>1. CASE PublishRng
  <2>1. /\ rng' = [rng EXCEPT !.published = TRUE, !.active = rng.locked] /\ rng.active /\ rng.word # 0
        /\ UNCHANGED <<daily, vrf, tix, ph, legs>>
    BY <1>1, LiveScheduled DEF PublishRng
  <2>2. /\ rng'.locked = rng.locked /\ rng'.day = rng.day /\ rng'.id = rng.id /\ rng'.word = rng.word
        /\ rng'.published /\ (rng'.active => rng.locked)
    BY <2>1, <1>t DEF RngType
  <2>3. LegOrder' BY <2>1 DEF DayParts, LegOrder
  <2>4. DayOpen' BY <2>1, <2>2 DEF DayParts, DayOpen, NoLegs
  <2>5. Ring' BY <2>1, <2>2 DEF DayParts, Ring, RecordedWord
  <2>6. Waiting' BY <2>1, <2>2 DEF DayParts, Waiting
  <2> QED BY <2>3, <2>4, <2>5, <2>6 DEF DayParts
<1>2. CASE TicketsRead
  <2>1. tix'.midDay = tix.midDay /\ tix'.processed = tix.processed BY <1>2, <1>t DEF TicketsRead, TicketType
  <2> QED BY <2>1, <1>2, <1>p, QuietDay DEF TicketsRead
<1>3. CASE TicketsFar
  <2>1. tix'.midDay = tix.midDay /\ tix'.processed = tix.processed BY <1>3, <1>t DEF TicketsFar, TicketType
  <2> QED BY <2>1, <1>3, <1>p, QuietDay DEF TicketsFar
<1>4. CASE TicketsDone
  <2>1. \/ tix' = [tix EXCEPT !.midDay = 1] /\ tix.midDay = 2
        \/ tix' = [tix EXCEPT !.processed = TRUE, !.midDay = 0]
    BY <1>4 DEF TicketsDone
  <2>2. tix'.processed => tix'.midDay = 0
    <3>1. CASE tix' = [tix EXCEPT !.midDay = 1] /\ tix.midDay = 2
      <4>1. tix'.processed = tix.processed /\ ~tix.processed BY <3>1, <1>p, <1>t DEF TicketType
      <4> QED BY <4>1
    <3>2. CASE tix' = [tix EXCEPT !.processed = TRUE, !.midDay = 0] BY <3>2, <1>t DEF TicketType
    <3> QED BY <2>1, <3>1, <3>2
  <2> QED BY <2>2, <1>4, QuietDay DEF TicketsDone
<1>5. CASE ApplyDailyWord
  <2>1. rng.locked /\ rng.word # 0 BY <1>5, LiveScheduled DEF ApplyDailyWord
  <2>2. rng.day = daily.idx /\ ~daily.complete /\ daily.idx # 0 /\ daily.idx \in Nat
    BY <2>1, <1>t DEF DayParts, DayOpen, Ring, DailyType
  <2>3. /\ daily' = [daily EXCEPT !.recorded[daily.idx % 2] = [day |-> daily.idx, word |-> rng.word]]
        /\ rng' = [rng EXCEPT !.nudges = 0] /\ UNCHANGED <<vrf, tix, ph, legs>>
    BY <1>5, <2>2 DEF ApplyDailyWord, ApplyDailyRng
  <2>4. /\ rng'.locked = rng.locked /\ rng'.day = rng.day /\ rng'.id = rng.id /\ rng'.word = rng.word
        /\ rng'.published = rng.published /\ rng'.active = rng.active /\ rng'.complete = rng.complete
    BY <2>3, <1>t DEF RngType
  <2>5. daily.idx % 2 \in 0..1 BY <2>2
  <2>6. /\ daily'.idx = daily.idx /\ daily'.complete = daily.complete
        /\ daily'.recorded = [daily.recorded EXCEPT ![daily.idx % 2] = [day |-> daily.idx, word |-> rng.word]]
    BY <2>3, <1>t DEF DailyType
  <2>7. daily.recorded \in WordRing BY <1>t DEF DailyType
  <2>8. daily'.recorded[daily.idx % 2] = [day |-> daily.idx, word |-> rng.word]
    BY <2>5, <2>6, <2>7 DEF WordRing
  <2>9. RecordedWord(daily.idx)' = rng.word BY <2>2, <2>6, <2>8 DEF RecordedWord
  <2>10. \A p \in 0..1 : daily'.recorded[p].day <= daily'.idx
    BY <2>2, <2>6, <2>7 DEF DayParts, Ring, WordRing
  <2>11. Ring' BY <2>2, <2>4, <2>6, <2>9, <2>10, <2>1 DEF Ring
  <2>12. LegOrder' BY <2>3 DEF DayParts, LegOrder
  <2>13. DayOpen' BY <2>3, <2>4, <2>6 DEF DayParts, DayOpen, NoLegs
  <2>14. Waiting' BY <2>3, <2>4 DEF DayParts, Waiting
  <2> QED BY <2>11, <2>12, <2>13, <2>14 DEF DayParts
<1>6. CASE DailyWork BY <1>6, DailyWorkDay
<1>7. CASE ReadConsumers
  <2>1. \A s \in Consumers : NextMinerAction = s => ~rng.locked BY ConsumerSelected
  <2>2. CASE RedemptionWork BY <2>2, <1>p, QuietDay DEF RedemptionWork
  <2>3. CASE AfkingWork BY <2>3, <2>1, ConsumerDay DEF AfkingWork, Settles, Consumers
  <2>4. CASE HumanBoxWork
    <3>1. tix' = tix \/ \E l : tix' \in Awards(tix, l) BY <2>4 DEF HumanBoxWork
    <3>2. tix'.midDay = tix.midDay /\ tix'.processed = tix.processed
      BY <3>1, <1>t DEF Awards, TicketType
    <3> QED BY <3>2, <2>4, <2>1, ConsumerDay DEF HumanBoxWork, Settles, Consumers
  <2>5. CASE DegeneretteWork BY <2>5, <2>1, ConsumerDay DEF DegeneretteWork, Settles, Consumers
  <2>6. CASE DecimatorWork BY <2>6, <2>1, ConsumerDay DEF DecimatorWork, Settles, Consumers
  <2>7. CASE CrapsReadWork BY <2>7, <2>1, ConsumerDay DEF CrapsReadWork, Settles, Consumers
  <2> QED BY <1>7, <2>2, <2>3, <2>4, <2>5, <2>6, <2>7 DEF ReadConsumers
<1>8. CASE PrepareSubscriptions
  <2>1. \/ tix' = tix
        \/ \E k : tix' = [tix EXCEPT !.queue[tix.write][k] = Stamp]
    BY <1>8 DEF PrepareSubscriptions
  <2>2. tix'.midDay = tix.midDay /\ tix'.processed = tix.processed BY <2>1, <1>t DEF TicketType
  <2> QED BY <2>2, <1>8, <1>p, QuietDay DEF PrepareSubscriptions
<1>9. CASE SeizeLoans
  <2>1. ph'.frozen = ph.frozen /\ ph'.jackpot = ph.jackpot /\ ph'.transition = ph.transition
    BY <1>9, <1>t DEF SeizeLoans, PhaseType
  <2> QED BY <2>1, <1>9, <1>p, QuietDay DEF SeizeLoans
<1>10. CASE GrowthSettle
  <2>1. ph'.frozen = ph.frozen /\ ph'.jackpot = ph.jackpot /\ ph'.transition = ph.transition
    BY <1>10, <1>t DEF GrowthSettle, PhaseType
  <2> QED BY <2>1, <1>10, <1>p, QuietDay DEF GrowthSettle
<1> QED BY <1>1, <1>2, <1>3, <1>4, <1>5, <1>6, <1>7, <1>8, <1>9, <1>10 DEF LiveWork

(* Player entries and time. *)
LEMMA EntriesDay == Inv /\ DayParts /\ (PlayerEntry \/ Tick) => DayParts'
<1> SUFFICES ASSUME Inv, DayParts, PlayerEntry \/ Tick PROVE DayParts' OBVIOUS
<1>t. rng \in RngType /\ ph \in PhaseType /\ tix \in TicketType BY StateTypes
<1>p. tix.processed => tix.midDay = 0 BY DEF DayParts, Waiting
<1>c. Contributes =>
        ph'.frozen = ph.frozen /\ ph'.jackpot = ph.jackpot /\ ph'.transition = ph.transition
  BY <1>t DEF Contributes, AddPrizeContribution, PhaseType
<1>1. CASE BuyBox BY <1>1, <1>c, <1>p, QuietDay DEF BuyBox
<1>2. CASE PlaceBet \/ CrapsWindow \/ RequestRedemption
  BY <1>2, <1>p, QuietDay DEF PlaceBet, CrapsWindow, RequestRedemption
<1>3. CASE BuyTicket
  <2>1. tix'.midDay = tix.midDay /\ tix'.processed = tix.processed BY <1>3, <1>t DEF BuyTicket, TicketType
  <2> QED BY <2>1, <1>3, <1>c, <1>p, QuietDay DEF BuyTicket
<1>4. CASE Nudge
  <2>1. rng' = [rng EXCEPT !.nudges = Stamp] BY <1>4 DEF Nudge
  <2>2. /\ rng'.locked = rng.locked /\ rng'.day = rng.day /\ rng'.active = rng.active /\ rng'.id = rng.id
        /\ rng'.published = rng.published /\ rng'.complete = rng.complete /\ rng'.word = rng.word
    BY <2>1, <1>t DEF RngType
  <2> QED BY <2>2, <1>4, <1>p, QuietDay DEF Nudge
<1>5. ASSUME NEW l \in Levels, BuyFar(l) PROVE DayParts'
  <2>1. tix'.midDay = tix.midDay /\ tix'.processed = tix.processed BY <1>5, <1>t DEF BuyFar, TicketType
  <2> QED BY <2>1, <1>5, <1>p, QuietDay DEF BuyFar
<1>6. CASE Tick BY <1>6, <1>p, QuietDay DEF Tick
<1> QED BY <1>1, <1>2, <1>3, <1>4, <1>5, <1>6 DEF PlayerEntry

-----------------------------------------------------------------------------

(* The requests of a live game, the coordinator's answers and the recoveries. *)
LEMMA RequestsDay ==
  Inv /\ EndInv /\ DayParts /\ Live /\ (RequestDaily \/ RequestMidday \/ Answers \/ Recovery) => DayParts'
<1> SUFFICES ASSUME Inv, EndInv, DayParts, Live, RequestDaily \/ RequestMidday \/ Answers \/ Recovery
             PROVE  DayParts'
  OBVIOUS
<1>t. /\ rng \in RngType /\ ph \in PhaseType /\ legs \in LegType /\ tix \in TicketType
      /\ daily \in DailyType /\ vrf \in VrfType
  BY StateTypes
<1>p. tix.processed => tix.midDay = 0 BY DEF DayParts, Waiting
<1>a. AskVrf.asks = Ask BY <1>t DEF AskVrf, VrfType
<1>w. rng.word # 0 => rng.word = rng.id \/ rng.id = 0 BY DEF Inv, SettlementInv, WordIsRequested
<1>u. ~go.dead BY LiveUnlatched
<1>o. ASSUME NextMinerAction \in {"RequestDaily", "RequestMidday"}
      PROVE  daily.complete /\ ~rng.locked /\ legs = NoLegs /\ ~ph.transition /\ ~ph.frozen
  <2>1. rng.complete /\ ~rng.terminal BY <1>o, Scheduled
  <2>2. daily.complete BY <1>o DEF NextMinerAction, ConsumerStage, MiddayEligible
  <2>3. ~rng.locked BY <2>1 DEF Inv, SettlementInv, CompleteMeansDrained
  <2> QED BY <2>2, <2>3 DEF DayParts, DayOpen
<1>1. CASE RequestDaily
  <2>1. daily.complete /\ legs = NoLegs /\ ~ph.transition BY <1>1, <1>o DEF RequestDaily
  <2>2. /\ daily' = [daily EXCEPT !.idx = daily.idx + 1, !.complete = FALSE]
        /\ rng' = [FreshRequest(rng, daily.idx + 1) EXCEPT !.locked = TRUE]
        /\ vrf' = AskVrf
    BY <1>1 DEF RequestDaily
  <2>3. daily'.idx = daily.idx + 1 /\ ~daily'.complete /\ daily'.recorded = daily.recorded
    BY <2>2, <1>t DEF DailyType
  <2>4. /\ rng'.locked /\ rng'.active /\ ~rng'.published /\ rng'.word = 0 /\ rng'.id = Ask
        /\ rng'.day = daily.idx + 1
    <3>1. FreshRequest(rng, daily.idx + 1) \in RngType BY <1>t, FreshType DEF DailyType, Inv
    <3>2. /\ FreshRequest(rng, daily.idx + 1).active /\ ~FreshRequest(rng, daily.idx + 1).published
          /\ FreshRequest(rng, daily.idx + 1).word = 0 /\ FreshRequest(rng, daily.idx + 1).id = Ask
          /\ FreshRequest(rng, daily.idx + 1).day = daily.idx + 1
      BY <1>t DEF FreshRequest, RngType
    <3> QED BY <2>2, <3>1, <3>2 DEF RngType
  <2>5. ph'.frozen = TRUE /\ ph'.transition = ph.transition /\ ph'.jackpot = ph.jackpot
    BY <1>1, <1>t DEF RequestDaily, PhaseType
  <2>6. \E battle \in BOOLEAN : legs' = [legs EXCEPT !.battle = @ \/ battle] BY <1>1 DEF RequestDaily
  <2>7. legs'.kind = 0 /\ ~legs'.earlyBird /\ ~legs'.tickets /\ ~legs'.purchase
    BY <2>1, <2>6 DEF NoLegs
  <2>8. LegOrder' BY <2>7 DEF LegOrder
  <2>9. DayOpen' BY <2>3, <2>4, <2>5 DEF DayOpen
  <2>10. Ring'
    <3>1. Ring /\ daily.idx \in Nat /\ daily.recorded \in WordRing BY <1>t DEF DayParts, DailyType
    <3>2. \A p \in 0..1 : daily.recorded[p].day \in Nat /\ daily.recorded[p].day <= daily.idx
      BY <3>1 DEF Ring, WordRing
    <3>3. (daily.idx + 1) % 2 \in 0..1 BY <3>1
    <3>4. RecordedWord(daily.idx)' = 0 BY <2>3, <3>1, <3>2, <3>3 DEF RecordedWord
    <3>5. daily'.idx # 0 /\ \A p \in 0..1 : daily'.recorded[p].day <= daily'.idx
      BY <2>3, <3>1, <3>2
    <3> QED BY <2>3, <2>4, <3>4, <3>5 DEF Ring
  <2>11. ~tix'.processed
    <3>1. PICK early \in {ph.level + 2, tix.early}, gnrus \in BOOLEAN :
            tix' = SwapTicketSlot(GnrusBuys([tix EXCEPT !.early = early], gnrus))
      BY <1>1 DEF RequestDaily
    <3> QED BY <3>1, <1>t DEF SwapTicketSlot, GnrusBuys, TicketType
  <2>12. Waiting' BY <2>2, <2>4, <2>11, <1>a DEF Waiting
  <2> QED BY <2>8, <2>9, <2>10, <2>12 DEF DayParts
<1>2. CASE RequestMidday
  <2>1. daily.complete /\ ~rng.locked BY <1>2, <1>o DEF RequestMidday
  <2>2. rng' = FreshRequest(rng, 0) /\ vrf' = AskVrf /\ UNCHANGED <<daily, ph, legs>>
    BY <1>2 DEF RequestMidday
  <2>3. rng'.locked = rng.locked /\ rng'.active /\ ~rng'.published /\ rng'.word = 0 /\ rng'.id = Ask
    BY <2>2, <1>t DEF FreshRequest, RngType
  <2>4. tix'.processed => tix'.midDay = 0
    <3>1. PICK early \in {ph.level + 2, tix.early} :
            \/ tix' = [[tix EXCEPT !.early = early] EXCEPT !.processed = FALSE, !.midDay = 2]
            \/ tix' = [SwapTicketSlot([tix EXCEPT !.early = early]) EXCEPT !.midDay = 1]
            \/ tix' = [tix EXCEPT !.early = early]
      BY <1>2 DEF RequestMidday
    <3> QED BY <3>1, <1>p, <1>t DEF SwapTicketSlot, TicketType
  <2>5. LegOrder' BY <2>2 DEF DayParts, LegOrder
  <2>6. DayOpen' BY <2>1, <2>2, <2>3 DEF DayParts, DayOpen, NoLegs
  <2>7. Ring' BY <2>1, <2>2, <2>3 DEF DayParts, Ring, RecordedWord
  <2>8. Waiting' BY <2>2, <2>3, <2>4, <1>a DEF Waiting
  <2> QED BY <2>5, <2>6, <2>7, <2>8 DEF DayParts
<1>3. CASE Answers
  <2>1. PICK a \in vrf.outstanding, reserved \in BOOLEAN : RawFulfillRandomWords(a, reserved)
    BY <1>3 DEF Answers
  <2>2. vrf'.asks = vrf.asks /\ UNCHANGED <<daily, tix, ph, legs>>
    BY <2>1, <1>t DEF RawFulfillRandomWords, VrfType
  <2>3. CASE rng' = rng BY <2>2, <2>3, <1>p, QuietDay
  <2>4. CASE rng' # rng
    <3>1. rng' = [rng EXCEPT !.word = a] /\ AcceptsAnswer(a) BY <2>1, <2>4 DEF RawFulfillRandomWords
    <3>2. /\ rng'.locked = rng.locked /\ rng'.active = rng.active /\ rng'.published = rng.published
          /\ rng'.id = rng.id /\ rng'.day = rng.day /\ rng'.complete = rng.complete
          /\ rng'.word = rng.id /\ rng.id # 0
      BY <3>1, <1>t DEF AcceptsAnswer, RngType
    <3>3. rng.word \in {0, rng'.word} BY <3>2, <1>w
    <3>4. LegOrder' BY <2>2 DEF DayParts, LegOrder
    <3>5. DayOpen' BY <2>2, <3>2 DEF DayParts, DayOpen, NoLegs
    <3>6. Ring'
      <4>1. Ring BY DEF DayParts
      <4>2. daily' = daily /\ RecordedWord(daily.idx)' = RecordedWord(daily.idx)
        BY <2>2 DEF RecordedWord
      <4> QED BY <4>1, <4>2, <3>2, <3>3 DEF Ring
    <3>7. Waiting' BY <2>2, <3>2, <1>p DEF DayParts, Waiting
    <3> QED BY <3>4, <3>5, <3>6, <3>7 DEF DayParts
  <2> QED BY <2>3, <2>4
<1>s. ASSUME rng.word = 0, vrf'.asks = Ask, UNCHANGED <<daily, tix, ph, legs>>, rng'.id = Ask,
             rng'.locked = rng.locked, rng'.day = rng.day, rng'.active = rng.active,
             rng'.published = rng.published, rng'.complete = rng.complete, rng'.word = rng.word
      PROVE  DayParts'
  <2>1. LegOrder' BY <1>s DEF DayParts, LegOrder
  <2>2. DayOpen' BY <1>s DEF DayParts, DayOpen, NoLegs
  <2>3. Ring' BY <1>s DEF DayParts, Ring, RecordedWord
  <2>4. Waiting' BY <1>s DEF DayParts, Waiting
  <2> QED BY <2>1, <2>2, <2>3, <2>4 DEF DayParts
<1>4. CASE RetryRng
  <2>1. /\ rng' = [rng EXCEPT !.retrySpent = TRUE, !.id = Ask] /\ vrf' = AskVrf /\ rng.word = 0
        /\ UNCHANGED <<daily, tix, ph, legs>>
    BY <1>4 DEF RetryRng, RngRetryDue
  <2>2. /\ rng'.locked = rng.locked /\ rng'.day = rng.day /\ rng'.active = rng.active /\ rng'.id = Ask
        /\ rng'.published = rng.published /\ rng'.complete = rng.complete /\ rng'.word = rng.word
    BY <2>1, <1>t DEF RngType
  <2> QED BY <2>1, <2>2, <1>a, <1>s
<1>5. CASE UpdateVrfCoordinatorAndSub
  <2>1. CASE ReissueDue
    <3>1. /\ rng' = [rng EXCEPT !.id = Ask, !.retrySpent = @ \/ rng.locked]
          /\ vrf' = [AskVrf EXCEPT !.old = vrf.asks] /\ UNCHANGED <<daily, tix, ph, legs>>
      BY <2>1, <1>5 DEF UpdateVrfCoordinatorAndSub
    <3>2. /\ rng'.locked = rng.locked /\ rng'.day = rng.day /\ rng'.active = rng.active /\ rng'.id = Ask
          /\ rng'.published = rng.published /\ rng'.complete = rng.complete /\ rng'.word = rng.word
      BY <3>1, <1>t DEF RngType
    <3>3. vrf'.asks = Ask BY <3>1, <1>a, <1>t DEF AskVrf, VrfType
    <3> QED BY <2>1, <3>1, <3>2, <3>3, <1>s DEF ReissueDue
  <2>2. CASE ~ReissueDue
    <3>1. rng' = rng /\ vrf' = [vrf EXCEPT !.old = vrf.asks] /\ UNCHANGED <<daily, tix, ph, legs>>
      BY <2>2, <1>5 DEF UpdateVrfCoordinatorAndSub
    <3>2. vrf'.asks = vrf.asks BY <3>1, <1>t DEF VrfType
    <3> QED BY <3>1, <3>2, <1>p, QuietDay
  <2> QED BY <2>1, <2>2
<1> QED BY <1>1, <1>2, <1>3, <1>4, <1>5 DEF Recovery

LEMMA DayInit == Init => DayInv
<1> SUFFICES ASSUME Init PROVE DayParts BY DEF DayInv
<1>1. LegOrder BY DEF Init, LegOrder, NoLegs
<1>2. DayOpen BY DEF Init, DayOpen
<1>3. Ring BY DEF Init, Ring, FirstWord
<1>4. Waiting BY DEF Init, Waiting
<1> QED BY <1>1, <1>2, <1>3, <1>4 DEF DayParts

(* A step into a live state is a step of a live game, and no work of an ending. *)
LEMMA DayNext == Inv /\ EndInv /\ DayInv /\ [Next]_vars => DayInv'
<1> SUFFICES ASSUME Inv, EndInv, DayInv, [Next]_vars, Live' PROVE DayParts' BY DEF DayInv
<1>1. CASE UNCHANGED vars
  <2>1. Live BY <1>1 DEF vars, Live, EndingReason, HardStalled, VrfDeadmanFired, VrfDead, PurchaseExpired
  <2> QED BY <2>1, <1>1 DEF vars, DayInv, DayParts, LegOrder, DayOpen, Ring, RecordedWord, Waiting, NoLegs
<1>2. CASE Next
  <2>1. Live BY <1>2, EndingKeptStep DEF EndingKept, Live
  <2>2. DayParts BY <2>1 DEF DayInv
  <2>3. ASSUME TerminalWork \/ \E accepted \in BOOLEAN : RequestTerminalRng(accepted) PROVE FALSE
    <3>1. NextMinerAction = "Terminal"
      BY <2>3 DEF Terminal, TerminalWork, TerminalEnter, TerminalLoans, NormalEnding, DeadEnding,
         DeadLatch, DeadPay, DropPreFreeze, TerminalDrainCommitted, AwaitsTerminalRequest, ApplyTerminalRng,
         TerminalDrainBatch, TerminalPay, ResumeTerminalPayout, FinalSweep, RequestTerminalRng
    <3> QED BY <2>1, <3>1, Scheduled DEF Live, EndingReason
  <2> QED BY <1>2, <2>1, <2>2, <2>3, LiveWorkDay, EntriesDay, RequestsDay DEF Next, MinerStep, Requests
<1> QED BY <1>1, <1>2

(* The day's invariant holds in every reachable state. *)
LEMMA DayInvariance == Spec => [](Inv /\ EndInv /\ DayInv)
<1>1. Init => Inv /\ EndInv /\ DayInv BY InitInv, EndInit, DayInit
<1>2. Inv /\ EndInv /\ DayInv /\ [Next]_vars => (Inv /\ EndInv /\ DayInv)' BY NextInv, EndNext, DayNext
<1> QED BY <1>1, <1>2, PTL DEF Spec

-----------------------------------------------------------------------------

(* A day is one undertaking, whatever players, miners, the coordinator and its recoveries interleave:
   lock and freeze are one, no part of a jackpot and no transition is left outside the lock, a day is
   never sealed under it, and the ring remembers the word the day was drawn on (_unlockRng,
   _certifyRngComplete, _applyDailyRng); and no nudge bought meanwhile shifts that word (reverseFlip). *)
THEOREM DayIsOneUndertaking == Spec => DayUndisturbed
<1>1. DayInv => DayIsWhole BY DEF DayInv, DayParts, DayOpen, DayIsWhole
<1>2. DayInv => RecordedIsDrawn BY DEF DayInv, DayParts, Ring, RecordedIsDrawn
<1> QED BY <1>1, <1>2, DayInvariance, NudgesComeFirst, PTL DEF DayUndisturbed

(* A live game waits for the coordinator only: its scheduler never answers Wait unless the last request
   sent is the session's and unanswered (_nextMinerAction, _rngConsumerStage). *)
THEOREM NothingElseWaits == Spec => []WaitsOnlyForVrf
<1>1. Inv /\ EndInv /\ DayInv => WaitsOnlyForVrf
  <2> SUFFICES ASSUME Inv, EndInv, DayInv, Live, NextMinerAction = "Wait"
               PROVE  rng.active /\ rng.id = vrf.asks /\ rng.word = 0
    BY DEF WaitsOnlyForVrf
  <2>1. ~rng.terminal /\ ~go.over BY LiveSession, LiveUnlatched
  <2>2. Waiting BY DEF DayInv, DayParts
  <2>3. CASE rng.active /\ rng.word = 0 BY <2>2, <2>3 DEF Waiting
  <2>4. CASE ~(rng.active /\ rng.word = 0)
    <3>1. ~rng.complete /\ (rng.active => rng.published) BY <2>1, <2>4 DEF NextMinerAction, MiddayEligible
    <3>2. rng.published /\ rng.word # 0 BY <2>2, <2>4, <3>1 DEF Waiting
    <3>3. tix.processed /\ ~rng.locked /\ ConsumerStage = "blocked"
      BY <2>1, <2>4, <3>1, <3>2 DEF NextMinerAction, ConsumerStage
    <3>4. tix.midDay = 0 /\ ~rng.active BY <2>2, <3>2, <3>3 DEF Waiting
    <3> QED BY <2>1, <3>1, <3>2, <3>3, <3>4 DEF ConsumerStage, ReadPrepared
  <2> QED BY <2>3, <2>4
<1> QED BY <1>1, DayInvariance, PTL

-----------------------------------------------------------------------------
(* The tickets.  What a word generates was all bought before the word was     *)
(* asked for: the read side because a request sealed it, a far pool because   *)
(* it lies below the ceiling, above which alone pools still take entries.     *)

ReadSealed ==
  \/ go.dead \/ go.swap
  \/ \A l \in Levels : tix.queue[ReadSlot][l] <= IF rng.id # 0 THEN rng.id ELSE rng.word

FarSealed ==
  Live => /\ rng.word # 0 => rng.id # 0
          /\ rng.id # 0 /\ ~tix.processed => \A l \in Levels : l <= MintCeiling => tix.far[l] <= rng.id

TicketSeal == ReadSealed /\ FarSealed

(* A request, or the same one sent again, is later than every entry there is. *)
LEMMA AskedSeal ==
  ASSUME Inv, EndInv, rng'.id = Ask, tix'.write \in Buffers,
         \A l \in Levels : /\ tix'.far[l] = tix.far[l]
                           /\ \A b \in Buffers : tix'.queue[b][l] \in {tix.queue[b][l], Stamp}
  PROVE  TicketSeal'
<1>t. tix \in TicketType /\ Ask \in Nat /\ Ask # 0 /\ Ask = Stamp
  BY StateTypes DEF Ask, Stamp, VrfType
<1>0. TicketsUpTo(Stamp) BY DEF EndInv, TicketStamps
<1>1. \A l \in Levels : tix'.far[l] <= Ask /\ \A b \in Buffers : tix'.queue[b][l] <= Ask
  BY <1>0, <1>t DEF TicketsUpTo
<1>2. ReadSlot' \in Buffers BY DEF ReadSlot, Buffers
<1>3. rng'.id # 0 BY <1>t
<1>4. ReadSealed'
  <2>1. \A l \in Levels : (tix.queue[ReadSlot][l])' <= Ask BY <1>1, <1>2
  <2> QED BY <2>1, <1>3 DEF ReadSealed
<1>5. FarSealed' BY <1>1, <1>3 DEF FarSealed
<1> QED BY <1>4, <1>5 DEF TicketSeal

(* A step that leaves the request alone, and the read side and the pools to the word. *)
LEMMA KeptSeal ==
  ASSUME TicketSeal, Live' => Live, UNCHANGED go, rng'.id = rng.id, rng'.word = rng.word,
         tix'.write = tix.write,
         \A l \in Levels : tix'.queue[ReadSlot][l] \in {tix.queue[ReadSlot][l], 0},
         rng.id \in Nat, rng.word \in Nat,
         \/ tix'.processed
         \/ /\ ~tix.processed /\ MintCeiling' = MintCeiling
            /\ \A l \in Levels : l <= MintCeiling => tix'.far[l] \in {tix.far[l], 0}
  PROVE  TicketSeal'
<1>1. ReadSlot' = ReadSlot BY DEF ReadSlot
<1>2. ReadSealed'
  <2>1. CASE go.dead \/ go.swap BY <2>1 DEF ReadSealed
  <2>2. CASE ~(go.dead \/ go.swap)
    <3>1. \A l \in Levels : tix.queue[ReadSlot][l] <= IF rng.id # 0 THEN rng.id ELSE rng.word
      BY <2>2 DEF TicketSeal, ReadSealed
    <3>2. \A l \in Levels : tix'.queue[ReadSlot][l] <= IF rng'.id # 0 THEN rng'.id ELSE rng'.word
      BY <3>1
    <3> QED BY <1>1, <3>2 DEF ReadSealed
  <2> QED BY <2>1, <2>2
<1>3. FarSealed'
  <2>1. CASE tix'.processed BY <2>1 DEF TicketSeal, FarSealed
  <2>2. CASE ~tix'.processed BY <2>2 DEF TicketSeal, FarSealed
  <2> QED BY <2>1, <2>2
<1> QED BY <1>2, <1>3 DEF TicketSeal

(* What the ceiling is read from. *)
LEMMA SameCeiling ==
  ASSUME ph'.level = ph.level, ph'.last = ph.last, rng'.locked = rng.locked, tix'.early = tix.early
  PROVE  MintCeiling' = MintCeiling
  BY DEF MintCeiling

(* The parts of a day and the read consumers run only when the tickets are done, and leave them so. *)
LEMMA GeneratedFirst ==
  /\ DailyWork \/ ReadConsumers => tix.processed
  /\ Inv /\ (DailyWork \/ ReadConsumers) =>
       /\ tix'.processed /\ tix'.write = tix.write /\ UNCHANGED go
       /\ rng'.id = rng.id /\ rng'.word = rng.word
       /\ \A l \in Levels : tix'.queue[ReadSlot][l] = tix.queue[ReadSlot][l]
<1>1. NextMinerAction \in {"DailyPhase"} \cup Consumers => tix.processed
  BY ConsumerSelected DEF NextMinerAction, ConsumerStage, ReadPrepared, Consumers
<1>2. DailyWork => NextMinerAction = "DailyPhase"
  BY DEF DailyWork, DailyStage, JackpotBattle, DegenesisDay, PurchaseDaily, EthDraw, PurchaseTickets,
     Consolidate, BafAwards, JackpotDaily, EarlyBird, JackpotTickets, PhaseTransition
<1>3. ReadConsumers => NextMinerAction \in Consumers
  BY DEF ReadConsumers, RedemptionWork, AfkingWork, HumanBoxWork, DegeneretteWork, DecimatorWork,
     CrapsReadWork, Settles, Consumers
<1>4. ASSUME Inv, DailyWork \/ ReadConsumers
      PROVE  /\ tix'.processed /\ tix'.write = tix.write /\ UNCHANGED go
             /\ rng'.id = rng.id /\ rng'.word = rng.word
             /\ \A l \in Levels : tix'.queue[ReadSlot][l] = tix.queue[ReadSlot][l]
  <2>t. tix \in TicketType /\ rng \in RngType BY <1>4, StateTypes
  <2>1. tix' = tix \/ \E l : tix' \in Awards(tix, l)
    BY <1>4 DEF DailyWork, JackpotBattle, DegenesisDay, PurchaseDaily, EthDraw, PurchaseTickets,
       Consolidate, BafAwards, JackpotDaily, EarlyBird, JackpotTickets, PhaseTransition,
       ReadConsumers, RedemptionWork, AfkingWork, HumanBoxWork, DegeneretteWork, DecimatorWork, CrapsReadWork
  <2>2. tix'.processed = tix.processed
    <3>1. \A l : \A t \in Awards(tix, l) : t.processed = tix.processed BY <2>t DEF Awards, TicketType
    <3> QED BY <2>1, <3>1
  <2>3. /\ tix'.write = tix.write
        /\ \A l \in Levels : tix'.queue[ReadSlot][l] = tix.queue[ReadSlot][l]
    BY <1>4, <2>1, AwardKeeps
  <2>4. rng'.id = rng.id /\ rng'.word = rng.word
    <3>u. \A p : UnlockRng(p) => rng'.id = rng.id /\ rng'.word = rng.word BY <1>4, UnlockKeeps
    <3>c. \A w : TryCompleteRng(rng, w) => rng'.id = rng.id /\ rng'.word = rng.word
      BY <1>4, CertifyKeeps
    <3>1. SealPurchaseDay(ph) => rng'.id = rng.id /\ rng'.word = rng.word BY <3>u DEF SealPurchaseDay
    <3>2. Consolidate => rng'.id = rng.id /\ rng'.word = rng.word BY <2>t DEF Consolidate, RngType
    <3>3. DailyWork => rng'.id = rng.id /\ rng'.word = rng.word
      BY <3>u, <3>1, <3>2 DEF DailyWork, JackpotBattle, DegenesisDay, PurchaseDaily, EthDraw, PurchaseTickets,
         BafAwards, JackpotDaily, EarlyBird, JackpotTickets, PhaseTransition
    <3>4. ReadConsumers => rng'.id = rng.id /\ rng'.word = rng.word
      BY <3>c DEF ReadConsumers, RedemptionWork, AfkingWork, HumanBoxWork, DegeneretteWork,
         DecimatorWork, CrapsReadWork
    <3> QED BY <1>4, <3>3, <3>4
  <2>5. UNCHANGED go
    BY <1>4 DEF DailyWork, JackpotBattle, DegenesisDay, PurchaseDaily, EthDraw, PurchaseTickets,
       Consolidate, BafAwards, JackpotDaily, EarlyBird, JackpotTickets, PhaseTransition,
       ReadConsumers, RedemptionWork, AfkingWork, HumanBoxWork, DegeneretteWork, DecimatorWork, CrapsReadWork
  <2>6. tix.processed BY <1>1, <1>2, <1>3, <1>4
  <2> QED BY <2>2, <2>3, <2>4, <2>5, <2>6
<1>5. DailyWork \/ ReadConsumers => tix.processed BY <1>1, <1>2, <1>3
<1> QED BY <1>4, <1>5

(* Publication and the work of a live game. *)
LEMMA LiveWorkSeal == Inv /\ EndInv /\ TicketSeal /\ (Live' => Live) /\ (PublishRng \/ LiveWork) => TicketSeal'
<1> SUFFICES ASSUME Inv, EndInv, TicketSeal, Live' => Live, PublishRng \/ LiveWork PROVE TicketSeal' OBVIOUS
<1>t. /\ rng \in RngType /\ ph \in PhaseType /\ tix \in TicketType /\ rng.id \in Nat /\ rng.word \in Nat
      /\ ReadSlot \in Buffers /\ ReadSlot # tix.write
  BY StateTypes DEF RngType
<1>1. CASE PublishRng
  <2>1. rng' = [rng EXCEPT !.published = TRUE, !.active = rng.locked] /\ UNCHANGED <<tix, ph, go>>
    BY <1>1 DEF PublishRng
  <2>2. rng'.id = rng.id /\ rng'.word = rng.word /\ rng'.locked = rng.locked BY <2>1, <1>t DEF RngType
  <2> QED BY <2>1, <2>2, <1>t, SameCeiling, KeptSeal
<1>2. CASE TicketsRead
  <2>1. PICK k \in ReadQueues : tix' = [tix EXCEPT !.queue[ReadSlot][k] = 0] BY <1>2 DEF TicketsRead
  <2>2. /\ tix'.write = tix.write /\ tix'.far = tix.far /\ tix'.processed = tix.processed
        /\ tix'.early = tix.early
        /\ \A l \in Levels : tix'.queue[ReadSlot][l] \in {tix.queue[ReadSlot][l], 0}
    BY <2>1, <1>t DEF TicketType, TicketQueue
  <2> QED BY <2>2, <1>2, <1>t, SameCeiling, KeptSeal DEF TicketsRead
<1>3. CASE TicketsFar
  <2>1. PICK k \in FarQueue : tix' = [tix EXCEPT !.far[k] = 0] BY <1>3 DEF TicketsFar
  <2>2. /\ tix'.write = tix.write /\ tix'.queue = tix.queue /\ tix'.processed = tix.processed
        /\ tix'.early = tix.early
        /\ \A l \in Levels : tix'.far[l] \in {tix.far[l], 0}
    BY <2>1, <1>t DEF TicketType, FarQueues
  <2> QED BY <2>2, <1>3, <1>t, SameCeiling, KeptSeal DEF TicketsFar
<1>4. CASE TicketsDone
  <2>1. /\ tix'.write = tix.write /\ tix'.queue = tix.queue /\ tix'.far = tix.far /\ tix'.early = tix.early
        /\ tix'.processed \/ tix'.processed = tix.processed
    BY <1>4, <1>t DEF TicketsDone, TicketType
  <2> QED BY <2>1, <1>4, <1>t, SameCeiling, KeptSeal DEF TicketsDone
<1>5. CASE ApplyDailyWord
  <2>1. rng' = [rng EXCEPT !.nudges = 0] BY <1>5 DEF ApplyDailyWord, ApplyDailyRng
  <2>2. rng'.id = rng.id /\ rng'.word = rng.word /\ rng'.locked = rng.locked BY <2>1, <1>t DEF RngType
  <2> QED BY <2>2, <1>5, <1>t, SameCeiling, KeptSeal DEF ApplyDailyWord
<1>6. CASE DailyWork \/ ReadConsumers BY <1>6, <1>t, GeneratedFirst, KeptSeal
<1>8. CASE PrepareSubscriptions
  <2>1. \/ tix' = tix
        \/ \E k : tix' = [tix EXCEPT !.queue[tix.write][k] = Stamp]
    BY <1>8 DEF PrepareSubscriptions
  <2>2. /\ tix'.write = tix.write /\ tix'.far = tix.far /\ tix'.early = tix.early
        /\ tix'.processed = tix.processed /\ tix'.queue[ReadSlot] = tix.queue[ReadSlot]
    BY <2>1, <1>t DEF TicketType, TicketQueue
  <2> QED BY <2>2, <1>8, <1>t, SameCeiling, KeptSeal DEF PrepareSubscriptions
<1>9. CASE SeizeLoans
  <2>1. ph'.level = ph.level /\ ph'.last = ph.last BY <1>9, <1>t DEF SeizeLoans, PhaseType
  <2> QED BY <2>1, <1>9, <1>t, SameCeiling, KeptSeal DEF SeizeLoans
<1>10. CASE GrowthSettle
  <2>1. ph'.level = ph.level /\ ph'.last = ph.last BY <1>10, <1>t DEF GrowthSettle, PhaseType
  <2> QED BY <2>1, <1>10, <1>t, SameCeiling, KeptSeal DEF GrowthSettle
<1> QED BY <1>1, <1>2, <1>3, <1>4, <1>5, <1>6, <1>8, <1>9, <1>10 DEF LiveWork

(* Player entries and time. *)
LEMMA EntriesSeal == Inv /\ TicketSeal /\ (Live' => Live) /\ (PlayerEntry \/ Tick) => TicketSeal'
<1> SUFFICES ASSUME Inv, TicketSeal, Live' => Live, PlayerEntry \/ Tick PROVE TicketSeal' OBVIOUS
<1>t. /\ rng \in RngType /\ ph \in PhaseType /\ tix \in TicketType /\ rng.id \in Nat /\ rng.word \in Nat
      /\ ReadSlot \in Buffers /\ ReadSlot # tix.write
  BY StateTypes DEF RngType
<1>p. Contributes => ph'.level = ph.level /\ ph'.last = ph.last
  BY <1>t DEF Contributes, AddPrizeContribution, PhaseType
<1>1. CASE BuyBox BY <1>1, <1>p, <1>t, SameCeiling, KeptSeal DEF BuyBox
<1>2. CASE PlaceBet \/ CrapsWindow \/ RequestRedemption
  BY <1>2, <1>t, SameCeiling, KeptSeal DEF PlaceBet, CrapsWindow, RequestRedemption
<1>3. CASE BuyTicket
  <2>1. /\ tix'.write = tix.write /\ tix'.far = tix.far /\ tix'.early = tix.early
        /\ tix'.processed = tix.processed /\ tix'.queue[ReadSlot] = tix.queue[ReadSlot]
    BY <1>3, <1>t DEF BuyTicket, TicketType, TicketQueue
  <2> QED BY <2>1, <1>3, <1>p, <1>t, SameCeiling, KeptSeal DEF BuyTicket
<1>4. CASE Nudge
  <2>1. rng'.id = rng.id /\ rng'.word = rng.word /\ rng'.locked = rng.locked
    BY <1>4, <1>t DEF Nudge, RngType
  <2> QED BY <2>1, <1>4, <1>t, SameCeiling, KeptSeal DEF Nudge
<1>5. ASSUME NEW l \in Levels, BuyFar(l) PROVE TicketSeal'
  <2>1. tix' = [tix EXCEPT !.far[l] = Stamp] /\ l > MintCeiling BY <1>5 DEF BuyFar, AdmitsFar
  <2>2. /\ tix'.write = tix.write /\ tix'.queue = tix.queue /\ tix'.early = tix.early
        /\ tix'.processed = tix.processed
        /\ \A k \in Levels : k # l => tix'.far[k] = tix.far[k]
    BY <2>1, <1>t DEF TicketType, FarQueues
  <2>3. l \in Int /\ MintCeiling \in Int
    BY <1>t, BoundAssumption, GameAssumption DEF Levels, MintCeiling, PhaseType, TicketType
  <2>4. \A k \in Levels : k <= MintCeiling => k # l BY <2>1, <2>3
  <2> QED BY <2>2, <2>4, <1>5, <1>t, SameCeiling, KeptSeal DEF BuyFar
<1>6. CASE Tick BY <1>6, <1>t, SameCeiling, KeptSeal DEF Tick
<1> QED BY <1>1, <1>2, <1>3, <1>4, <1>5, <1>6 DEF PlayerEntry

(* Requests, answers and recoveries. *)
LEMMA RequestsSeal ==
  Inv /\ EndInv /\ TicketSeal /\ (Live' => Live) /\ (RequestDaily \/ RequestMidday \/ Answers \/ Recovery)
    => TicketSeal'
<1> SUFFICES ASSUME Inv, EndInv, TicketSeal, Live' => Live,
                    RequestDaily \/ RequestMidday \/ Answers \/ Recovery
             PROVE  TicketSeal'
  OBVIOUS
<1>t. /\ rng \in RngType /\ tix \in TicketType /\ tix.write \in Buffers /\ vrf \in VrfType
      /\ rng.id \in Nat /\ rng.word \in Nat
  BY StateTypes DEF RngType
<1>1. CASE RequestDaily
  <2>1. rng' = [FreshRequest(rng, daily.idx + 1) EXCEPT !.locked = TRUE] BY <1>1 DEF RequestDaily
  <2>2. rng'.id = Ask BY <2>1, <1>t DEF FreshRequest, RngType
  <2>3. PICK early \in {ph.level + 2, tix.early}, gnrus \in BOOLEAN :
          tix' = SwapTicketSlot(GnrusBuys([tix EXCEPT !.early = early], gnrus))
    BY <1>1 DEF RequestDaily
  <2>4. \A l \in Levels : /\ tix'.far[l] = tix.far[l]
                          /\ \A b \in Buffers : tix'.queue[b][l] \in {tix.queue[b][l], Stamp}
    BY <2>3, <1>t DEF SwapTicketSlot, GnrusBuys, TicketType, TicketQueue
  <2>5. tix'.write \in Buffers BY <2>3, <1>t DEF SwapTicketSlot, GnrusBuys, TicketType, Buffers
  <2> QED BY <2>2, <2>4, <2>5, AskedSeal
<1>2. CASE RequestMidday
  <2>1. rng' = FreshRequest(rng, 0) BY <1>2 DEF RequestMidday
  <2>2. rng'.id = Ask BY <2>1, <1>t DEF FreshRequest, RngType
  <2>3. tix'.far = tix.far /\ tix'.queue = tix.queue /\ tix'.write \in Buffers
    BY <1>2, <1>t DEF RequestMidday, SwapTicketSlot, TicketType, Buffers
  <2> QED BY <2>2, <2>3, AskedSeal
<1>3. CASE Answers
  <2>1. PICK a \in vrf.outstanding, reserved \in BOOLEAN : RawFulfillRandomWords(a, reserved)
    BY <1>3 DEF Answers
  <2>2. UNCHANGED <<tix, ph, go>> BY <2>1 DEF RawFulfillRandomWords
  <2>3. rng' = IF AcceptsAnswer(a) /\ ~reserved THEN [rng EXCEPT !.word = a] ELSE rng
    BY <2>1 DEF RawFulfillRandomWords
  <2>4. /\ rng'.id = rng.id /\ rng'.locked = rng.locked /\ (rng'.word = rng.word \/ rng.id # 0)
    BY <2>3, <1>t DEF AcceptsAnswer, RngType
  <2>5. MintCeiling' = MintCeiling BY <2>2, <2>4, SameCeiling
  <2>6. ReadSealed' BY <2>2, <2>4 DEF TicketSeal, ReadSealed, ReadSlot
  <2>7. FarSealed' BY <2>2, <2>4, <2>5 DEF TicketSeal, FarSealed
  <2> QED BY <2>6, <2>7 DEF TicketSeal
<1>4. CASE RetryRng
  <2>1. rng'.id = Ask /\ tix' = tix BY <1>4, <1>t DEF RetryRng, RngType
  <2> QED BY <2>1, <1>t, AskedSeal
<1>5. CASE UpdateVrfCoordinatorAndSub
  <2>1. UNCHANGED <<tix, ph, go>> BY <1>5 DEF UpdateVrfCoordinatorAndSub
  <2>2. CASE ReissueDue
    <3>1. rng'.id = Ask BY <2>2, <1>5, <1>t DEF UpdateVrfCoordinatorAndSub, RngType
    <3> QED BY <2>1, <3>1, <1>t, AskedSeal
  <2>3. CASE ~ReissueDue
    <3>1. rng' = rng BY <2>3, <1>5 DEF UpdateVrfCoordinatorAndSub
    <3> QED BY <2>1, <3>1, <1>t, SameCeiling, KeptSeal
  <2> QED BY <2>2, <2>3
<1> QED BY <1>1, <1>2, <1>3, <1>4, <1>5 DEF Recovery

(* The endings' work. *)
LEMMA TerminalSeal ==
  Inv /\ EndInv /\ TicketSeal /\ (Live' => Live)
    /\ (TerminalWork \/ \E accepted \in BOOLEAN : RequestTerminalRng(accepted)) => TicketSeal'
<1> SUFFICES ASSUME Inv, EndInv, TicketSeal, Live' => Live,
                    TerminalWork \/ \E accepted \in BOOLEAN : RequestTerminalRng(accepted)
             PROVE  TicketSeal'
  OBVIOUS
<1>t. /\ rng \in RngType /\ go \in EndType /\ tix \in TicketType /\ rng.id \in Nat /\ rng.word \in Nat
      /\ ReadSlot \in Buffers /\ ReadSlot # tix.write
  BY StateTypes DEF RngType
<1>0. go.over => go.swap \/ go.dead BY DEF EndInv, EndingOrder
<1>l. FarSealed'
  <2>1. NextMinerAction = "Terminal"
    BY DEF Terminal, TerminalWork, TerminalEnter, TerminalLoans, NormalEnding, DeadEnding,
       DeadLatch, DeadPay, DropPreFreeze, TerminalDrainCommitted, AwaitsTerminalRequest, ApplyTerminalRng,
       TerminalDrainBatch, TerminalPay, ResumeTerminalPayout, FinalSweep, RequestTerminalRng
  <2>2. ~Live BY <2>1, Scheduled DEF Live, EndingReason
  <2> QED BY <2>2 DEF FarSealed
<1>w. rng.word # 0 => rng.word = rng.id \/ rng.id = 0 BY DEF Inv, SettlementInv, WordIsRequested
<1>1. CASE TerminalEnter \/ TerminalLoans
  <2>1. rng'.id = rng.id /\ rng'.word = rng.word /\ go'.swap = go.swap /\ go'.dead = go.dead /\ tix' = tix
    BY <1>1, <1>t DEF TerminalEnter, TerminalLoans, EnterTerminal, RngType, EndType
  <2> QED BY <2>1, <1>l DEF TicketSeal, ReadSealed, ReadSlot
<1>2. CASE DeadLatch
  <2>1. go'.dead BY <1>2, <1>t DEF DeadLatch, EndType
  <2> QED BY <2>1, <1>l DEF TicketSeal, ReadSealed
<1>3. CASE DeadPay
  <2>1. go'.dead BY <1>3, <1>t DEF DeadPay, FinishTerminalPayout, EndType
  <2> QED BY <2>1, <1>l DEF TicketSeal, ReadSealed
<1>4. CASE DropPreFreeze
  <2>1. rng'.id = 0 /\ rng'.word = rng.word /\ rng.word # 0 /\ UNCHANGED <<tix, go>>
    BY <1>4, <1>t DEF DropPreFreeze, RngType
  <2> QED BY <2>1, <1>w, <1>l DEF TicketSeal, ReadSealed, ReadSlot
<1>5. CASE TerminalDrainCommitted \/ TerminalDrainBatch
  <2>1. tix' = [tix EXCEPT !.queue[ReadSlot][DrainLevel] = 0] /\ UNCHANGED <<rng, go>>
    BY <1>5 DEF TerminalDrainCommitted, TerminalDrainBatch
  <2>2. /\ tix'.write = tix.write
        /\ \A l \in Levels : tix'.queue[ReadSlot][l] \in {tix.queue[ReadSlot][l], 0}
    BY <2>1, <1>t DEF TicketType, TicketQueue
  <2>3. ReadSlot' = ReadSlot BY <2>2 DEF ReadSlot
  <2> QED BY <2>1, <2>2, <2>3, <1>t, <1>l DEF TicketSeal, ReadSealed
<1>6. CASE ApplyTerminalRng
  <2>1. go'.swap BY <1>6 DEF ApplyTerminalRng
  <2> QED BY <2>1, <1>l DEF TicketSeal, ReadSealed
<1>7. CASE TerminalPay \/ ResumeTerminalPayout
  <2>1. go'.swap \/ go'.dead
    BY <1>7, <1>0, <1>t DEF TerminalPay, ResumeTerminalPayout, TerminalWordApplied, PayTerminal, EndType
  <2> QED BY <2>1, <1>l DEF TicketSeal, ReadSealed
<1>8. CASE FinalSweep
  <2>1. go'.swap = go.swap /\ go'.dead = go.dead /\ UNCHANGED <<rng, tix>>
    BY <1>8, <1>t DEF FinalSweep, EndType
  <2> QED BY <2>1, <1>l DEF TicketSeal, ReadSealed, ReadSlot
<1>9. ASSUME NEW accepted \in BOOLEAN, RequestTerminalRng(accepted) PROVE TicketSeal'
  <2>1. go'.swap BY <1>9, <1>t DEF RequestTerminalRng, EndType
  <2> QED BY <2>1, <1>l DEF TicketSeal, ReadSealed
<1> QED BY <1>1, <1>2, <1>3, <1>4, <1>5, <1>6, <1>7, <1>8, <1>9 DEF TerminalWork

LEMMA SealInit == Init => TicketSeal
<1> SUFFICES ASSUME Init PROVE TicketSeal OBVIOUS
<1>1. FirstWord \in Nat BY DEF FirstWord
<1>2. ReadSealed BY <1>1 DEF Init, ReadSealed, ReadSlot, Buffers
<1>3. FarSealed BY <1>1 DEF Init, FarSealed, FirstWord
<1> QED BY <1>2, <1>3 DEF TicketSeal

LEMMA SealNext == Inv /\ EndInv /\ TicketSeal /\ [Next]_vars => TicketSeal'
<1> SUFFICES ASSUME Inv, EndInv, TicketSeal, [Next]_vars PROVE TicketSeal' OBVIOUS
<1>1. CASE UNCHANGED vars
  BY <1>1 DEF vars, TicketSeal, ReadSealed, FarSealed, ReadSlot, MintCeiling, Live, EndingReason, HardStalled,
     VrfDeadmanFired, VrfDead, PurchaseExpired
<1>2. CASE Next
  <2>1. Live' => Live BY <1>2, EndingKeptStep DEF EndingKept, Live
  <2> QED BY <1>2, <2>1, LiveWorkSeal, EntriesSeal, RequestsSeal, TerminalSeal DEF Next, MinerStep, Requests
<1> QED BY <1>1, <1>2

(* Each queue holds what it held, or later entries. *)
LEMMA UngeneratedBlind ==
  ASSUME Inv,
         \A l \in Levels :
           /\ tix'.far[l] \in {tix.far[l], Stamp}
           /\ \A b \in Buffers : tix'.queue[b][l] \in {tix.queue[b][l], Stamp}
  PROVE  GeneratesBlind
<1>1. Stamp # 0 /\ Stamp \in Nat /\ rng.word \in Nat BY StateTypes DEF Stamp, VrfType, RngType
<1> QED BY <1>1 DEF GeneratesBlind

(* Three steps generate tickets, each on a published word. *)
LEMMA TicketStep == Inv /\ EndInv /\ TicketSeal /\ Next => GeneratesBlind
<1> SUFFICES ASSUME Inv, EndInv, TicketSeal, Next PROVE GeneratesBlind OBVIOUS
<1>t. /\ rng \in RngType /\ tix \in TicketType /\ rng.id \in Nat /\ rng.word \in Nat
      /\ ReadSlot \in Buffers /\ tix.write \in Buffers /\ ReadSlot # tix.write /\ Stamp \in Nat
  BY StateTypes DEF RngType
<1>n. \A l \in Levels : tix.far[l] \in Nat /\ \A b \in Buffers : tix.queue[b][l] \in Nat
  BY <1>t DEF TicketType, TicketQueue, FarQueues
<1>w. rng.word # 0 => rng.word = rng.id \/ rng.id = 0 BY DEF Inv, SettlementInv, WordIsRequested
<1>q. ASSUME NEW k, tix' = [tix EXCEPT !.queue[ReadSlot][k] = 0],
             k \in Levels => tix.queue[ReadSlot][k] <= rng.word
      PROVE  GeneratesBlind
  <2>1. /\ tix'.far = tix.far
        /\ \A b \in Buffers : \A l \in Levels :
             tix'.queue[b][l] = IF b = ReadSlot /\ l = k THEN 0 ELSE tix.queue[b][l]
    BY <1>q, <1>t DEF TicketType, TicketQueue
  <2> QED BY <2>1, <1>q, <1>n, <1>t DEF GeneratesBlind
<1>1. CASE TicketsRead
  <2>1. PICK k \in ReadQueues : tix' = [tix EXCEPT !.queue[ReadSlot][k] = 0] BY <1>1 DEF TicketsRead
  <2>2. rng.word # 0 /\ Live BY <1>1 DEF TicketsRead, NextMinerAction, ConsumerStage
  <2>3. ~go.dead /\ ~go.swap BY <2>2, LiveUnlatched
  <2>4. k \in Levels => tix.queue[ReadSlot][k] <= rng.word
    BY <2>2, <2>3, <1>w DEF TicketSeal, ReadSealed
  <2> QED BY <2>1, <2>4, <1>q
<1>2. CASE TicketsFar
  <2>1. PICK k \in FarQueue : tix' = [tix EXCEPT !.far[k] = 0] BY <1>2 DEF TicketsFar
  <2>2. rng.word # 0 /\ Live /\ ~tix.processed BY <1>2 DEF TicketsFar, NextMinerAction, ConsumerStage
  <2>3. rng.id # 0 /\ rng.word = rng.id BY <2>2, <1>w DEF TicketSeal, FarSealed
  <2>4. k <= MintCeiling
    <3>1. tix.early \in Nat /\ MintCeiling \in Nat
      BY <1>t, StateTypes DEF MintCeiling, TicketType, PhaseType
    <3>2. tix.early <= MintCeiling
      BY <1>t, StateTypes DEF MintCeiling, TicketType, PhaseType
    <3>3. k = tix.early \/ k = MintCeiling BY <2>1 DEF FarQueue
    <3> QED BY <3>1, <3>2, <3>3
  <2>5. k \in Levels => tix.far[k] <= rng.word BY <2>2, <2>3, <2>4 DEF TicketSeal, FarSealed
  <2>6. /\ tix'.queue = tix.queue
        /\ \A l \in Levels : tix'.far[l] = IF l = k THEN 0 ELSE tix.far[l]
    BY <2>1, <1>t DEF TicketType, FarQueues
  <2> QED BY <2>5, <2>6, <1>n, <1>t DEF GeneratesBlind
<1>3. CASE TerminalDrainCommitted
  <2>1. /\ NormalEnding /\ go.lvl # 0 /\ ~go.swap /\ rng.word # 0
        /\ tix' = [tix EXCEPT !.queue[ReadSlot][DrainLevel] = 0]
    BY <1>3 DEF TerminalDrainCommitted, AwaitsTerminalRequest, CommittedCohort, LootboxWord
  <2>2. ~go.dead BY <2>1, NormalIsAlive
  <2>3. \A l \in Levels : tix.queue[ReadSlot][l] <= rng.word
    BY <2>1, <2>2, <1>w DEF TicketSeal, ReadSealed
  <2> QED BY <2>1, <2>3, <1>q
<1>4. CASE TerminalDrainBatch
  <2>1. /\ rng.active /\ rng.published /\ go.swap
        /\ tix' = [tix EXCEPT !.queue[ReadSlot][DrainLevel] = 0]
    BY <1>4 DEF TerminalDrainBatch, TerminalWordApplied
  <2>2. rng.word # 0 /\ rng.word = rng.id BY <2>1, <1>w DEF EndInv, SessionFlags
  <2>3. \A l \in Levels : tix.queue[ReadSlot][l] <= rng.word
    BY <2>1, <2>2, <1>t DEF EndInv, TerminalSealed, TicketsUpTo
  <2> QED BY <2>1, <2>3, <1>q
<1>5. CASE DailyWork \/ ReadConsumers
  <2>1. tix' = tix \/ \E l : tix' \in Awards(tix, l)
    BY <1>5 DEF DailyWork, JackpotBattle, DegenesisDay, PurchaseDaily, EthDraw, PurchaseTickets,
       Consolidate, BafAwards, JackpotDaily, EarlyBird, JackpotTickets, PhaseTransition,
       ReadConsumers, RedemptionWork, AfkingWork, HumanBoxWork, DegeneretteWork, DecimatorWork, CrapsReadWork
  <2>2. \A b \in Buffers : b = tix.write \/ b = ReadSlot BY StateTypes DEF Buffers, ReadSlot
  <2> QED BY <2>1, <2>2, AwardKeeps, UngeneratedBlind
<1>6. CASE PrepareSubscriptions
  <2>1. \/ tix' = tix
        \/ \E k : tix' = [tix EXCEPT !.queue[tix.write][k] = Stamp]
    BY <1>6 DEF PrepareSubscriptions
  <2>2. /\ tix'.far = tix.far
        /\ \A b \in Buffers : \A l \in Levels : tix'.queue[b][l] \in {tix.queue[b][l], Stamp}
    BY <2>1, <1>t DEF TicketType, TicketQueue
  <2> QED BY <2>2, UngeneratedBlind
<1>7. CASE RequestDaily
  <2>1. PICK early \in {ph.level + 2, tix.early}, gnrus \in BOOLEAN :
          tix' = SwapTicketSlot(GnrusBuys([tix EXCEPT !.early = early], gnrus))
    BY <1>7 DEF RequestDaily
  <2>2. \A l \in Levels : /\ tix'.far[l] = tix.far[l]
                          /\ \A b \in Buffers : tix'.queue[b][l] \in {tix.queue[b][l], Stamp}
    BY <2>1, <1>t DEF SwapTicketSlot, GnrusBuys, TicketType, TicketQueue
  <2> QED BY <2>2, UngeneratedBlind
<1>8. CASE RequestMidday
  <2>1. tix'.far = tix.far /\ tix'.queue = tix.queue
    BY <1>8, <1>t DEF RequestMidday, SwapTicketSlot, TicketType
  <2> QED BY <2>1, UngeneratedBlind
<1>9. ASSUME NEW accepted \in BOOLEAN, RequestTerminalRng(accepted) PROVE GeneratesBlind
  <2>1. tix' = IF TerminalSwap THEN SwapTicketSlot(tix) ELSE tix BY <1>9 DEF RequestTerminalRng
  <2>2. tix'.far = tix.far /\ tix'.queue = tix.queue BY <2>1, <1>t DEF SwapTicketSlot, TicketType
  <2> QED BY <2>2, UngeneratedBlind
<1>10. CASE TicketsDone
  <2>1. tix'.far = tix.far /\ tix'.queue = tix.queue BY <1>10, <1>t DEF TicketsDone, TicketType
  <2> QED BY <2>1, UngeneratedBlind
<1>11. CASE BuyTicket
  <2>1. /\ tix'.far = tix.far
        /\ \A b \in Buffers : \A l \in Levels : tix'.queue[b][l] \in {tix.queue[b][l], Stamp}
    BY <1>11, <1>t DEF BuyTicket, TicketType, TicketQueue
  <2> QED BY <2>1, UngeneratedBlind
<1>12. ASSUME NEW l \in Levels, BuyFar(l) PROVE GeneratesBlind
  <2>1. tix'.queue = tix.queue /\ \A k \in Levels : tix'.far[k] \in {tix.far[k], Stamp}
    BY <1>12, <1>t DEF BuyFar, TicketType, FarQueues
  <2> QED BY <2>1, UngeneratedBlind
<1>13. CASE tix' = tix BY <1>13, UngeneratedBlind
<1>14. CASE PublishRng \/ ApplyDailyWord \/ SeizeLoans \/ GrowthSettle \/ Answers \/ Recovery \/ Tick
  <2>1. tix' = tix
    BY <1>14 DEF PublishRng, ApplyDailyWord, SeizeLoans, GrowthSettle, Answers, RawFulfillRandomWords,
       Recovery, RetryRng, UpdateVrfCoordinatorAndSub, Tick
  <2> QED BY <2>1, <1>13
<1>15. CASE BuyBox \/ PlaceBet \/ CrapsWindow \/ RequestRedemption \/ Nudge
  <2>1. tix' = tix BY <1>15 DEF BuyBox, PlaceBet, CrapsWindow, RequestRedemption, Nudge
  <2> QED BY <2>1, <1>13
<1>16. CASE TerminalWork
  <2>1. TerminalDrainCommitted \/ TerminalDrainBatch \/ tix' = tix
    BY <1>16 DEF TerminalWork, TerminalEnter, TerminalLoans, DeadLatch, DeadPay, DropPreFreeze, ApplyTerminalRng,
       TerminalPay, PayTerminal, ResumeTerminalPayout, FinalSweep
  <2> QED BY <2>1, <1>3, <1>4, <1>13
<1>17. CASE LiveWork BY <1>17, <1>1, <1>2, <1>5, <1>6, <1>10, <1>14 DEF LiveWork
<1>18. CASE PlayerEntry BY <1>18, <1>11, <1>12, <1>15 DEF PlayerEntry
<1> QED BY <1>7, <1>8, <1>9, <1>14, <1>16, <1>17, <1>18 DEF Next, MinerStep, Requests

(* A ticket's traits are drawn from a word that was asked for after the ticket was bought, in either buffer,
   in a far pool, in an early mid-day pool and in the terminal drain (_swapTicketSlot, _mintCeiling, the
   RngLocked guard of _queueEntries). *)
THEOREM TicketsAreBlind == Spec => TicketsBlind
<1>1. Init => Inv /\ EndInv /\ TicketSeal BY InitInv, EndInit, SealInit
<1>2. Inv /\ EndInv /\ TicketSeal /\ [Next]_vars => (Inv /\ EndInv /\ TicketSeal)' BY NextInv, EndNext, SealNext
<1>3. Inv /\ EndInv /\ TicketSeal /\ [Next]_vars => [GeneratesBlind]_vars BY TicketStep
<1> QED BY <1>1, <1>2, <1>3, PTL DEF Spec, TicketsBlind

-----------------------------------------------------------------------------
(* Levels.  Between its purchase and its last draw a ticket is always where    *)
(* the next word that draws its level will find it: the accumulating side      *)
(* holds what a swap may still commit, the read side only what the sweep will  *)
(* reach, and a far pool below the ceiling is about to be drained.             *)

\* Where a ticket of level l may still join the accumulating side.
AdmitsWrite(l) ==
  /\ ph.level <= l /\ l <= MintCeiling
  /\ l = ph.level =>
       ~ph.transition /\ (rng.locked => ph.jackpot /\ ~IsFinalJackpotDay(ph.counter, ph.turbo))

LevelOrder ==
  /\ ph.last => ~ph.jackpot
  /\ ph.transition => tix.processed
  /\ rng.locked => tix.midDay = 0
  /\ tix.early <= ph.level + 2
  /\ ph.jackpot \/ (ph.last /\ rng.locked) => tix.early <= ph.level + 1

WriteWindow == \A l \in Levels : tix.queue[tix.write][l] # 0 => AdmitsWrite(l)

ReadWindow ==
  \A l \in Levels :
    tix.queue[ReadSlot][l] # 0 => ~tix.processed /\ tix.midDay # 2 /\ l \in SweepWindow

FarWindow ==
  \A l \in Levels :
    tix.far[l] # 0 =>
      /\ l > ph.level
      /\ l = ph.level + 1 => rng.locked /\ ~tix.processed /\ ph.last /\ ~ph.jackpot

LevelParts == LevelOrder /\ WriteWindow /\ ReadWindow /\ FarWindow

LevelInv == NoDrawlessTicket /\ (Live => LevelParts)

(* Levels and ceilings are numbers. *)
LEMMA LevelTypes ==
  ASSUME Inv
  PROVE  /\ ph.level \in Nat /\ tix.early \in Nat /\ MintCeiling \in Nat /\ MintCeiling >= ph.level + 1
         /\ \A l \in Levels : l \in Int
         /\ Stamp \in Nat /\ Stamp # 0
<1>1. ph \in PhaseType /\ tix \in TicketType /\ vrf \in VrfType BY StateTypes
<1>2. ph.level \in Nat /\ tix.early \in Nat /\ vrf.asks \in Nat BY <1>1 DEF PhaseType, TicketType, VrfType
<1>3. MintCeiling \in Nat /\ MintCeiling >= ph.level + 1 BY <1>2 DEF MintCeiling
<1>4. \A l \in Levels : l \in Int BY BoundAssumption, GameAssumption DEF Levels
<1>5. Stamp \in Nat /\ Stamp # 0 BY <1>2 DEF Stamp
<1> QED BY <1>2, <1>3, <1>4, <1>5

(* When a level retires, its windows leave nothing of it. *)
LEMMA WindowsDraw == Inv /\ LevelParts => NoDrawlessTicket
<1> SUFFICES ASSUME Inv, LevelParts, ph.transition, NEW l \in Levels, l <= ph.level
             PROVE  tix.far[l] = 0 /\ \A b \in Buffers : tix.queue[b][l] = 0
  BY DEF NoDrawlessTicket
<1>1. ph.level \in Nat /\ l \in Int BY LevelTypes
<1>2. tix.far[l] = 0 BY <1>1 DEF LevelParts, FarWindow
<1>3. tix.queue[tix.write][l] = 0 BY <1>1 DEF LevelParts, WriteWindow, AdmitsWrite
<1>4. tix.queue[ReadSlot][l] = 0 BY DEF LevelParts, LevelOrder, ReadWindow
<1>5. \A b \in Buffers : b = tix.write \/ b = ReadSlot BY StateTypes DEF Buffers, ReadSlot
<1> QED BY <1>2, <1>3, <1>4, <1>5

LEMMA WindowsDrawNext == Inv' /\ LevelParts' => NoDrawlessTicket'
BY WindowsDraw, PTL

(* A step that moves neither the level, its phase nor the lock: what joins, joins where it may. *)
LEMMA KeepsWindows ==
  ASSUME Inv, LevelParts, rng'.locked = rng.locked,
         ph'.level = ph.level, ph'.last = ph.last, ph'.jackpot = ph.jackpot,
         ph'.transition = ph.transition, ph'.counter = ph.counter, ph'.turbo = ph.turbo,
         tix'.write = tix.write, tix'.early = tix.early,
         tix'.midDay = tix.midDay, tix'.processed = tix.processed,
         \A l \in Levels :
           /\ tix'.queue[tix.write][l] = tix.queue[tix.write][l] \/ AdmitsWrite(l)
           /\ tix'.queue[ReadSlot][l] \in {tix.queue[ReadSlot][l], 0}
           /\ tix'.far[l] \in {tix.far[l], 0} \/ l > MintCeiling
  PROVE  LevelParts'
<1>1. MintCeiling' = MintCeiling BY SameCeiling
<1>2. ReadSlot' = ReadSlot BY DEF ReadSlot
<1>3. SweepWindow' = SweepWindow BY <1>1 DEF SweepWindow, TicketAnchor
<1>4. \A l : AdmitsWrite(l)' = AdmitsWrite(l) BY <1>1 DEF AdmitsWrite, IsFinalJackpotDay
<1>5. LevelOrder' BY DEF LevelParts, LevelOrder
<1>6. WriteWindow' BY <1>4 DEF LevelParts, WriteWindow
<1>7. ReadWindow' BY <1>2, <1>3 DEF LevelParts, ReadWindow
<1>8. FarWindow'
  <2>1. \A l \in Levels : l > MintCeiling => l > ph.level /\ l # ph.level + 1 BY LevelTypes
  <2> QED BY <2>1 DEF LevelParts, FarWindow
<1> QED BY <1>5, <1>6, <1>7, <1>8 DEF LevelParts

(* An award joins the next level's tickets or those after it. *)
LEMMA AwardAdmitted ==
  ASSUME Inv, NEW lvl \in Int, lvl > ph.level, NEW t \in Awards(tix, lvl)
  PROVE  /\ t.write = tix.write /\ t.early = tix.early /\ t.midDay = tix.midDay
         /\ t.processed = tix.processed
         /\ \A l \in Levels :
              /\ t.queue[tix.write][l] = tix.queue[tix.write][l] \/ (AdmitsWrite(l) /\ l # ph.level)
              /\ t.queue[ReadSlot][l] = tix.queue[ReadSlot][l]
              /\ t.far[l] = tix.far[l] \/ l > MintCeiling
<1>t. tix \in TicketType /\ tix.write \in Buffers /\ ReadSlot \in Buffers /\ ReadSlot # tix.write BY StateTypes
<1>n. ph.level \in Nat /\ MintCeiling \in Nat BY LevelTypes
<1>1. CASE t = tix BY <1>1
<1>2. CASE lvl > MintCeiling /\ t = [tix EXCEPT !.far[lvl] = Stamp]
  BY <1>2, <1>t DEF TicketType, FarQueues
<1>3. CASE ~(lvl > MintCeiling) /\ t = [tix EXCEPT !.queue[tix.write][lvl] = Stamp]
  <2>1. /\ t.write = tix.write /\ t.early = tix.early /\ t.midDay = tix.midDay
        /\ t.processed = tix.processed /\ t.far = tix.far /\ t.queue[ReadSlot] = tix.queue[ReadSlot]
        /\ \A l \in Levels : l # lvl => t.queue[tix.write][l] = tix.queue[tix.write][l]
    BY <1>3, <1>t DEF TicketType, TicketQueue
  <2>2. AdmitsWrite(lvl) /\ lvl # ph.level BY <1>3, <1>n DEF AdmitsWrite
  <2> QED BY <2>1, <2>2
<1> QED BY <1>1, <1>2, <1>3 DEF Awards

(* A part of the day: under its lock, on generated tickets, awarding later levels only. *)
LEMMA PartWindows ==
  ASSUME Inv, LevelParts, rng.locked, tix.processed,
         ph'.level = ph.level,
         ph'.last => ~ph'.jackpot,
         ph'.jackpot => ph.jackpot \/ ph.last,
         rng'.locked => (ph'.last => ph.last),
         ph.jackpot /\ ~IsFinalJackpotDay(ph.counter, ph.turbo) /\ ~ph.transition =>
           ~ph'.transition /\ (rng'.locked => ph'.jackpot /\ ~IsFinalJackpotDay(ph'.counter, ph'.turbo)),
         tix' = tix \/ tix' \in Awards(tix, ph.level + 1)
  PROVE  LevelParts'
<1>n. /\ ph.level \in Nat /\ MintCeiling \in Nat /\ tix.early \in Nat /\ MintCeiling >= ph.level + 1
      /\ \A l \in Levels : l \in Int
  BY LevelTypes
<1>1. /\ tix'.write = tix.write /\ tix'.early = tix.early /\ tix'.midDay = tix.midDay
      /\ tix'.processed
      /\ \A l \in Levels :
           /\ tix'.queue[tix.write][l] = tix.queue[tix.write][l] \/ (AdmitsWrite(l) /\ l # ph.level)
           /\ tix'.queue[ReadSlot][l] = tix.queue[ReadSlot][l]
           /\ tix'.far[l] = tix.far[l] \/ l > MintCeiling
  <2>1. ph.level + 1 \in Int /\ ph.level + 1 > ph.level BY <1>n
  <2>2. CASE tix' = tix
    <3>1. tix'.processed BY <2>2
    <3> QED BY <2>2, <3>1
  <2>3. CASE tix' \in Awards(tix, ph.level + 1)
    <3> DEFINE t == tix'
    <3>1. t \in Awards(tix, ph.level + 1) BY <2>3
    <3> HIDE DEF t
    <3>2. /\ t.write = tix.write /\ t.early = tix.early /\ t.midDay = tix.midDay
          /\ t.processed = tix.processed
          /\ \A l \in Levels :
               /\ t.queue[tix.write][l] = tix.queue[tix.write][l] \/ (AdmitsWrite(l) /\ l # ph.level)
               /\ t.queue[ReadSlot][l] = tix.queue[ReadSlot][l]
               /\ t.far[l] = tix.far[l] \/ l > MintCeiling
      BY <2>1, <3>1, AwardAdmitted
    <3> QED BY <3>2 DEF t
  <2> QED BY <2>2, <2>3
<1>2. LevelOrder' BY <1>1 DEF LevelParts, LevelOrder
<1>3. MintCeiling <= MintCeiling'
  <2>1. MintCeiling = IF tix.early > ph.level + 1 THEN tix.early ELSE ph.level + 1 BY DEF MintCeiling
  <2> QED BY <1>1, <1>n, <2>1 DEF MintCeiling
<1>c. MintCeiling' \in Nat BY <1>1, <1>n DEF MintCeiling
<1>4. WriteWindow'
  <2> SUFFICES ASSUME NEW l \in Levels, tix'.queue[tix'.write][l] # 0 PROVE AdmitsWrite(l)'
    BY DEF WriteWindow
  <2>1. AdmitsWrite(l) BY <1>1 DEF LevelParts, WriteWindow
  <2>2. ph'.level <= l /\ l <= MintCeiling' BY <2>1, <1>3, <1>c, <1>n DEF AdmitsWrite
  <2>3. l = ph.level =>
          ~ph.transition /\ ph.jackpot /\ ~IsFinalJackpotDay(ph.counter, ph.turbo)
    BY <2>1 DEF AdmitsWrite
  <2> QED BY <2>2, <2>3 DEF AdmitsWrite, IsFinalJackpotDay
<1>5. ReadWindow'
  <2>1. ReadSlot' = ReadSlot BY <1>1 DEF ReadSlot
  <2> QED BY <1>1, <2>1 DEF LevelParts, ReadWindow
<1>6. FarWindow'
  <2>1. \A l \in Levels : l > MintCeiling => l > ph.level /\ l # ph.level + 1 BY <1>n
  <2> QED BY <1>1, <2>1 DEF LevelParts, FarWindow
<1> QED BY <1>2, <1>4, <1>5, <1>6 DEF LevelParts

(* Unlocking, with or without latching the purchase phase's last day. *)
LEMMA UnlockWindows ==
  ASSUME Inv, LevelParts, rng.locked, tix.processed, NEW p \in PhaseType, UnlockRng(p),
         p.level = ph.level, ~p.transition, p.last => ~p.jackpot, p.jackpot => ph.jackpot,
         tix' = tix \/ tix' \in Awards(tix, ph.level + 1)
  PROVE  LevelParts'
<1>1. /\ ph'.level = p.level /\ ph'.transition = p.transition /\ ph'.last = p.last
      /\ ph'.jackpot = p.jackpot
  BY DEF UnlockRng, Unfrozen, PhaseType
<1>2. ~rng'.locked BY UnlockKeeps
<1> QED BY <1>1, <1>2, PartWindows

(* The parts of a day. *)
LEMMA DailyWorkWindows == Inv /\ LevelParts /\ DailyWork => LevelParts'
<1> SUFFICES ASSUME Inv, LevelParts, DailyWork PROVE LevelParts' OBVIOUS
<1>t. rng \in RngType /\ ph \in PhaseType BY StateTypes
<1>n. ph.level \in Nat /\ ph.counter \in Nat /\ ph.turbo \in BOOLEAN BY <1>t DEF PhaseType
<1>0. tix.processed BY GeneratedFirst
<1>l. ASSUME DailyStage # "none" PROVE rng.locked BY <1>l, StageParts, PhaseScheduled
<1>o. ph.last => ~ph.jackpot BY DEF LevelParts, LevelOrder
<1>p. ASSUME rng.locked, ph' = ph, tix' = tix \/ tix' \in Awards(tix, ph.level + 1), rng' = rng
      PROVE  LevelParts'
  BY <1>p, <1>0, <1>o, PartWindows
<1>s. ASSUME rng.locked, SealPurchaseDay(ph), ~ph.transition, ~ph.jackpot,
             tix' = tix \/ tix' \in Awards(tix, ph.level + 1)
      PROVE  LevelParts'
  <2>1. PICK p \in {ph, [ph EXCEPT !.last = TRUE,
                           !.turbo = @ \/ OneDayLevel(ph.level + 1)
                                     \/ ((ph.level + 1) % 10 = 0 /\ rng.day - ph.start <= 1)]} :
          UnlockRng(p)
    BY <1>s DEF SealPurchaseDay
  <2>2. p \in PhaseType /\ p.transition = ph.transition /\ p.level = ph.level /\ p.jackpot = ph.jackpot
    BY <1>t DEF PhaseType, OneDayLevel
  <2> QED BY <1>s, <1>0, <2>1, <2>2, UnlockWindows
<1>1. CASE JackpotBattle BY <1>1, <1>l, <1>p DEF JackpotBattle
<1>2. CASE DegenesisDay BY <1>2, <1>l, <1>0, <1>o, <1>t, StageParts, UnlockWindows DEF DegenesisDay
<1>3. CASE PurchaseDaily
  <2>1. rng.locked /\ ~ph.transition /\ ~ph.jackpot BY <1>3, <1>l, StageParts DEF PurchaseDaily
  <2>2. CASE ph.level = 0 BY <2>1, <2>2, <1>3, <1>s DEF PurchaseDaily
  <2>3. CASE ph.level # 0
    <3>1. /\ \E met \in {ph.met, TRUE} : ph' = [ph EXCEPT !.met = met]
          /\ tix' = tix /\ rng' = rng
      BY <2>3, <1>3 DEF PurchaseDaily
    <3>2. /\ ph'.level = ph.level /\ ph'.last = ph.last /\ ph'.jackpot = ph.jackpot
          /\ ph'.transition = ph.transition
      BY <3>1, <1>t DEF PhaseType
    <3> QED BY <3>1, <3>2, <2>1, <1>0, <1>o, PartWindows
  <2> QED BY <2>2, <2>3
<1>4. CASE EthDraw
  <2>1. CASE ~ph.jackpot /\ ~legs.purchase BY <2>1, <1>4, <1>l, <1>s, StageParts DEF EthDraw
  <2>2. CASE ~(~ph.jackpot /\ ~legs.purchase)
    BY <2>2, <1>4, <1>l, <1>p DEF EthDraw
  <2> QED BY <2>1, <2>2
<1>5. CASE PurchaseTickets BY <1>5, <1>l, <1>s, StageParts DEF PurchaseTickets
<1>6. CASE Consolidate
  <2>1. ph.last /\ ~ph.jackpot BY <1>6 DEF Consolidate, DailyStage
  <2>2. ph'.level = ph.level /\ ph'.jackpot /\ ~ph'.last
    <3>1. \E met, growth : ph' = [ph EXCEPT !.jackpot = TRUE, !.last = FALSE, !.met = met, !.growth = @ \/ growth]
      BY <1>6 DEF Consolidate
    <3> QED BY <3>1, <1>t DEF PhaseType
  <2>3. tix' = tix BY <1>6 DEF Consolidate
  <2> QED BY <2>1, <2>2, <2>3, <1>6, <1>l, <1>0, PartWindows DEF Consolidate
<1>7. CASE BafAwards BY <1>7, <1>l, <1>p DEF BafAwards
<1>8. CASE JackpotDaily BY <1>8, <1>l, <1>p DEF JackpotDaily
<1>9. CASE EarlyBird BY <1>9, <1>l, <1>p DEF EarlyBird
<1>10. CASE JackpotTickets
  <2>1. rng.locked /\ ~ph.transition /\ ph.jackpot BY <1>10, <1>l, StageParts DEF JackpotTickets
  <2>2. CASE ph.counter + 1 >= PhaseDays
    <3>1. /\ \E met : ph' = [ph EXCEPT !.transition = TRUE, !.counter = 0, !.turbo = FALSE, !.met = met]
          /\ tix' \in Awards(tix, ph.level + 1)
      BY <2>2, <1>10 DEF JackpotTickets
    <3>2. ph'.level = ph.level /\ ph'.last = ph.last /\ ph'.jackpot = ph.jackpot
      BY <3>1, <1>t DEF PhaseType
    <3>3. IsFinalJackpotDay(ph.counter, ph.turbo)
      BY <2>2, <1>n, GameAssumption DEF PhaseDays, IsFinalJackpotDay
    <3> QED BY <3>1, <3>2, <3>3, <2>1, <1>0, <1>o, PartWindows
  <2>3. CASE ~(ph.counter + 1 >= PhaseDays)
    <3> DEFINE p == [ph EXCEPT !.counter = @ + 1]
    <3>1. UnlockRng(p) /\ tix' \in Awards(tix, ph.level + 1) BY <2>3, <1>10 DEF JackpotTickets
    <3>2. /\ p \in PhaseType /\ p.level = ph.level /\ p.transition = ph.transition /\ p.last = ph.last
          /\ p.jackpot = ph.jackpot
      BY <1>t DEF PhaseType
    <3> HIDE DEF p
    <3> QED BY <3>1, <3>2, <2>1, <1>0, <1>o, UnlockWindows
  <2> QED BY <2>2, <2>3
<1>11. CASE PhaseTransition
  <2> DEFINE p == [ph EXCEPT !.transition = FALSE, !.start = rng.day, !.jackpot = FALSE]
  <2>1. UnlockRng(p) /\ tix' = tix BY <1>11 DEF PhaseTransition
  <2>2. p \in PhaseType /\ p.level = ph.level /\ ~p.transition /\ ~p.jackpot
    BY <1>t DEF PhaseType, RngType
  <2>3. rng.locked BY <1>11, <1>l DEF PhaseTransition
  <2> HIDE DEF p
  <2> QED BY <2>1, <2>2, <2>3, <1>0, UnlockWindows
<1> QED BY <1>1, <1>2, <1>3, <1>4, <1>5, <1>6, <1>7, <1>8, <1>9, <1>10, <1>11 DEF DailyWork

(* The read consumers: only human boxes award tickets, of the next two levels. *)
LEMMA ConsumersWindows == Inv /\ LevelParts /\ ReadConsumers => LevelParts'
<1> SUFFICES ASSUME Inv, LevelParts, ReadConsumers PROVE LevelParts' OBVIOUS
<1>n. ph.level \in Nat BY LevelTypes
<1>1. ph' = ph /\ rng'.locked = rng.locked
  <2>1. \A w : TryCompleteRng(rng, w) => rng'.locked = rng.locked BY CertifyKeeps
  <2> QED BY <2>1 DEF ReadConsumers, RedemptionWork, AfkingWork, HumanBoxWork, DegeneretteWork,
         DecimatorWork, CrapsReadWork
<1>2. tix' = tix \/ \E l \in {ph.level + 1, ph.level + 2} : tix' \in Awards(tix, l)
  BY DEF ReadConsumers, RedemptionWork, AfkingWork, HumanBoxWork, DegeneretteWork,
         DecimatorWork, CrapsReadWork
<1>3. CASE tix' = tix BY <1>1, <1>3, KeepsWindows
<1>4. ASSUME NEW l \in {ph.level + 1, ph.level + 2}, tix' \in Awards(tix, l) PROVE LevelParts'
  <2>1. l \in Int /\ l > ph.level BY <1>n
  <2> DEFINE t == tix'
  <2>2. t \in Awards(tix, l) BY <1>4
  <2> HIDE DEF t
  <2>3. /\ t.write = tix.write /\ t.early = tix.early /\ t.midDay = tix.midDay
        /\ t.processed = tix.processed
        /\ \A k \in Levels :
             /\ t.queue[tix.write][k] = tix.queue[tix.write][k] \/ (AdmitsWrite(k) /\ k # ph.level)
             /\ t.queue[ReadSlot][k] = tix.queue[ReadSlot][k]
             /\ t.far[k] = tix.far[k] \/ k > MintCeiling
    BY <2>1, <2>2, AwardAdmitted
  <2> QED BY <2>3, <1>1, KeepsWindows DEF t
<1> QED BY <1>2, <1>3, <1>4

(* A finished sweep leaves nothing it should have reached. *)
LEMMA DoneWindows == Inv /\ LevelParts /\ TicketsDone => LevelParts'
<1> SUFFICES ASSUME Inv, LevelParts, TicketsDone PROVE LevelParts' OBVIOUS
<1>t. tix \in TicketType BY StateTypes
<1>n. ph.level \in Nat /\ tix.early \in Nat BY LevelTypes
<1>0. /\ FarQueue = {} /\ (tix.midDay = 2 \/ ReadQueues = {})
      /\ tix' = [tix EXCEPT !.processed = TRUE, !.midDay = 0]
      /\ UNCHANGED <<rng, ph>>
  BY DEF TicketsDone, LevelParts, LevelOrder
<1>1. /\ tix'.processed /\ tix'.midDay = 0 /\ tix'.early = tix.early /\ tix'.write = tix.write
      /\ tix'.queue = tix.queue /\ tix'.far = tix.far
  BY <1>0, <1>t DEF TicketType
<1>2. MintCeiling' = MintCeiling BY <1>0, <1>1, SameCeiling
<1>3. LevelOrder' BY <1>0, <1>1 DEF LevelParts, LevelOrder
<1>4. WriteWindow' BY <1>0, <1>1, <1>2 DEF LevelParts, WriteWindow, AdmitsWrite, IsFinalJackpotDay
<1>5. ReadWindow'
  <2>1. \A l \in Levels : tix.queue[ReadSlot][l] = 0
    BY <1>0 DEF LevelParts, ReadWindow, ReadQueues
  <2> QED BY <1>1, <2>1 DEF ReadWindow, ReadSlot
<1>6. FarWindow'
  <2> SUFFICES ASSUME NEW l \in Levels, tix.far[l] # 0, l = ph.level + 1 PROVE FALSE
    BY <1>0, <1>1 DEF LevelParts, FarWindow
  <2>1. rng.locked /\ ph.last BY DEF LevelParts, FarWindow
  <2>2. tix.early <= ph.level + 1 /\ tix.midDay = 0 BY <2>1 DEF LevelParts, LevelOrder
  <2>3. MintCeiling = ph.level + 1 BY <2>1, <2>2, <1>n DEF MintCeiling
  <2>4. FarQueue = {k \in {MintCeiling} : tix.far[k] # 0} BY <2>1, <2>2 DEF FarQueue, FrozenPoolDue
  <2> QED BY <2>3, <2>4, <1>0
<1> QED BY <1>3, <1>4, <1>5, <1>6 DEF LevelParts

(* Publication and the work of a live game. *)
LEMMA LiveWorkWindows == Inv /\ DayParts /\ LevelParts /\ (PublishRng \/ LiveWork) => LevelParts'
<1> SUFFICES ASSUME Inv, DayParts, LevelParts, PublishRng \/ LiveWork PROVE LevelParts' OBVIOUS
<1>t. rng \in RngType /\ ph \in PhaseType /\ tix \in TicketType /\ ReadSlot # tix.write
  BY StateTypes
<1>n. ph.level \in Nat /\ MintCeiling \in Nat /\ MintCeiling >= ph.level + 1 BY LevelTypes
<1>1. CASE PublishRng
  <2>1. rng'.locked = rng.locked BY <1>1, <1>t DEF PublishRng, RngType
  <2> QED BY <2>1, <1>1, KeepsWindows DEF PublishRng
<1>2. CASE TicketsRead
  <2>1. PICK k \in ReadQueues : tix' = [tix EXCEPT !.queue[ReadSlot][k] = 0] BY <1>2 DEF TicketsRead
  <2>2. /\ tix'.write = tix.write /\ tix'.far = tix.far /\ tix'.processed = tix.processed
        /\ tix'.early = tix.early /\ tix'.midDay = tix.midDay /\ tix'.queue[tix.write] = tix.queue[tix.write]
        /\ \A l \in Levels : tix'.queue[ReadSlot][l] \in {tix.queue[ReadSlot][l], 0}
    BY <2>1, <1>t DEF TicketType, TicketQueue
  <2> QED BY <2>2, <1>2, KeepsWindows DEF TicketsRead
<1>3. CASE TicketsFar
  <2>1. PICK k \in FarQueue : tix' = [tix EXCEPT !.far[k] = 0] BY <1>3 DEF TicketsFar
  <2>2. /\ tix'.write = tix.write /\ tix'.queue = tix.queue /\ tix'.processed = tix.processed
        /\ tix'.early = tix.early /\ tix'.midDay = tix.midDay
        /\ \A l \in Levels : tix'.far[l] \in {tix.far[l], 0}
    BY <2>1, <1>t DEF TicketType, FarQueues
  <2> QED BY <2>2, <1>3, KeepsWindows DEF TicketsFar
<1>4. CASE TicketsDone BY <1>4, DoneWindows
<1>5. CASE ApplyDailyWord
  <2>1. rng'.locked = rng.locked BY <1>5, <1>t DEF ApplyDailyWord, ApplyDailyRng, RngType
  <2> QED BY <2>1, <1>5, KeepsWindows DEF ApplyDailyWord
<1>6. CASE DailyWork BY <1>6, DailyWorkWindows
<1>7. CASE ReadConsumers BY <1>7, ConsumersWindows
<1>8. CASE PrepareSubscriptions
  <2>1. ~rng.locked /\ ~ph.transition
    <3>1. rng.complete /\ ~rng.terminal BY <1>8, Scheduled DEF PrepareSubscriptions
    <3>2. ~rng.locked BY <3>1 DEF Inv, SettlementInv, CompleteMeansDrained
    <3> QED BY <3>2 DEF DayParts, DayOpen
  <2> DEFINE k == IF ph.jackpot THEN ph.level ELSE ph.level + 1
  <2>2. \/ tix' = tix
        \/ tix' = [tix EXCEPT !.queue[tix.write][k] = Stamp]
    BY <1>8 DEF PrepareSubscriptions
  <2>3. AdmitsWrite(k) BY <2>1, <1>n DEF AdmitsWrite
  <2> HIDE DEF k
  <2>4. /\ tix'.write = tix.write /\ tix'.far = tix.far /\ tix'.early = tix.early
        /\ tix'.processed = tix.processed /\ tix'.midDay = tix.midDay
        /\ tix'.queue[ReadSlot] = tix.queue[ReadSlot]
        /\ \A l \in Levels : l # k => tix'.queue[tix.write][l] = tix.queue[tix.write][l]
    <3>1. CASE tix' = tix BY <3>1
    <3>2. CASE tix' = [tix EXCEPT !.queue[tix.write][k] = Stamp] BY <3>2, <1>t DEF TicketType, TicketQueue
    <3> QED BY <2>2, <3>1, <3>2
  <2>5. \A l \in Levels : tix'.queue[tix.write][l] = tix.queue[tix.write][l] \/ AdmitsWrite(l)
    BY <2>3, <2>4
  <2> QED BY <2>4, <2>5, <1>8, KeepsWindows DEF PrepareSubscriptions
<1>9. CASE SeizeLoans
  <2>1. /\ ph'.level = ph.level /\ ph'.last = ph.last /\ ph'.jackpot = ph.jackpot
        /\ ph'.transition = ph.transition /\ ph'.counter = ph.counter /\ ph'.turbo = ph.turbo
    BY <1>9, <1>t DEF SeizeLoans, PhaseType
  <2> QED BY <2>1, <1>9, KeepsWindows DEF SeizeLoans
<1>10. CASE GrowthSettle
  <2>1. /\ ph'.level = ph.level /\ ph'.last = ph.last /\ ph'.jackpot = ph.jackpot
        /\ ph'.transition = ph.transition /\ ph'.counter = ph.counter /\ ph'.turbo = ph.turbo
    BY <1>10, <1>t DEF GrowthSettle, PhaseType
  <2> QED BY <2>1, <1>10, KeepsWindows DEF GrowthSettle
<1> QED BY <1>1, <1>2, <1>3, <1>4, <1>5, <1>6, <1>7, <1>8, <1>9, <1>10 DEF LiveWork

(* Player entries and time. *)
LEMMA EntriesWindows == Inv /\ LevelParts /\ (PlayerEntry \/ Tick) => LevelParts'
<1> SUFFICES ASSUME Inv, LevelParts, PlayerEntry \/ Tick PROVE LevelParts' OBVIOUS
<1>t. rng \in RngType /\ ph \in PhaseType /\ tix \in TicketType /\ ReadSlot # tix.write
  BY StateTypes
<1>n. ph.level \in Nat /\ MintCeiling \in Nat /\ MintCeiling >= ph.level + 1 BY LevelTypes
<1>c. Contributes =>
        /\ ph'.level = ph.level /\ ph'.last = ph.last /\ ph'.jackpot = ph.jackpot
        /\ ph'.transition = ph.transition /\ ph'.counter = ph.counter /\ ph'.turbo = ph.turbo
  BY <1>t DEF Contributes, AddPrizeContribution, PhaseType
<1>1. CASE BuyBox BY <1>1, <1>c, KeepsWindows DEF BuyBox
<1>2. CASE PlaceBet \/ CrapsWindow \/ RequestRedemption \/ Tick
  BY <1>2, KeepsWindows DEF PlaceBet, CrapsWindow, RequestRedemption, Tick
<1>3. CASE BuyTicket
  <2>1. AdmitsWrite(ActiveTicketLevel) BY <1>n DEF AdmitsWrite, ActiveTicketLevel
  <2>2. /\ tix'.write = tix.write /\ tix'.far = tix.far /\ tix'.early = tix.early
        /\ tix'.processed = tix.processed /\ tix'.midDay = tix.midDay
        /\ tix'.queue[ReadSlot] = tix.queue[ReadSlot]
        /\ \A l \in Levels : l # ActiveTicketLevel => tix'.queue[tix.write][l] = tix.queue[tix.write][l]
    BY <1>3, <1>t DEF BuyTicket, TicketType, TicketQueue
  <2>3. \A l \in Levels : tix'.queue[tix.write][l] = tix.queue[tix.write][l] \/ AdmitsWrite(l)
    BY <2>1, <2>2
  <2> QED BY <2>2, <2>3, <1>3, <1>c, KeepsWindows DEF BuyTicket
<1>4. CASE Nudge
  <2>1. rng'.locked = rng.locked BY <1>4, <1>t DEF Nudge, RngType
  <2> QED BY <2>1, <1>4, KeepsWindows DEF Nudge
<1>5. ASSUME NEW l \in Levels, BuyFar(l) PROVE LevelParts'
  <2>1. /\ tix'.write = tix.write /\ tix'.queue = tix.queue /\ tix'.early = tix.early
        /\ tix'.processed = tix.processed /\ tix'.midDay = tix.midDay
        /\ \A k \in Levels : k # l => tix'.far[k] = tix.far[k]
    BY <1>5, <1>t DEF BuyFar, TicketType, FarQueues
  <2>2. l > MintCeiling BY <1>5 DEF BuyFar, AdmitsFar
  <2>3. \A k \in Levels : tix'.far[k] \in {tix.far[k], 0} \/ k > MintCeiling BY <2>1, <2>2
  <2> QED BY <2>1, <2>3, <1>5, KeepsWindows DEF BuyFar
<1> QED BY <1>1, <1>2, <1>3, <1>4, <1>5 DEF PlayerEntry

(* Answers and recoveries. *)
LEMMA TransportWindows == Inv /\ LevelParts /\ (Answers \/ Recovery) => LevelParts'
<1> SUFFICES ASSUME Inv, LevelParts, Answers \/ Recovery PROVE LevelParts' OBVIOUS
<1>t. rng \in RngType BY StateTypes
<1>1. UNCHANGED <<tix, ph>>
  BY DEF Answers, RawFulfillRandomWords, Recovery, RetryRng, UpdateVrfCoordinatorAndSub
<1>2. rng'.locked = rng.locked
  BY <1>t DEF Answers, RawFulfillRandomWords, Recovery, RetryRng, UpdateVrfCoordinatorAndSub, RngType
<1> QED BY <1>1, <1>2, KeepsWindows

-----------------------------------------------------------------------------

(* Between two sessions the read side is empty and nothing is locked. *)
LEMMA BetweenSessions ==
  ASSUME Inv, EndInv, DayParts, TicketSeal, LevelParts, Live,
         NextMinerAction \in {"RequestDaily", "RequestMidday"}
  PROVE  /\ ~rng.locked /\ ~ph.transition /\ tix.midDay = 0 /\ ~rng.terminal
         /\ \A l \in Levels : tix.queue[ReadSlot][l] = 0
         /\ \A l \in Levels : tix.far[l] # 0 => l > ph.level + 1
<1>t. tix \in TicketType /\ rng \in RngType /\ ReadSlot \in Buffers BY StateTypes
<1>n. ph.level \in Nat /\ \A l \in Levels : l \in Int BY LevelTypes
<1>1. rng.complete /\ ~rng.terminal BY Scheduled
<1>2. ~rng.locked /\ tix.midDay = 0 /\ (tix.processed \/ rng.id = 0)
  BY <1>1 DEF Inv, SettlementInv, CompleteMeansDrained
<1>3. ~ph.transition BY <1>2 DEF DayParts, DayOpen
<1>4. ASSUME NEW l \in Levels PROVE tix.queue[ReadSlot][l] = 0
  <2>1. CASE tix.processed BY <2>1 DEF LevelParts, ReadWindow
  <2>2. CASE rng.id = 0
    <3>1. rng.word = 0 BY <2>2 DEF TicketSeal, FarSealed
    <3>2. ~go.dead /\ ~go.swap BY LiveUnlatched
    <3>3. tix.queue[ReadSlot][l] <= 0 BY <2>2, <3>1, <3>2 DEF TicketSeal, ReadSealed
    <3>4. tix.queue[ReadSlot][l] \in Nat BY <1>t DEF TicketType, TicketQueue
    <3> QED BY <3>3, <3>4
  <2> QED BY <1>2, <2>1, <2>2
<1>5. ASSUME NEW l \in Levels, tix.far[l] # 0 PROVE l > ph.level + 1
  <2>1. l > ph.level /\ l # ph.level + 1 BY <1>2, <1>5 DEF LevelParts, FarWindow
  <2> QED BY <2>1, <1>n
<1> QED BY <1>1, <1>2, <1>3, <1>4, <1>5

(* The daily request: what may still be drawn of the level it retires is on the side it commits. *)
LEMMA DailyRequestWindows ==
  Inv /\ EndInv /\ DayParts /\ TicketSeal /\ LevelParts /\ Live /\ RequestDaily => LevelParts'
<1> SUFFICES ASSUME Inv, EndInv, DayParts, TicketSeal, LevelParts, Live, RequestDaily PROVE LevelParts'
  OBVIOUS
<1>t. /\ tix \in TicketType /\ rng \in RngType /\ ph \in PhaseType /\ Stamp \in Nat
      /\ ReadSlot \in Buffers /\ tix.write \in Buffers /\ ReadSlot # tix.write
  BY StateTypes
<1>n. /\ ph.level \in Nat /\ tix.early \in Nat /\ MintCeiling \in Nat /\ MintCeiling >= ph.level + 1
      /\ \A l \in Levels : l \in Int
  BY LevelTypes
<1>b. /\ ~rng.locked /\ ~ph.transition /\ tix.midDay = 0
      /\ \A l \in Levels : tix.queue[ReadSlot][l] = 0
      /\ \A l \in Levels : tix.far[l] # 0 => l > ph.level + 1
  BY BetweenSessions DEF RequestDaily
<1> DEFINE last == ph.last \/ EarlyTurbo(daily.idx + 1)
           closing == ~ph.jackpot /\ last
           level == IF closing THEN ph.level + 1 ELSE ph.level
<1>1. PICK early \in {ph.level + 2, tix.early}, gnrus \in BOOLEAN :
        /\ early = ph.level + 2 => closing \/ early = tix.early
        /\ gnrus => closing
        /\ tix' = SwapTicketSlot(GnrusBuys([tix EXCEPT !.early = early], gnrus))
  BY DEF RequestDaily
<1>2. /\ ph'.level = level /\ ph'.last = last /\ ph'.jackpot = ph.jackpot /\ ph'.transition = ph.transition
  BY <1>t DEF RequestDaily, PhaseType
<1>3. rng'.locked
  <2>1. rng' = [FreshRequest(rng, daily.idx + 1) EXCEPT !.locked = TRUE] BY DEF RequestDaily
  <2> QED BY <2>1, <1>t DEF FreshRequest, RngType
<1>4. /\ tix'.write = ReadSlot /\ ~tix'.processed /\ tix'.midDay = 0 /\ tix'.early = early
      /\ tix'.far = tix.far
      /\ \A l \in Levels : /\ tix'.queue[ReadSlot][l] = tix.queue[ReadSlot][l]
                           /\ l # ph.level + 1 \/ ~gnrus =>
                                tix'.queue[tix.write][l] = tix.queue[tix.write][l]
  <2>1. CASE gnrus
    <3> DEFINE u == [tix EXCEPT !.early = early]
               v == [u EXCEPT !.queue[tix.write][ph.level + 1] = Stamp]
    <3>1. /\ u.write = tix.write /\ u.queue = tix.queue /\ u.far = tix.far /\ u.midDay = tix.midDay
          /\ u.early = early /\ u.processed = tix.processed
      BY <1>t DEF TicketType
    <3>2. /\ v.write = tix.write /\ v.far = tix.far /\ v.midDay = tix.midDay
          /\ v.early = early
          /\ v.queue = [tix.queue EXCEPT ![tix.write][ph.level + 1] = Stamp]
      BY <1>t DEF TicketType
    <3>3. tix' = [v EXCEPT !.write = ReadSlot, !.processed = FALSE]
      BY <2>1, <1>1, <3>1, <3>2 DEF SwapTicketSlot, GnrusBuys, ReadSlot
    <3>4. /\ tix'.write = ReadSlot /\ ~tix'.processed /\ tix'.midDay = v.midDay /\ tix'.early = v.early
          /\ tix'.far = v.far /\ tix'.queue = v.queue
      BY <3>3, <1>t DEF TicketType
    <3>5. \A l \in Levels :
             /\ v.queue[ReadSlot][l] = tix.queue[ReadSlot][l]
             /\ l # ph.level + 1 => v.queue[tix.write][l] = tix.queue[tix.write][l]
      BY <3>2, <1>t DEF TicketType, TicketQueue
    <3> HIDE DEF v
    <3>6. tix'.midDay = 0 /\ tix'.early = early /\ tix'.far = tix.far BY <3>2, <3>4, <1>b
    <3>7. ASSUME NEW l \in Levels
          PROVE  /\ tix'.queue[ReadSlot][l] = tix.queue[ReadSlot][l]
                 /\ l # ph.level + 1 \/ ~gnrus => tix'.queue[tix.write][l] = tix.queue[tix.write][l]
      <4>1. tix'.queue = v.queue BY <3>4
      <4>2. v.queue[ReadSlot][l] = tix.queue[ReadSlot][l] BY <3>5
      <4>3. l # ph.level + 1 => v.queue[tix.write][l] = tix.queue[tix.write][l] BY <3>5
      <4>4. l # ph.level + 1 \/ ~gnrus => l # ph.level + 1 BY <2>1
      <4> QED BY <4>1, <4>2, <4>3, <4>4
    <3> QED BY <3>4, <3>6, <3>7
  <2>2. CASE ~gnrus
    <3>1. tix' = [[tix EXCEPT !.early = early] EXCEPT !.write = ReadSlot, !.processed = FALSE]
      BY <2>2, <1>1, <1>t DEF SwapTicketSlot, GnrusBuys, ReadSlot, TicketType
    <3> QED BY <3>1, <1>b, <1>t DEF TicketType
  <2> QED BY <2>1, <2>2
<1>5. ReadSlot' = tix.write BY <1>4, <1>t DEF ReadSlot, Buffers
<1>6. last => closing
  BY DEF LevelParts, LevelOrder, EarlyTurbo
<1>e. /\ tix.early <= ph.level + 2 /\ (ph.jackpot => tix.early <= ph.level + 1)
      /\ tix.early <= early /\ early \in Nat
  BY <1>n, <1>1 DEF LevelParts, LevelOrder
<1> DEFINE ceiling == IF early > level + 1 THEN early ELSE level + 1
<1>c. MintCeiling' = ceiling BY <1>2, <1>3, <1>4 DEF MintCeiling
<1>d. MintCeiling = LET c == ph.level + (IF ph.last THEN 2 ELSE 1) IN IF tix.early > c THEN tix.early ELSE c
  BY <1>b DEF MintCeiling
<1>7. MintCeiling <= MintCeiling' /\ MintCeiling' >= level + 1
  BY <1>c, <1>d, <1>e, <1>6, <1>n
<1>8. LevelOrder'
  <2>1. ph'.last => ~ph'.jackpot BY <1>2, <1>6
  <2>2. tix'.early <= ph'.level + 2 BY <1>4, <1>2, <1>e, <1>n, <1>1
  <2>3. ph'.jackpot \/ (ph'.last /\ rng'.locked) => tix'.early <= ph'.level + 1
    <3>1. CASE ph.jackpot BY <3>1, <1>4, <1>2, <1>e, <1>n, <1>1
    <3>2. CASE last BY <3>2, <1>6, <1>4, <1>2, <1>e, <1>n, <1>1
    <3> QED BY <3>1, <3>2, <1>2
  <2> QED BY <2>1, <2>2, <2>3, <1>b, <1>2, <1>4 DEF LevelOrder
<1>9. WriteWindow' BY <1>4, <1>b DEF WriteWindow
<1>10. ReadWindow'
  <2> SUFFICES ASSUME NEW l \in Levels, tix'.queue[tix.write][l] # 0
               PROVE  ~tix'.processed /\ tix'.midDay # 2 /\ l \in SweepWindow'
    BY <1>5 DEF ReadWindow
  <2>1. ph.level <= l /\ l <= MintCeiling'
    <3>1. CASE l # ph.level + 1 \/ ~gnrus
      <4>1. tix.queue[tix.write][l] # 0 BY <3>1, <1>4
      <4>2. ph.level <= l /\ l <= MintCeiling BY <4>1 DEF LevelParts, WriteWindow, AdmitsWrite
      <4>3. MintCeiling' \in Int BY <1>c, <1>e, <1>n
      <4> QED BY <4>2, <4>3, <1>7, <1>n
    <3>2. CASE ~(l # ph.level + 1 \/ ~gnrus)
      <4>1. l = ph.level + 1 /\ closing BY <3>2, <1>1
      <4>2. MintCeiling' \in Int /\ level = ph.level + 1 BY <4>1, <1>c, <1>e, <1>n
      <4> QED BY <4>1, <4>2, <1>7, <1>n
    <3> QED BY <3>1, <3>2
  <2>2. TicketAnchor' = ph.level + 1
    <3>1. TicketAnchor' = IF ~ph.jackpot /\ last THEN level ELSE level + 1
      BY <1>2, <1>3 DEF TicketAnchor
    <3> QED BY <3>1, <1>6
  <2>3. SweepWindow' = {k \in Levels : k >= ph.level /\ k <= MintCeiling'}
    BY <2>2, <1>n DEF SweepWindow
  <2> QED BY <2>1, <2>3, <1>4, <1>n
<1>11. FarWindow'
  <2> SUFFICES ASSUME NEW l \in Levels, tix.far[l] # 0
               PROVE  l > level /\ (l = level + 1 => last /\ ~ph.jackpot)
    BY <1>2, <1>3, <1>4 DEF FarWindow
  <2>1. l > ph.level + 1 BY <1>b
  <2> QED BY <2>1, <1>n
<1> QED BY <1>8, <1>9, <1>10, <1>11 DEF LevelParts

(* The mid-day request: the sides change places, the next level's pool is committed alone, or neither. *)
LEMMA MiddayRequestWindows ==
  Inv /\ EndInv /\ DayParts /\ TicketSeal /\ LevelParts /\ Live /\ RequestMidday => LevelParts'
<1> SUFFICES ASSUME Inv, EndInv, DayParts, TicketSeal, LevelParts, Live, RequestMidday PROVE LevelParts'
  OBVIOUS
<1>t. /\ tix \in TicketType /\ rng \in RngType
      /\ ReadSlot \in Buffers /\ tix.write \in Buffers /\ ReadSlot # tix.write
  BY StateTypes
<1>n. /\ ph.level \in Nat /\ tix.early \in Nat /\ MintCeiling \in Nat /\ MintCeiling >= ph.level + 1
      /\ \A l \in Levels : l \in Int
  BY LevelTypes
<1>b. /\ ~rng.locked /\ ~ph.transition /\ tix.midDay = 0
      /\ \A l \in Levels : tix.queue[ReadSlot][l] = 0
      /\ \A l \in Levels : tix.far[l] # 0 => l > ph.level + 1
  BY BetweenSessions DEF RequestMidday
<1>1. PICK early \in {ph.level + 2, tix.early} :
        /\ early = tix.early \/ ~ph.jackpot
        /\ \/ tix' = [[tix EXCEPT !.early = early] EXCEPT !.processed = FALSE, !.midDay = 2]
           \/ tix' = [SwapTicketSlot([tix EXCEPT !.early = early]) EXCEPT !.midDay = 1]
           \/ tix' = [tix EXCEPT !.early = early]
  BY DEF RequestMidday, ActivatesNextTickets
<1>2. ph' = ph BY DEF RequestMidday
<1>3. ~rng'.locked BY <1>b, <1>t DEF RequestMidday, FreshRequest, RngType
<1>4. /\ tix'.early = early /\ tix'.far = tix.far /\ tix'.queue = tix.queue
      /\ \/ tix'.write = tix.write
         \/ tix'.write = ReadSlot /\ ~tix'.processed /\ tix'.midDay # 2
  <2> DEFINE u == [tix EXCEPT !.early = early]
  <2>1. /\ u.write = tix.write /\ u.queue = tix.queue /\ u.far = tix.far /\ u.early = early
        /\ u \in [write : Buffers, queue : TicketQueue, far : FarQueues, processed : BOOLEAN,
                  midDay : {0, 1, 2}, early : Int]
    BY <1>1, <1>n, <1>t DEF TicketType
  <2>2. CASE tix' = [u EXCEPT !.processed = FALSE, !.midDay = 2] BY <2>1, <2>2
  <2>3. CASE tix' = [SwapTicketSlot(u) EXCEPT !.midDay = 1]
    <3>1. tix' = [u EXCEPT !.write = ReadSlot, !.processed = FALSE, !.midDay = 1]
      BY <2>3, <2>1 DEF SwapTicketSlot, ReadSlot
    <3> QED BY <3>1, <2>1
  <2>4. CASE tix' = u BY <2>1, <2>4
  <2> QED BY <1>1, <2>2, <2>3, <2>4
<1>e. /\ tix.early <= ph.level + 2 /\ (ph.jackpot => tix.early <= ph.level + 1)
      /\ tix.early <= early /\ early \in Nat
  BY <1>n, <1>1 DEF LevelParts, LevelOrder
<1>7. MintCeiling <= MintCeiling' /\ MintCeiling' \in Nat
  <2> DEFINE c == ph.level + (IF ph.last THEN 2 ELSE 1)
  <2>1. MintCeiling = IF tix.early > c THEN tix.early ELSE c BY <1>b DEF MintCeiling
  <2>2. MintCeiling' = IF early > c THEN early ELSE c BY <1>2, <1>3, <1>4 DEF MintCeiling
  <2>3. c \in Nat BY <1>n
  <2> HIDE DEF c
  <2> QED BY <2>1, <2>2, <2>3, <1>e, <1>n
<1>8. LevelOrder'
  <2>1. tix'.early <= ph'.level + 2 BY <1>1, <1>2, <1>4, <1>e, <1>n
  <2>2. ph'.jackpot => tix'.early <= ph'.level + 1 BY <1>1, <1>2, <1>4, <1>e
  <2> QED BY <2>1, <2>2, <1>2, <1>3, <1>b DEF LevelParts, LevelOrder
<1>9. WriteWindow'
  <2>1. CASE tix'.write = tix.write
    <3> SUFFICES ASSUME NEW l \in Levels, tix.queue[tix.write][l] # 0 PROVE AdmitsWrite(l)'
      BY <2>1, <1>4 DEF WriteWindow
    <3>1. ph.level <= l /\ l <= MintCeiling BY DEF LevelParts, WriteWindow, AdmitsWrite
    <3>2. l <= MintCeiling' BY <3>1, <1>7, <1>n
    <3> QED BY <3>1, <3>2, <1>2, <1>3, <1>b DEF AdmitsWrite
  <2>2. CASE tix'.write = ReadSlot BY <2>2, <1>4, <1>b DEF WriteWindow
  <2> QED BY <2>1, <2>2, <1>4
<1>10. ReadWindow'
  <2>1. CASE tix'.write = tix.write
    <3>1. ReadSlot' = ReadSlot BY <2>1 DEF ReadSlot
    <3> QED BY <3>1, <1>4, <1>b DEF ReadWindow
  <2>2. CASE tix'.write # tix.write
    <3>1. tix'.write = ReadSlot /\ ~tix'.processed /\ tix'.midDay # 2 BY <2>2, <1>4
    <3>2. ReadSlot' = tix.write BY <3>1, <1>t DEF ReadSlot, Buffers
    <3> SUFFICES ASSUME NEW l \in Levels, tix.queue[tix.write][l] # 0 PROVE l \in SweepWindow'
      BY <3>1, <3>2, <1>4 DEF ReadWindow
    <3>3. ph.level <= l /\ l <= MintCeiling BY DEF LevelParts, WriteWindow, AdmitsWrite
    <3>4. TicketAnchor' = ph.level + 1 BY <1>2, <1>3 DEF TicketAnchor
    <3>5. SweepWindow' = {k \in Levels : k >= ph.level /\ k <= MintCeiling'}
      BY <3>4, <1>n DEF SweepWindow
    <3> QED BY <3>3, <3>5, <1>7, <1>n
  <2> QED BY <2>1, <2>2
<1>11. FarWindow'
  <2> SUFFICES ASSUME NEW l \in Levels, tix.far[l] # 0 PROVE l > ph.level /\ l # ph.level + 1
    BY <1>2, <1>4 DEF FarWindow
  <2>1. l > ph.level + 1 BY <1>b
  <2> QED BY <2>1, <1>n
<1> QED BY <1>8, <1>9, <1>10, <1>11 DEF LevelParts

(* Every step of a live game keeps the windows. *)
LEMMA LiveWindows ==
  Inv /\ EndInv /\ DayParts /\ TicketSeal /\ LevelParts /\ Live /\ Next => LevelParts'
<1> SUFFICES ASSUME Inv, EndInv, DayParts, TicketSeal, LevelParts, Live, Next PROVE LevelParts' OBVIOUS
<1>1. ASSUME TerminalWork \/ \E accepted \in BOOLEAN : RequestTerminalRng(accepted) PROVE FALSE
  <2>1. NextMinerAction = "Terminal"
    BY <1>1 DEF Terminal, TerminalWork, TerminalEnter, TerminalLoans, NormalEnding, DeadEnding,
       DeadLatch, DeadPay, DropPreFreeze, TerminalDrainCommitted, AwaitsTerminalRequest, ApplyTerminalRng,
       TerminalDrainBatch, TerminalPay, ResumeTerminalPayout, FinalSweep, RequestTerminalRng
  <2> QED BY <2>1, Scheduled DEF Live, EndingReason
<1> QED BY <1>1, LiveWorkWindows, EntriesWindows, TransportWindows, DailyRequestWindows,
           MiddayRequestWindows DEF Next, MinerStep, Requests

(* What an ending does to the ticket queues: drain them, or swap their sides. *)
LEMMA EndedQueues ==
  ASSUME Inv, ~Live, Next
  PROVE  /\ ph'.level = ph.level /\ ph'.transition = ph.transition
         /\ \A l \in Levels : /\ tix'.far[l] = tix.far[l]
                              /\ \A b \in Buffers : tix'.queue[b][l] \in {tix.queue[b][l], 0}
<1>t. tix \in TicketType /\ ph \in PhaseType /\ ReadSlot \in Buffers BY StateTypes
<1>1. CASE TerminalDrainCommitted \/ TerminalDrainBatch
  <2>1. tix' = [tix EXCEPT !.queue[ReadSlot][DrainLevel] = 0] /\ ph' = ph
    BY <1>1 DEF TerminalDrainCommitted, TerminalDrainBatch
  <2> QED BY <2>1, <1>t DEF TicketType, TicketQueue
<1>2. ASSUME NEW accepted \in BOOLEAN, RequestTerminalRng(accepted)
      PROVE  tix'.far = tix.far /\ tix'.queue = tix.queue /\ ph' = ph
  <2>1. tix' = (IF TerminalSwap THEN SwapTicketSlot(tix) ELSE tix) /\ ph' = ph
    BY <1>2 DEF RequestTerminalRng
  <2> QED BY <2>1, <1>t DEF SwapTicketSlot, TicketType
<1>3. CASE TerminalWork
  <2>1. TerminalDrainCommitted \/ TerminalDrainBatch \/ tix' = tix
    BY <1>3 DEF TerminalWork, TerminalEnter, TerminalLoans, DeadLatch, DeadPay, DropPreFreeze, ApplyTerminalRng,
       TerminalPay, PayTerminal, ResumeTerminalPayout, FinalSweep
  <2>2. ph'.level = ph.level /\ ph'.transition = ph.transition
    BY <1>3, <1>t DEF TerminalWork, TerminalEnter, TerminalLoans, DeadLatch, DeadPay, DropPreFreeze,
       TerminalDrainCommitted, TerminalDrainBatch, ApplyTerminalRng,
       TerminalPay, PayTerminal, ResumeTerminalPayout, FinalSweep, Drained, PhaseType
  <2> QED BY <2>1, <2>2, <1>1
<1>4. ~(RequestDaily \/ RequestMidday \/ PublishRng \/ LiveWork)
  <2>1. NextMinerAction \in {"Terminal", "Idle", "Wait"} BY LiveScheduled
  <2>2. ~LiveWork
    BY <2>1 DEF LiveWork, TicketsRead, TicketsFar, TicketsDone, ApplyDailyWord, PrepareSubscriptions,
       SeizeLoans, GrowthSettle, ReadConsumers, RedemptionWork, AfkingWork, HumanBoxWork, DegeneretteWork,
       DecimatorWork, CrapsReadWork, Settles, DailyWork, DailyStage, JackpotBattle, DegenesisDay, PurchaseDaily,
       EthDraw, PurchaseTickets, Consolidate, BafAwards, JackpotDaily, EarlyBird, JackpotTickets, PhaseTransition
  <2> QED BY <2>1, <2>2 DEF RequestDaily, RequestMidday, PublishRng
<1>5. CASE PlayerEntry \/ Tick \/ Answers \/ Recovery
  <2>1. UNCHANGED <<tix, ph>>
    BY <1>5 DEF PlayerEntry, BuyBox, PlaceBet, CrapsWindow, RequestRedemption, BuyTicket, Nudge, BuyFar, Open,
       Tick, Answers, RawFulfillRandomWords, Recovery, RetryRng, UpdateVrfCoordinatorAndSub
  <2> QED BY <2>1
<1> QED BY <1>2, <1>3, <1>4, <1>5 DEF Next, MinerStep, Requests

LEMMA LevelInit == Init => LevelInv
<1> SUFFICES ASSUME Init PROVE LevelInv OBVIOUS
<1>1. NoDrawlessTicket BY DEF Init, NoDrawlessTicket
<1>2. LevelOrder BY GameAssumption DEF Init, LevelOrder
<1>3. WriteWindow BY DEF Init, WriteWindow, Buffers
<1>4. ReadWindow BY DEF Init, ReadWindow, ReadSlot, Buffers
<1>5. FarWindow BY DEF Init, FarWindow
<1> QED BY <1>1, <1>2, <1>3, <1>4, <1>5 DEF LevelInv, LevelParts

LEMMA LevelNext == Inv /\ EndInv /\ DayInv /\ TicketSeal /\ LevelInv /\ [Next]_vars => LevelInv'
<1> SUFFICES ASSUME Inv, EndInv, DayInv, TicketSeal, LevelInv, [Next]_vars PROVE LevelInv' OBVIOUS
<1>1. CASE UNCHANGED vars
  <2>1. Live' => Live
    BY <1>1 DEF vars, Live, EndingReason, HardStalled, VrfDeadmanFired, VrfDead, PurchaseExpired
  <2>2. Live => LevelParts' BY <1>1, KeepsWindows DEF vars, LevelInv
  <2>3. NoDrawlessTicket' BY <1>1 DEF vars, LevelInv, NoDrawlessTicket
  <2> QED BY <2>1, <2>2, <2>3 DEF LevelInv
<1>2. CASE Next /\ Live
  <2>1. LevelParts' BY <1>2, LiveWindows DEF DayInv, LevelInv
  <2>2. Inv' BY NextInv
  <2>3. NoDrawlessTicket' BY <2>1, <2>2, WindowsDrawNext
  <2> QED BY <2>1, <2>3 DEF LevelInv
<1>3. CASE Next /\ ~Live
  <2>1. ~Live' BY <1>3, EndingKeptStep DEF EndingKept, Live
  <2>2. NoDrawlessTicket' BY <1>3, EndedQueues DEF LevelInv, NoDrawlessTicket
  <2> QED BY <2>1, <2>2 DEF LevelInv
<1> QED BY <1>1, <1>2, <1>3

(* The slots change places in the three requests only, each time onto an empty read side. *)
LEMMA SwapStep == Inv /\ EndInv /\ DayInv /\ TicketSeal /\ LevelInv /\ Next => SwapsOntoEmpty
<1> SUFFICES ASSUME Inv, EndInv, DayInv, TicketSeal, LevelInv, Next PROVE SwapsOntoEmpty OBVIOUS
<1>t. tix \in TicketType BY StateTypes
<1>1. CASE RequestDaily \/ RequestMidday
  <2>1. NextMinerAction \in {"RequestDaily", "RequestMidday"} BY <1>1 DEF RequestDaily, RequestMidday
  <2>2. Live BY <2>1, LiveScheduled
  <2> QED BY <2>1, <2>2, BetweenSessions DEF DayInv, LevelInv, SwapsOntoEmpty
<1>2. ASSUME NEW accepted \in BOOLEAN, RequestTerminalRng(accepted) PROVE SwapsOntoEmpty
  <2> SUFFICES ASSUME tix'.write # tix.write PROVE rng.terminal /\ tix.queue[ReadSlot][DrainLevel] = 0
    BY DEF SwapsOntoEmpty
  <2>1. NormalEnding /\ go.lvl # 0 /\ ~rng.active /\ ~CommittedCohort
    BY <1>2 DEF RequestTerminalRng, AwaitsTerminalRequest
  <2>2. rng.terminal BY <2>1 DEF Inv, SettlementInv
  <2>3. ~go.swap BY <1>2 DEF RequestTerminalRng, TerminalSwap
  <2>4. ~go.dead /\ ~go.over BY <2>1, NormalIsAlive
  <2>5. CASE rng.published /\ rng.word # 0
    BY <2>1, <2>2, <2>3, <2>5 DEF CommittedCohort, LootboxWord
  <2>6. CASE ph.level = StartLevel /\ \A l \in Levels : tix.queue[ReadSlot][l] = 0
    <3>1. go.lvl \in {1, 2} BY <2>1, StateTypes DEF EndType
    <3>2. DrainLevel \in Levels
      BY <2>6, <3>1, GameAssumption, BoundAssumption DEF DrainLevel, GameOverTicketLevel, Levels
    <3> QED BY <2>2, <2>6, <3>2
  <2> QED BY <2>1, <2>3, <2>4, <2>5, <2>6 DEF EndInv, CohortHasWord
<1>3. CASE tix'.write = tix.write BY <1>3 DEF SwapsOntoEmpty
<1>4. CASE TerminalWork
  <2>1. tix' = tix \/ tix' = [tix EXCEPT !.queue[ReadSlot][DrainLevel] = 0]
    BY <1>4 DEF TerminalWork, TerminalEnter, TerminalLoans, DeadLatch, DeadPay, DropPreFreeze, ApplyTerminalRng,
       TerminalDrainCommitted, TerminalDrainBatch, TerminalPay, PayTerminal, ResumeTerminalPayout, FinalSweep
  <2> QED BY <2>1, <1>3, <1>t DEF TicketType
<1>5. CASE PublishRng \/ LiveWork
  <2>1. CASE DailyWork \/ ReadConsumers BY <2>1, <1>3, GeneratedFirst
  <2>2. CASE TicketsRead \/ TicketsFar \/ TicketsDone \/ PrepareSubscriptions
    <3>1. tix'.write = tix.write
      BY <2>2, <1>t DEF TicketsRead, TicketsFar, TicketsDone, PrepareSubscriptions, TicketType
    <3> QED BY <3>1, <1>3
  <2>3. CASE PublishRng \/ ApplyDailyWord \/ SeizeLoans \/ GrowthSettle
    BY <2>3, <1>3 DEF PublishRng, ApplyDailyWord, SeizeLoans, GrowthSettle
  <2> QED BY <1>5, <2>1, <2>2, <2>3 DEF LiveWork
<1>6. CASE PlayerEntry \/ Tick \/ Answers \/ Recovery
  <2>1. tix'.write = tix.write
    BY <1>6, <1>t DEF PlayerEntry, BuyBox, PlaceBet, CrapsWindow, RequestRedemption, BuyTicket, Nudge, BuyFar,
       Tick, Answers, RawFulfillRandomWords, Recovery, RetryRng, UpdateVrfCoordinatorAndSub, TicketType
  <2> QED BY <2>1, <1>3
<1> QED BY <1>1, <1>2, <1>4, <1>5, <1>6 DEF Next, MinerStep, Requests

(* A ticket takes part in its level's last draw: when a level retires, none of it or of an earlier one is
   left in a buffer or a far pool, and no request ever pushes a committed ticket back among those still
   accumulating (_activeTicketLevel, _queueEntries, _swapTicketSlot, requestMiddayRng). *)
THEOREM EveryTicketIsDrawn == Spec => EveryTicketDrawn
<1> DEFINE I == Inv /\ EndInv /\ DayInv /\ TicketSeal /\ LevelInv
<1>1. Init => I BY InitInv, EndInit, DayInit, SealInit, LevelInit
<1>2. I /\ [Next]_vars => I' BY NextInv, EndNext, DayNext, SealNext, LevelNext
<1>3. I => NoDrawlessTicket BY DEF LevelInv
<1>4. I /\ [Next]_vars => [SwapsOntoEmpty]_vars BY SwapStep
<1> QED BY <1>1, <1>2, <1>3, <1>4, PTL DEF Spec, EveryTicketDrawn, NoTicketStranded

-----------------------------------------------------------------------------
(* Commit and reveal.  What a step does to the session decides what each of    *)
(* its consumers sees of it.                                                   *)

\* A certified session has its word, but for the one before the first request.
WordHeld == rng.complete => rng.word # 0 \/ rng.id = 0

Fresh ==
  /\ rng.complete /\ work' = SealRngWriteBuffer(work)
  /\ rng'.id = Ask /\ ~rng'.published /\ ~rng'.complete /\ rng'.active

Resent ==
  /\ ~rng.complete /\ ~rng.published /\ work' = work
  /\ rng'.id = Ask /\ ~rng'.published /\ ~rng'.complete /\ rng'.active

Drawn ==
  /\ ~rng.complete /\ ~rng.published /\ work' = work
  /\ rng'.published /\ ~rng'.complete /\ rng'.word = rng.id /\ rng'.id = rng.id /\ rng.id # 0

KeptWord ==
  /\ rng'.id = rng.id /\ rng'.published = rng.published
  /\ rng.published \/ rng.word # 0 => rng'.word = rng.word
  /\ rng.complete => rng'.complete
  /\ rng'.complete => rng.complete \/ (rng.published /\ rng.word # 0)

QueuesKept ==
  work'.write = work.write /\ work'.box = work.box /\ work'.open = work.open /\ work'.settling = work.settling

SessionStep ==
  \/ (Fresh \/ Resent \/ Drawn) /\ Live'
  \/ (BuyBox \/ RequestRedemption \/ HumanBoxWork \/ RedemptionWork) /\ KeptWord /\ Live'
  \/ KeptWord /\ QueuesKept

(* What keeps a live game live. *)
LEMMA LiveKept ==
  ASSUME Live, rng'.terminal = rng.terminal, go' = go,
         clock'.completed = clock.completed \/ clock'.completed = 0, ~VrfDead', ~PurchaseExpired'
  PROVE  Live'
<1>1. ~HardStalled /\ ~go.over /\ ~rng.terminal BY ReasonCases DEF Live
<1>2. DeadTimeout > 0 BY ClockAssumption
<1>d. DeadTimeout \in Nat BY ClockAssumption
<1>3. ~VrfDeadmanFired'
  <2>1. CASE clock'.completed = clock.completed BY <2>1, <1>1 DEF HardStalled, VrfDeadmanFired
  <2>2. CASE clock'.completed = 0 BY <2>2, <1>2, <1>d DEF VrfDeadmanFired
  <2> QED BY <2>1, <2>2
<1>4. ~HardStalled' BY <1>3 DEF HardStalled
<1> QED BY <1>1, <1>4, ReasonCasesNext DEF Live

LEMMA LiveHas == Live => ~VrfDead /\ ~PurchaseExpired /\ ~rng.terminal
BY ReasonCases DEF Live, HardStalled

(* The requests of a live game start a session over the settled one. *)
LEMMA FreshStep ==
  ASSUME Inv, EndInv, Live, RequestDaily \/ RequestMidday PROVE Fresh /\ Live'
<1>t. /\ rng \in RngType /\ ph \in PhaseType /\ daily \in DailyType /\ clock \in ClockType /\ Ask \in Nat
  BY StateTypes DEF Inv, TypeOK
<1>d. DeadTimeout > 0 /\ DeadTimeout \in Nat BY ClockAssumption
<1>1. NextMinerAction \in {"RequestDaily", "RequestMidday"} BY DEF RequestDaily, RequestMidday
<1>2. rng.complete BY <1>1, Scheduled
<1>3. /\ rng'.id = Ask /\ ~rng'.published /\ ~rng'.complete /\ rng'.active /\ rng'.terminal = rng.terminal
      /\ clock'.request = 0 /\ clock'.completed = clock.completed /\ clock'.newDay = clock.newDay /\ go' = go
      /\ work' = SealRngWriteBuffer(work)
  <2>1. CASE RequestDaily
    <3>1. /\ rng' = [FreshRequest(rng, daily.idx + 1) EXCEPT !.locked = TRUE]
          /\ clock' = [clock EXCEPT !.request = 0, !.due = FALSE] /\ go' = go
          /\ work' = SealRngWriteBuffer(work)
      BY <2>1 DEF RequestDaily
    <3>2. FreshRequest(rng, daily.idx + 1) \in RngType BY <1>t, FreshType DEF DailyType, Inv
    <3>3. /\ FreshRequest(rng, daily.idx + 1).active /\ ~FreshRequest(rng, daily.idx + 1).published
          /\ ~FreshRequest(rng, daily.idx + 1).complete /\ FreshRequest(rng, daily.idx + 1).id = Ask
          /\ FreshRequest(rng, daily.idx + 1).terminal = rng.terminal
      BY <1>t DEF FreshRequest, RngType
    <3> QED BY <3>1, <3>2, <3>3, <1>t DEF RngType, ClockType
  <2>2. CASE RequestMidday
    <3>1. /\ rng' = FreshRequest(rng, 0) /\ clock' = [clock EXCEPT !.request = 0] /\ go' = go
          /\ work' = SealRngWriteBuffer(work)
      BY <2>2 DEF RequestMidday
    <3> QED BY <3>1, <1>t DEF FreshRequest, RngType, ClockType
  <2> QED BY <2>1, <2>2
<1>4. ~VrfDead' BY <1>3, <1>d DEF VrfDead
<1>5. ~PurchaseExpired'
  <2>1. CASE RequestDaily
    <3>1. daily.complete BY <2>1 DEF RequestDaily, NextMinerAction, ConsumerStage, MiddayEligible
    <3>2. daily'.idx = daily.idx + 1 /\ ~daily'.complete /\ daily.idx \in Nat
      BY <2>1, <1>t DEF RequestDaily, DailyType
    <3>3. /\ ph.last => ph'.last
          /\ ph'.jackpot = ph.jackpot /\ ph'.start = ph.start /\ ph'.met = ph.met /\ ph.start \in Nat
      <4> DEFINE last == ph.last \/ EarlyTurbo(daily.idx + 1)
      <4>1. ph'.last = last BY <2>1, <1>t DEF RequestDaily, PhaseType
      <4>2. /\ ph'.jackpot = ph.jackpot /\ ph'.start = ph.start /\ ph'.met = ph.met /\ ph.start \in Nat
        BY <2>1, <1>t DEF RequestDaily, PhaseType
      <4> QED BY <4>1, <4>2
    <3>4. PurchaseTimeout \in Nat BY GameAssumption
    <3>5. ~PurchaseExpired BY LiveHas
    <3> QED BY <3>1, <3>2, <3>3, <3>4, <3>5, <1>3 DEF PurchaseExpired
  <2>2. CASE RequestMidday
    <3>1. UNCHANGED <<daily, ph>> /\ ~PurchaseExpired BY <2>2, LiveHas DEF RequestMidday
    <3> QED BY <3>1, <1>3 DEF PurchaseExpired
  <2> QED BY <2>1, <2>2
<1> QED BY <1>2, <1>3, <1>4, <1>5, LiveKept DEF Fresh

(* A request sent again, whoever sends it, is one that still waits. *)
LEMMA ResentStep ==
  ASSUME Inv, EndInv, DayParts, Live, WordHeld, Recovery
  PROVE  (Resent /\ Live') \/ (KeptWord /\ QueuesKept)
<1>t. rng \in RngType /\ vrf \in VrfType BY StateTypes
<1>c. rng.complete => ~rng.active /\ ~rng.locked
  BY LiveHas DEF Inv, SettlementInv, CompleteMeansDrained
<1>s. ASSUME rng.active, rng.word = 0, rng'.id = Ask, work' = work, UNCHANGED <<clock, daily, ph, go>>,
             rng'.published = rng.published, rng'.complete = rng.complete, rng'.active = rng.active,
             rng'.terminal = rng.terminal
      PROVE  Resent /\ Live'
  <2>1. ~rng.complete /\ ~rng.published BY <1>s, <1>c DEF EndInv, SessionFlags
  <2>2. ~VrfDead' /\ ~PurchaseExpired' BY <1>s, LiveHas DEF VrfDead, PurchaseExpired
  <2> QED BY <1>s, <2>1, <2>2, LiveKept DEF Resent
<1>1. CASE RetryRng
  <2>1. /\ rng' = [rng EXCEPT !.retrySpent = TRUE, !.id = Ask] /\ rng.active /\ rng.word = 0
        /\ UNCHANGED <<clock, daily, work, ph, go>>
    BY <1>1 DEF RetryRng, RngRetryDue
  <2> QED BY <2>1, <1>t, <1>s DEF RngType
<1>2. CASE UpdateVrfCoordinatorAndSub
  <2>1. CASE ReissueDue
    <3>1. /\ rng' = [rng EXCEPT !.id = Ask, !.retrySpent = @ \/ rng.locked]
          /\ UNCHANGED <<clock, daily, work, ph, go>> /\ rng.word = 0 /\ (rng.locked \/ rng.active)
      BY <2>1, <1>2 DEF UpdateVrfCoordinatorAndSub, ReissueDue
    <3>2. rng.active BY <3>1, <1>c DEF DayParts, Waiting
    <3> QED BY <3>1, <3>2, <1>t, <1>s DEF RngType
  <2>2. CASE ~ReissueDue
    <3>1. rng' = rng /\ work' = work BY <2>2, <1>2 DEF UpdateVrfCoordinatorAndSub
    <3> QED BY <3>1 DEF KeptWord, QueuesKept, WordHeld
  <2> QED BY <2>1, <2>2
<1> QED BY <1>1, <1>2 DEF Recovery

(* Publication draws the word that was asked for last. *)
LEMMA DrawnStep ==
  ASSUME Inv, EndInv, Live, PublishRng PROVE Drawn /\ Live' /\ WordHeld'
<1>t. rng \in RngType BY StateTypes
<1>1. rng.active /\ rng.word # 0 /\ ~rng.published
  BY LiveScheduled DEF PublishRng, NextMinerAction, ConsumerStage
<1>2. ~rng.complete BY <1>1, LiveHas DEF Inv, SettlementInv, CompleteMeansDrained
<1>3. rng.id # 0 BY <1>1 DEF EndInv, SessionFlags
<1>4. rng.word = rng.id BY <1>1, <1>3 DEF Inv, SettlementInv, WordIsRequested
<1>5. /\ rng'.published /\ rng'.complete = rng.complete /\ rng'.word = rng.word /\ rng'.id = rng.id
      /\ rng'.terminal = rng.terminal /\ UNCHANGED <<clock, daily, work, ph, go>>
  BY <1>t DEF PublishRng, RngType
<1>6. ~VrfDead' /\ ~PurchaseExpired' BY <1>5, LiveHas DEF VrfDead, PurchaseExpired
<1> QED BY <1>1, <1>2, <1>3, <1>4, <1>5, <1>6, LiveKept DEF Drawn, WordHeld

(* Certifying needs the published word. *)
LEMMA CertifyKept ==
  ASSUME Inv, NEW r \in RngType, NEW done \in BOOLEAN, CertifyRngComplete(r, done),
         r.id = rng.id, r.word = rng.word, r.published = rng.published, r.complete = rng.complete,
         r.terminal = rng.terminal, done => ReadPrepared
  PROVE  KeptWord /\ rng'.terminal = rng.terminal
<1>1. rng' = IF done THEN [r EXCEPT !.complete = TRUE] ELSE r BY DEF CertifyRngComplete
<1>2. /\ rng'.id = rng.id /\ rng'.word = rng.word /\ rng'.published = rng.published
      /\ rng'.terminal = rng.terminal
      /\ rng'.complete = rng.complete \/ (rng'.complete /\ done)
  BY <1>1 DEF RngType
<1> QED BY <1>2 DEF KeptWord, ReadPrepared

LEMMA WorkerKept ==
  ASSUME Inv, NEW w, TryCompleteRng(rng, w) PROVE KeptWord /\ rng'.terminal = rng.terminal
<1> DEFINE done == ~rng.complete /\ ~rng.locked /\ ~rng.active /\ ConsumersComplete(w)
<1>1. CertifyRngComplete(rng, done) /\ done \in BOOLEAN BY DEF TryCompleteRng
<1>2. done => ReadPrepared BY DEF ConsumersComplete
<1>3. rng \in RngType BY StateTypes
<1> HIDE DEF done
<1> QED BY <1>1, <1>2, <1>3, CertifyKept

LEMMA UnlockKept == ASSUME Inv, NEW p, UnlockRng(p) PROVE KeptWord
<1> DEFINE done == ~Unlocked.complete /\ ~Unlocked.locked /\ ~Unlocked.active /\ ConsumersComplete(work)
<1>1. CertifyRngComplete(Unlocked, done) /\ done \in BOOLEAN BY DEF UnlockRng, TryCompleteRng
<1>2. done => ReadPrepared BY DEF ConsumersComplete
<1>3. rng \in RngType BY StateTypes
<1>4. /\ Unlocked \in RngType /\ Unlocked.id = rng.id /\ Unlocked.word = rng.word
      /\ Unlocked.published = rng.published /\ Unlocked.complete = rng.complete
      /\ Unlocked.terminal = rng.terminal
  BY <1>3 DEF Unlocked, RngType
<1> HIDE DEF done
<1> QED BY <1>1, <1>2, <1>4, CertifyKept

(* A certificate restarts the clocks an ending is read from. *)
LEMMA WorkerLive ==
  ASSUME Inv, Live, TryCompleteRng(rng, work'), UNCHANGED <<ph, go>> PROVE Live'
<1>t. rng \in RngType /\ daily \in DailyType /\ clock \in ClockType BY StateTypes DEF Inv, TypeOK
<1> DEFINE done == ~rng.complete /\ ~rng.locked /\ ~rng.active /\ ConsumersComplete(work')
           seals == done /\ SealsDay(rng)
<1>1. CertifyRngComplete(rng, done) BY DEF TryCompleteRng
<1>2. KeptWord /\ rng'.terminal = rng.terminal BY WorkerKept
<1>3. /\ clock' = IF seals THEN [clock EXCEPT !.completed = 0, !.newDay = FALSE] ELSE clock
      /\ daily' = IF seals THEN [daily EXCEPT !.complete = TRUE] ELSE daily
      /\ rng' = IF done THEN [rng EXCEPT !.complete = TRUE] ELSE rng
  BY <1>1 DEF CertifyRngComplete
<1> HIDE DEF done, seals
<1>4. /\ clock'.completed = clock.completed \/ clock'.completed = 0
      /\ clock'.request = clock.request /\ daily'.idx = daily.idx
      /\ (clock'.newDay => clock.newDay /\ daily'.complete = daily.complete)
  BY <1>3, <1>t DEF ClockType, DailyType
<1>5. rng'.active = rng.active /\ rng'.published = rng.published BY <1>3, <1>t DEF RngType
<1>6. ~VrfDead' BY <1>4, <1>5, LiveHas DEF VrfDead
<1>7. ~PurchaseExpired' BY <1>4, LiveHas DEF PurchaseExpired
<1> QED BY <1>2, <1>4, <1>6, <1>7, LiveKept

(* The parts of a day and the consumers keep the session's word. *)
LEMMA WorkKept ==
  ASSUME Inv, EndInv, Live, LiveWork
  PROVE  KeptWord /\ (QueuesKept \/ ((HumanBoxWork \/ RedemptionWork) /\ Live'))
<1>t. rng \in RngType /\ work \in WorkType BY StateTypes
<1>u. UNCHANGED rng => KeptWord BY DEF KeptWord
<1>w. UNCHANGED work => QueuesKept BY DEF QueuesKept
<1>1. CASE TicketsRead \/ TicketsFar \/ TicketsDone \/ SeizeLoans \/ GrowthSettle
  BY <1>1, <1>u, <1>w DEF TicketsRead, TicketsFar, TicketsDone, SeizeLoans, GrowthSettle
<1>2. CASE ApplyDailyWord
  <2>1. rng' = [rng EXCEPT !.nudges = 0] /\ UNCHANGED work BY <1>2 DEF ApplyDailyWord, ApplyDailyRng
  <2> QED BY <2>1, <1>t, <1>w DEF RngType, KeptWord
<1>3. CASE PrepareSubscriptions
  <2>1. UNCHANGED rng BY <1>3 DEF PrepareSubscriptions
  <2>2. \/ work' = [work EXCEPT !.resetDay = daily.idx + 1, !.subs = FALSE]
        \/ \E x : work' = [work EXCEPT !.subs = TRUE, !.afking = x]
    BY <1>3 DEF PrepareSubscriptions
  <2>3. QueuesKept BY <2>2, <1>t DEF QueuesKept, WorkType
  <2> QED BY <2>1, <2>3, <1>u
<1>4. CASE DailyWork
  <2>1. CASE Consolidate
    <3>1. ~rng.complete BY <2>1, StageParts, PhaseScheduled DEF Consolidate
    <3>2. \E x, y \in BOOLEAN : rng' = [rng EXCEPT !.complete = @ /\ x] /\ work' = [work EXCEPT !.dec = @ \/ y]
      BY <2>1 DEF Consolidate
    <3> QED BY <3>1, <3>2, <1>t DEF RngType, WorkType, KeptWord, QueuesKept
  <2>2. CASE ~Consolidate
    <3>1. \A p : UnlockRng(p) => KeptWord BY UnlockKept
    <3>2. SealPurchaseDay(ph) => KeptWord BY <3>1 DEF SealPurchaseDay
    <3>3. KeptWord
      BY <2>2, <1>4, <1>u, <3>1, <3>2 DEF DailyWork, JackpotBattle, DegenesisDay, PurchaseDaily, EthDraw,
         PurchaseTickets, BafAwards, JackpotDaily, EarlyBird, JackpotTickets, PhaseTransition
    <3>4. UNCHANGED work
      BY <2>2, <1>4 DEF DailyWork, JackpotBattle, DegenesisDay, PurchaseDaily, EthDraw,
         PurchaseTickets, BafAwards, JackpotDaily, EarlyBird, JackpotTickets, PhaseTransition
    <3> QED BY <3>3, <3>4, <1>w
  <2> QED BY <2>1, <2>2
<1>5. CASE RedemptionWork
  <2>1. UNCHANGED <<clock, daily, rng, ph, go>> BY <1>5 DEF RedemptionWork
  <2>2. ~VrfDead' /\ ~PurchaseExpired' BY <2>1, LiveHas DEF VrfDead, PurchaseExpired
  <2> QED BY <2>1, <2>2, <1>5, <1>u, LiveKept
<1>6. CASE HumanBoxWork
  <2>1. TryCompleteRng(rng, work') /\ UNCHANGED <<ph, go>> BY <1>6 DEF HumanBoxWork
  <2> QED BY <2>1, <1>6, WorkerKept, WorkerLive
<1>7. CASE AfkingWork \/ DegeneretteWork \/ DecimatorWork \/ CrapsReadWork
  <2>1. TryCompleteRng(rng, work')
    BY <1>7 DEF AfkingWork, DegeneretteWork, DecimatorWork, CrapsReadWork
  <2>2. \/ work' = [work EXCEPT !.afking = 0] \/ work' = [work EXCEPT !.bet[ReadBuffer] = 0]
        \/ work' = [work EXCEPT !.dec = FALSE] \/ work' = [work EXCEPT !.craps[ReadBuffer] = 0]
    BY <1>7 DEF AfkingWork, DegeneretteWork, DecimatorWork, CrapsReadWork, Settles
  <2>3. QueuesKept BY <2>2, <1>t DEF QueuesKept, WorkType
  <2> QED BY <2>1, <2>3, WorkerKept
<1> QED BY <1>1, <1>2, <1>3, <1>4, <1>5, <1>6, <1>7 DEF LiveWork, ReadConsumers

(* Entries, time and answers. *)
LEMMA EntriesKept ==
  ASSUME Inv, EndInv, Live, PlayerEntry \/ Tick
  PROVE  KeptWord /\ (QueuesKept \/ ((BuyBox \/ RequestRedemption) /\ Live'))
<1>t. rng \in RngType /\ work \in WorkType /\ ph \in PhaseType BY StateTypes
<1>u. UNCHANGED rng => KeptWord BY DEF KeptWord
<1>w. UNCHANGED work => QueuesKept BY DEF QueuesKept
<1>1. CASE BuyBox
  <2>1. UNCHANGED <<clock, daily, rng, go>> /\ Contributes BY <1>1 DEF BuyBox
  <2>2. ph'.last = ph.last /\ ph'.jackpot = ph.jackpot /\ ph'.start = ph.start /\ (ph.met => ph'.met)
    BY <2>1, <1>t DEF Contributes, AddPrizeContribution, PhaseType
  <2>3. ~VrfDead' /\ ~PurchaseExpired' BY <2>1, <2>2, LiveHas DEF VrfDead, PurchaseExpired
  <2> QED BY <1>1, <2>1, <2>3, <1>u, LiveKept
<1>2. CASE RequestRedemption
  <2>1. UNCHANGED <<clock, daily, rng, ph, go>> BY <1>2 DEF RequestRedemption
  <2>2. ~VrfDead' /\ ~PurchaseExpired' BY <2>1, LiveHas DEF VrfDead, PurchaseExpired
  <2> QED BY <1>2, <2>1, <2>2, <1>u, LiveKept
<1>3. CASE PlaceBet \/ CrapsWindow
  <2>1. UNCHANGED rng /\ (work' = [work EXCEPT !.bet[work.write] = Stamp] \/ work' = [work EXCEPT !.craps[work.write] = Stamp])
    BY <1>3 DEF PlaceBet, CrapsWindow
  <2> QED BY <2>1, <1>t, <1>u DEF WorkType, QueuesKept
<1>4. CASE BuyTicket \/ Tick \/ \E l \in Levels : BuyFar(l)
  BY <1>4, <1>u, <1>w DEF BuyTicket, Tick, BuyFar
<1>5. CASE Nudge
  <2>1. rng' = [rng EXCEPT !.nudges = Stamp] /\ UNCHANGED work BY <1>5 DEF Nudge
  <2> QED BY <2>1, <1>t, <1>w DEF RngType, KeptWord
<1> QED BY <1>1, <1>2, <1>3, <1>4, <1>5 DEF PlayerEntry

LEMMA AnswersKept ==
  ASSUME Inv, EndInv, DayParts, Live, WordHeld, Answers PROVE KeptWord /\ QueuesKept
<1>t. rng \in RngType BY StateTypes
<1>1. PICK a \in vrf.outstanding, reserved \in BOOLEAN : RawFulfillRandomWords(a, reserved) BY DEF Answers
<1>2. UNCHANGED work BY <1>1 DEF RawFulfillRandomWords
<1>3. CASE rng' = rng BY <1>2, <1>3 DEF KeptWord, QueuesKept
<1>4. CASE rng' # rng
  <2>1. rng' = [rng EXCEPT !.word = a] /\ a = rng.id /\ rng.id # 0
    BY <1>1, <1>4 DEF RawFulfillRandomWords, AcceptsAnswer
  <2>2. rng.published => rng.word # 0
    BY <2>1 DEF WordHeld, DayParts, Waiting, EndInv, SessionFlags
  <2>3. rng.word # 0 => rng.word = rng.id BY <2>1 DEF Inv, SettlementInv, WordIsRequested
  <2>4. /\ rng'.id = rng.id /\ rng'.published = rng.published /\ rng'.complete = rng.complete
        /\ rng'.word = rng.id
    BY <2>1, <1>t DEF RngType
  <2> QED BY <2>2, <2>3, <2>4, <1>2 DEF KeptWord, QueuesKept
<1> QED BY <1>3, <1>4

LEMMA SessionSteps ==
  ASSUME Inv, EndInv, DayParts, Live, WordHeld, Next PROVE SessionStep
<1>1. CASE PublishRng BY <1>1, DrawnStep DEF SessionStep
<1>2. CASE LiveWork BY <1>2, WorkKept DEF SessionStep
<1>3. CASE PlayerEntry \/ Tick BY <1>3, EntriesKept DEF SessionStep
<1>4. CASE RequestDaily \/ RequestMidday BY <1>4, FreshStep DEF SessionStep
<1>5. CASE Answers BY <1>5, AnswersKept DEF SessionStep
<1>6. CASE Recovery BY <1>6, ResentStep DEF SessionStep
<1>7. CASE TerminalWork \/ \E accepted \in BOOLEAN : RequestTerminalRng(accepted)
  <2>1. NextMinerAction = "Terminal"
    BY <1>7 DEF TerminalWork, TerminalEnter, TerminalLoans, DeadLatch, DeadPay, DropPreFreeze,
       TerminalDrainCommitted, ApplyTerminalRng, TerminalDrainBatch, TerminalPay, ResumeTerminalPayout,
       FinalSweep, RequestTerminalRng, AwaitsTerminalRequest, NormalEnding, DeadEnding, Terminal
  <2> QED BY <2>1, Scheduled, LiveUnlatched
<1> QED BY <1>1, <1>2, <1>3, <1>4, <1>5, <1>6, <1>7 DEF Next, MinerStep, Requests

LEMMA WordHeldStep ==
  ASSUME Inv, EndInv, DayParts, Live, WordHeld, Next PROVE WordHeld'
BY SessionSteps DEF SessionStep, Fresh, Resent, Drawn, KeptWord, WordHeld

-----------------------------------------------------------------------------
(* What a consumer sees of the session.                                     *)

\* What certification says of the two consumers.
CertifiedEmpty == rng.complete => work.settling = 0 /\ work.box[ReadBuffer] = 0

LEMMA LiveStages ==
  ASSUME Inv, EndInv, Live, SessionStep
  PROVE  /\ Fresh /\ Live' => /\ Stage = "idle" /\ Stage' = "asked" /\ LootboxWord' = 0
                              /\ rng'.id = Ask /\ rng'.id > rng.id
         /\ Resent /\ Live' => /\ Stage = "asked" /\ Stage' = "asked" /\ LootboxWord' = LootboxWord
                               /\ rng'.id > rng.id
         /\ Drawn /\ Live' => /\ Stage = "asked" /\ Stage' = "drawn" /\ LootboxWord' = rng.id
                              /\ rng'.id = rng.id
         /\ KeptWord => LootboxWord' = LootboxWord /\ rng'.id = rng.id
         /\ KeptWord /\ Live' => Stage' = Stage \/ (Stage = "drawn" /\ Stage' = "idle")
         /\ ~Live' => KeptWord /\ QueuesKept /\ Stage' = "ended"
         /\ Stage # "ended"
         /\ Stage = "drawn" => LootboxWord = rng.word
         /\ Live' /\ Stage' = "idle" => rng'.complete
<1>t. rng \in RngType /\ vrf \in VrfType BY StateTypes
<1>1. Ask > rng.id BY <1>t DEF Inv, SettlementInv, WordIsRequested, Ask, VrfType, RngType
<1>2. Stage = IF rng.complete THEN "idle" ELSE IF rng.published THEN "drawn" ELSE "asked" BY DEF Stage
<1>3. Live' => Stage' = IF rng'.complete THEN "idle" ELSE IF rng'.published THEN "drawn" ELSE "asked"
  BY DEF Stage
<1>4. ~Live' => Stage' = "ended" BY DEF Stage
<1>5. LootboxWord = IF rng.published THEN rng.word ELSE 0 BY DEF LootboxWord
<1>6. LootboxWord' = IF rng'.published THEN rng'.word ELSE 0 BY DEF LootboxWord
<1>7. Fresh /\ Live' => /\ Stage = "idle" /\ Stage' = "asked" /\ LootboxWord' = 0
                       /\ rng'.id = Ask /\ rng'.id > rng.id
  BY <1>1, <1>2, <1>3, <1>6 DEF Fresh
<1>8. Resent /\ Live' => /\ Stage = "asked" /\ Stage' = "asked" /\ LootboxWord' = LootboxWord
                        /\ rng'.id > rng.id
  BY <1>1, <1>2, <1>3, <1>5, <1>6 DEF Resent
<1>9. Drawn /\ Live' => /\ Stage = "asked" /\ Stage' = "drawn" /\ LootboxWord' = rng.id
                       /\ rng'.id = rng.id
  BY <1>2, <1>3, <1>6 DEF Drawn
<1>10. KeptWord => LootboxWord' = LootboxWord /\ rng'.id = rng.id BY <1>5, <1>6 DEF KeptWord
<1>11. KeptWord /\ Live' => Stage' = Stage \/ (Stage = "drawn" /\ Stage' = "idle")
  BY <1>2, <1>3 DEF KeptWord
<1>12. ~Live' => KeptWord /\ QueuesKept /\ Stage' = "ended" BY <1>4 DEF SessionStep
<1>13. Stage # "ended" /\ (Stage = "drawn" => LootboxWord = rng.word) BY <1>2, <1>5
<1>14. Live' /\ Stage' = "idle" => rng'.complete BY <1>3
<1> QED BY <1>7, <1>8, <1>9, <1>10, <1>11, <1>12, <1>13, <1>14

LEMMA CertifiedCohorts == Inv /\ Live => CertifiedEmpty
BY LiveSession DEF Inv, SettlementInv, CompleteMeansDrained, CertifiedEmpty

LEMMA CertifiedCohortsNext == Inv' /\ Live' => CertifiedEmpty'
<1>1. Live' => ~rng'.terminal BY ReasonCasesNext DEF Live
<1> QED BY <1>1 DEF Inv, SettlementInv, CompleteMeansDrained, CertifiedEmpty

(* What the seal does to either queue. *)
LEMMA SealQueues ==
  ASSUME Inv, work' = SealRngWriteBuffer(work), work.settling = 0
  PROVE  /\ work'.settling = work.open /\ work'.open = 0 /\ ReadBuffer' = work.write
         /\ work'.box[ReadBuffer'] = work.box[work.write] /\ work'.box[work'.write] = 0
<1>t. work \in WorkType BY StateTypes
<1>b. work.write \in Buffers /\ ReadBuffer \in Buffers /\ ReadBuffer # work.write
  BY <1>t DEF WorkType, Buffers, ReadBuffer
<1> DEFINE w == SwapRngBuffers(work)
<1>1. /\ w \in WorkType /\ w.write = ReadBuffer /\ w.open = work.open /\ w.settling = work.settling
      /\ w.box = [b \in Buffers |-> IF b = work.write THEN work.box[b] ELSE 0]
  BY <1>t, <1>b DEF SwapRngBuffers, WorkType, ReadBuffer, SessionQueue
<1>2. work' = CloseRedemptionBatch(w) BY DEF SealRngWriteBuffer
<1> HIDE DEF w
<1>3. work'.write = ReadBuffer /\ work'.box = w.box BY <1>1, <1>2 DEF CloseRedemptionBatch, WorkType
<1>4. ReadBuffer' = work.write BY <1>3, <1>t DEF ReadBuffer, WorkType, Buffers
<1>5. work'.settling = work.open /\ work'.open = 0
  BY <1>1, <1>2 DEF CloseRedemptionBatch, WorkType
<1> QED BY <1>1, <1>3, <1>4, <1>5, <1>b

(* The steps of a live game, as the boxes see them. *)
LEMMA LiveBoxStep ==
  ASSUME Inv, Inv', EndInv, Live, SessionStep
  PROVE  [Boxes!Next]_(Boxes!vars)
<1>t. rng \in RngType /\ work \in WorkType /\ vrf \in VrfType /\ Stamp \in Nat BY StateTypes
<1>b. /\ work.write \in Buffers /\ ReadBuffer \in Buffers /\ ReadBuffer # work.write
      /\ \A b \in Buffers : work.box[b] \in Nat /\ work.box[b] <= Stamp
  BY <1>t DEF WorkType, Buffers, ReadBuffer, SessionQueue, Inv, SettlementInv, StampsBounded
<1>q. QueuesKept => work'.box[work'.write] = work.box[work.write] /\ work'.box[ReadBuffer'] = work.box[ReadBuffer]
  BY DEF QueuesKept, ReadBuffer
<1>e. Live' /\ Stage' = "idle" => work'.box[ReadBuffer'] = 0
  BY LiveStages, CertifiedCohortsNext DEF CertifiedEmpty
<1>f. ASSUME KeptWord, Live', work'.box[work'.write] = work.box[work.write],
             work'.box[ReadBuffer'] = work.box[ReadBuffer]
      PROVE  [Boxes!Next]_(Boxes!vars)
  <2>1. CASE Stage' = Stage BY <2>1, <1>f, LiveStages DEF Boxes!vars
  <2>2. CASE Stage = "drawn" /\ Stage' = "idle"
    <3>1. Boxes!Finish BY <2>2, <1>f, <1>e, LiveStages DEF Boxes!Finish
    <3> QED BY <3>1 DEF Boxes!Next
  <2> QED BY <2>1, <2>2, <1>f, LiveStages
<1>1. CASE ~Live'
  <2>1. Boxes!End BY <1>1, <1>q, LiveStages DEF Boxes!End
  <2> QED BY <2>1 DEF Boxes!Next
<1>2. CASE Live' /\ Fresh
  <2>1. work.settling = 0 /\ work.box[ReadBuffer] = 0
    BY <1>2, CertifiedCohorts DEF Fresh, CertifiedEmpty
  <2>2. /\ work'.box[ReadBuffer'] = work.box[work.write] /\ work'.box[work'.write] = 0
    BY <1>2, <2>1, SealQueues DEF Fresh
  <2>3. work.box[work.write] <= Ask BY <1>b DEF Stamp, Ask
  <2>4. Boxes!Commit BY <1>2, <2>1, <2>2, <2>3, LiveStages DEF Boxes!Commit
  <2> QED BY <2>4 DEF Boxes!Next
<1>3. CASE Live' /\ Resent
  <2>1. QueuesKept BY <1>3 DEF Resent, QueuesKept
  <2>2. Boxes!Resend BY <1>3, <2>1, <1>q, LiveStages DEF Boxes!Resend
  <2> QED BY <2>2 DEF Boxes!Next
<1>4. CASE Live' /\ Drawn
  <2>1. QueuesKept BY <1>4 DEF Drawn, QueuesKept
  <2>2. Boxes!Draw BY <1>4, <2>1, <1>q, LiveStages DEF Boxes!Draw
  <2> QED BY <2>2 DEF Boxes!Next
<1>5. CASE Live' /\ KeptWord /\ QueuesKept BY <1>5, <1>q, <1>f
<1>6. CASE Live' /\ KeptWord /\ BuyBox
  <2>1. work' = [work EXCEPT !.box[work.write] = Stamp] /\ UNCHANGED rng BY <1>6 DEF BuyBox
  <2>2. /\ work'.box[work'.write] = Stamp /\ work'.box[ReadBuffer'] = work.box[ReadBuffer]
    BY <2>1, <1>t, <1>b DEF WorkType, SessionQueue, ReadBuffer
  <2>3. Stamp > rng.id BY <1>t DEF Inv, SettlementInv, WordIsRequested, Stamp, VrfType, RngType
  <2>4. Stage' = Stage BY <1>6, <2>1 DEF Stage
  <2>5. Boxes!Enter BY <1>6, <2>2, <2>3, <2>4, LiveStages DEF Boxes!Enter
  <2> QED BY <2>5 DEF Boxes!Next
<1>7. CASE Live' /\ KeptWord /\ RequestRedemption
  <2>1. work' = [work EXCEPT !.open = Stamp] BY <1>7 DEF RequestRedemption
  <2>2. work'.box = work.box /\ work'.write = work.write BY <2>1, <1>t DEF WorkType
  <2> QED BY <1>7, <2>2, <1>f DEF ReadBuffer
<1>8. CASE Live' /\ KeptWord /\ RedemptionWork
  <2>1. work' = [work EXCEPT !.settling = 0] BY <1>8 DEF RedemptionWork, Settles
  <2>2. work'.box = work.box /\ work'.write = work.write BY <2>1, <1>t DEF WorkType
  <2> QED BY <1>8, <2>2, <1>f DEF ReadBuffer
<1>9. CASE Live' /\ KeptWord /\ HumanBoxWork
  <2>1. work' = [work EXCEPT !.human = TRUE, !.box[ReadBuffer] = 0] /\ NextMinerAction = "boxes"
    BY <1>9 DEF HumanBoxWork, Settles
  <2>2. /\ work'.write = work.write /\ ReadBuffer' = ReadBuffer
        /\ work'.box[ReadBuffer] = 0 /\ work'.box[work.write] = work.box[work.write]
    BY <2>1, <1>t, <1>b DEF WorkType, SessionQueue, ReadBuffer
  <2>3. CASE work.box[ReadBuffer] = 0 BY <2>2, <2>3, <1>9, <1>f
  <2>4. CASE work.box[ReadBuffer] # 0
    <3>1. Stage = "drawn"
      <4>1. rng.published /\ ~rng.complete BY <2>1, ConsumerSelected DEF Consumers, ReadPrepared
      <4> QED BY <4>1 DEF Stage
    <3>2. work.box[ReadBuffer] <= rng.word BY <2>1, SealedBeforeWord DEF Consumers
    <3>3. Boxes!Settle BY <2>2, <2>4, <3>1, <3>2, <1>9, LiveStages DEF Boxes!Settle
    <3> QED BY <3>3 DEF Boxes!Next
  <2> QED BY <2>3, <2>4
<1> QED BY <1>1, <1>2, <1>3, <1>4, <1>5, <1>6, <1>7, <1>8, <1>9 DEF SessionStep

(* The same steps, as the redemption batches see them. *)
LEMMA LiveRedemptionStep ==
  ASSUME Inv, Inv', EndInv, Live, SessionStep
  PROVE  [Redemptions!Next]_(Redemptions!vars)
<1>t. rng \in RngType /\ work \in WorkType /\ vrf \in VrfType /\ Stamp \in Nat BY StateTypes
<1>b. work.open \in Nat /\ work.open <= Stamp
  BY <1>t DEF WorkType, Inv, SettlementInv, StampsBounded
<1>q. QueuesKept => work'.open = work.open /\ work'.settling = work.settling BY DEF QueuesKept
<1>e. Live' /\ Stage' = "idle" => work'.settling = 0
  BY LiveStages, CertifiedCohortsNext DEF CertifiedEmpty
<1>f. ASSUME KeptWord, Live', work'.open = work.open, work'.settling = work.settling
      PROVE  [Redemptions!Next]_(Redemptions!vars)
  <2>1. CASE Stage' = Stage BY <2>1, <1>f, LiveStages DEF Redemptions!vars
  <2>2. CASE Stage = "drawn" /\ Stage' = "idle"
    <3>1. Redemptions!Finish BY <2>2, <1>f, <1>e, LiveStages DEF Redemptions!Finish
    <3> QED BY <3>1 DEF Redemptions!Next
  <2> QED BY <2>1, <2>2, <1>f, LiveStages
<1>1. CASE ~Live'
  <2>1. Redemptions!End BY <1>1, <1>q, LiveStages DEF Redemptions!End
  <2> QED BY <2>1 DEF Redemptions!Next
<1>2. CASE Live' /\ Fresh
  <2>1. work.settling = 0 BY <1>2, CertifiedCohorts DEF Fresh, CertifiedEmpty
  <2>2. work'.settling = work.open /\ work'.open = 0 BY <1>2, <2>1, SealQueues DEF Fresh
  <2>3. work.open <= Ask BY <1>b DEF Stamp, Ask
  <2>4. Redemptions!Commit BY <1>2, <2>1, <2>2, <2>3, LiveStages DEF Redemptions!Commit
  <2> QED BY <2>4 DEF Redemptions!Next
<1>3. CASE Live' /\ Resent
  <2>1. QueuesKept BY <1>3 DEF Resent, QueuesKept
  <2>2. Redemptions!Resend BY <1>3, <2>1, <1>q, LiveStages DEF Redemptions!Resend
  <2> QED BY <2>2 DEF Redemptions!Next
<1>4. CASE Live' /\ Drawn
  <2>1. QueuesKept BY <1>4 DEF Drawn, QueuesKept
  <2>2. Redemptions!Draw BY <1>4, <2>1, <1>q, LiveStages DEF Redemptions!Draw
  <2> QED BY <2>2 DEF Redemptions!Next
<1>5. CASE Live' /\ KeptWord /\ QueuesKept BY <1>5, <1>q, <1>f
<1>6. CASE Live' /\ KeptWord /\ BuyBox
  <2>1. work' = [work EXCEPT !.box[work.write] = Stamp] BY <1>6 DEF BuyBox
  <2>2. work'.open = work.open /\ work'.settling = work.settling BY <2>1, <1>t DEF WorkType
  <2> QED BY <1>6, <2>2, <1>f
<1>7. CASE Live' /\ KeptWord /\ RequestRedemption
  <2>1. work' = [work EXCEPT !.open = Stamp] /\ UNCHANGED rng BY <1>7 DEF RequestRedemption
  <2>2. work'.open = Stamp /\ work'.settling = work.settling BY <2>1, <1>t DEF WorkType
  <2>3. Stamp > rng.id BY <1>t DEF Inv, SettlementInv, WordIsRequested, Stamp, VrfType, RngType
  <2>4. Stage' = Stage BY <1>7, <2>1 DEF Stage
  <2>5. Redemptions!Enter BY <1>7, <2>2, <2>3, <2>4, LiveStages DEF Redemptions!Enter
  <2> QED BY <2>5 DEF Redemptions!Next
<1>8. CASE Live' /\ KeptWord /\ HumanBoxWork
  <2>1. work' = [work EXCEPT !.human = TRUE, !.box[ReadBuffer] = 0] BY <1>8 DEF HumanBoxWork, Settles
  <2>2. work'.open = work.open /\ work'.settling = work.settling BY <2>1, <1>t DEF WorkType
  <2> QED BY <1>8, <2>2, <1>f
<1>9. CASE Live' /\ KeptWord /\ RedemptionWork
  <2>1. work' = [work EXCEPT !.settling = 0] /\ NextMinerAction = "redemption"
    BY <1>9 DEF RedemptionWork, Settles
  <2>2. work'.open = work.open /\ work'.settling = 0 BY <2>1, <1>t DEF WorkType
  <2>3. CASE work.settling = 0 BY <2>2, <2>3, <1>9, <1>f
  <2>4. CASE work.settling # 0
    <3>1. Stage = "drawn"
      <4>1. rng.published /\ ~rng.complete BY <2>1, ConsumerSelected DEF Consumers, ReadPrepared
      <4> QED BY <4>1 DEF Stage
    <3>2. work.settling <= rng.word BY <2>1, SealedBeforeWord DEF Consumers
    <3>3. Redemptions!Settle BY <2>2, <2>4, <3>1, <3>2, <1>9, LiveStages DEF Redemptions!Settle
    <3> QED BY <3>3 DEF Redemptions!Next
  <2> QED BY <2>3, <2>4
<1> QED BY <1>1, <1>2, <1>3, <1>4, <1>5, <1>6, <1>7, <1>8, <1>9 DEF SessionStep

(* After an ending the queues may only be set aside, by the terminal request. *)
LEMMA EndedConsumers ==
  ASSUME Inv, Inv', EndInv, ~Live, Next
  PROVE  Boxes!SetAside /\ Redemptions!SetAside
<1>t. work \in WorkType BY StateTypes
<1>1. Stage = "ended" BY DEF Stage
<1>2. Stage' = "ended"
  <2>1. ~Live' BY EndingKeptStep DEF EndingKept, Live
  <2> QED BY <2>1 DEF Stage
<1>3. rng'.id \in Nat /\ LootboxWord' \in Nat
  <2>1. rng' \in RngType BY DEF Inv, TypeOK
  <2> QED BY <2>1 DEF RngType, LootboxWord
<1>4. \/ UNCHANGED work \/ work' = SwapRngBuffers(work)
      \/ work' = [work EXCEPT !.craps[work.write] = Stamp]
  BY EndedStep DEF CrapsWindow, Tick, Answers, RawFulfillRandomWords, UpdateVrfCoordinatorAndSub,
     TerminalWork, TerminalEnter, TerminalLoans, DeadLatch, DeadPay, DropPreFreeze,
     TerminalDrainCommitted, ApplyTerminalRng, TerminalDrainBatch, TerminalPay, ResumeTerminalPayout,
     FinalSweep, PayTerminal, RequestTerminalRng
<1>5. work'.open = work.open /\ work'.settling = work.settling
  BY <1>4, <1>t DEF SwapRngBuffers, WorkType
<1>6. \/ work'.box[work'.write] = work.box[work.write] /\ work'.box[ReadBuffer'] = work.box[ReadBuffer]
      \/ work'.box[work'.write] = 0 /\ work'.box[ReadBuffer'] = work.box[work.write]
  <2>1. CASE UNCHANGED work BY <2>1 DEF ReadBuffer
  <2>2. CASE work' = SwapRngBuffers(work)
    <3>1. /\ work.write \in Buffers /\ ReadBuffer \in Buffers /\ ReadBuffer # work.write
      BY <1>t DEF WorkType, Buffers, ReadBuffer
    <3>2. work'.write = ReadBuffer /\ work'.box = [b \in Buffers |-> IF b = work.write THEN work.box[b] ELSE 0]
      BY <2>2, <1>t DEF SwapRngBuffers, WorkType, ReadBuffer
    <3>3. ReadBuffer' = work.write BY <3>2, <1>t DEF ReadBuffer, WorkType, Buffers
    <3> QED BY <3>1, <3>2, <3>3
  <2>3. CASE work' = [work EXCEPT !.craps[work.write] = Stamp]
    <3>1. work'.box = work.box /\ work'.write = work.write BY <2>3, <1>t DEF WorkType
    <3> QED BY <3>1 DEF ReadBuffer
  <2> QED BY <1>4, <2>1, <2>2, <2>3
<1> QED BY <1>1, <1>2, <1>3, <1>5, <1>6 DEF Boxes!SetAside, Redemptions!SetAside

(* Every step of the engine is one of each consumer's protocol, or none. *)
LEMMA ConsumersStep ==
  ASSUME Inv, Inv', EndInv, DayInv, Live => WordHeld, [Next]_vars
  PROVE  [Boxes!Next]_(Boxes!vars) /\ [Redemptions!Next]_(Redemptions!vars)
<1>1. CASE Next /\ Live
  <2>1. SessionStep BY <1>1, SessionSteps DEF DayInv
  <2> QED BY <1>1, <2>1, LiveBoxStep, LiveRedemptionStep
<1>2. CASE Next /\ ~Live BY <1>2, EndedConsumers DEF Boxes!Next, Redemptions!Next
<1>3. CASE UNCHANGED vars
  <2>1. Stage' = Stage
    BY <1>3 DEF vars, Stage, Live, EndingReason, HardStalled, VrfDeadmanFired, VrfDead, PurchaseExpired
  <2>2. UNCHANGED <<work, rng>> BY <1>3 DEF vars
  <2> QED BY <2>1, <2>2 DEF Boxes!vars, Redemptions!vars, LootboxWord, ReadBuffer
<1> QED BY <1>1, <1>2, <1>3

LEMMA ConsumersInit == Init => Boxes!Init /\ Redemptions!Init /\ (Live => WordHeld)
<1> SUFFICES ASSUME Init PROVE Boxes!Init /\ Redemptions!Init /\ WordHeld OBVIOUS
<1>1. /\ work.write = 0 /\ work.box = NoEntries /\ work.open = 0 /\ work.settling = 0
      /\ rng.id = FirstWord /\ rng.word = FirstWord /\ rng.published /\ rng.complete /\ FirstWord \in Nat
  BY DEF Init, FirstWord
<1>2. ReadBuffer = 1 /\ LootboxWord = FirstWord BY <1>1 DEF ReadBuffer, LootboxWord
<1>3. Stage = "idle"
  <2>1. Live
    <3>1. DeadTimeout > 0 /\ DeadTimeout \in Nat BY ClockAssumption
    <3>2. ~HardStalled BY <1>1, <3>1 DEF Init, HardStalled, VrfDeadmanFired, VrfDead
    <3>3. ~go.over /\ ~rng.terminal /\ ~PurchaseExpired BY DEF Init, PurchaseExpired
    <3> QED BY <3>2, <3>3, ReasonCases DEF Live
  <2> QED BY <2>1, <1>1 DEF Stage
<1> QED BY <1>1, <1>2, <1>3 DEF Boxes!Init, Redemptions!Init, NoEntries, Buffers, WordHeld

(***************************************************************************)
(* Boxes and redemption batches each follow commit and reveal: committed by   *)
(* the session's request, revealed by the word of its latest sending, settled *)
(* once on it, whatever the other consumers and the transport do              *)
(* (_swapRngBuffers, closeRedemptionBatch, retryRng, _certifyRngComplete).    *)
(***************************************************************************)
THEOREM EveryCohortIsRevealed == Spec => CommitReveals
<1> DEFINE I == Inv /\ EndInv /\ DayInv /\ (Live => WordHeld)
<1>1. Init => I BY InitInv, EndInit, DayInit, ConsumersInit
<1>2. I /\ [Next]_vars => I'
  <2> SUFFICES ASSUME I, [Next]_vars PROVE I' OBVIOUS
  <2>1. Inv' /\ EndInv' /\ DayInv' BY NextInv, EndNext, DayNext
  <2>2. Live' => WordHeld'
    <3>1. CASE Next /\ Live BY <3>1, WordHeldStep DEF DayInv
    <3>2. CASE Next /\ ~Live BY <3>2, EndingKeptStep DEF EndingKept, Live
    <3>3. CASE UNCHANGED vars
      BY <3>3 DEF vars, WordHeld, Live, EndingReason, HardStalled, VrfDeadmanFired, VrfDead, PurchaseExpired
    <3> QED BY <3>1, <3>2, <3>3
  <2> QED BY <2>1, <2>2
<1>3. Init => Boxes!Init /\ Redemptions!Init BY ConsumersInit
<1>4. I /\ I' /\ [Next]_vars => [Boxes!Next]_(Boxes!vars) /\ [Redemptions!Next]_(Redemptions!vars)
  BY ConsumersStep
<1> QED
  BY <1>1, <1>2, <1>3, <1>4, PTL
  DEF Spec, CommitReveals, BoxesCommitReveal, RedemptionsCommitReveal, Boxes!Spec, Redemptions!Spec
=============================================================================

----------------------------- MODULE RngSession -----------------------------
(***************************************************************************)
(* The randomness session: the two requests that seal a cohort (daily and   *)
(* mid-day), the coordinator's callback, publication, and the two           *)
(* transport recoveries (the vault owner's retry and a governed coordinator *)
(* swap).  A request the coordinator refuses rolls its whole call back, so  *)
(* a refusal is a stuttering step.                                          *)
(***************************************************************************)
EXTENDS GameState

CanAsk == vrf.asks < MaxAsks
Ask == vrf.asks + 1
AskVrf == [vrf EXCEPT !.asks = Ask, !.outstanding = @ \cup {Ask}]

\* _swapRngBuffers: the write queues become the read cohort, the new write queues are empty.
SwapRngBuffers(w) ==
  [w EXCEPT !.write = 1 - w.write, !.human = FALSE,
            !.box = [b \in Buffers |-> IF b = w.write THEN w.box[b] ELSE 0],
            !.bet = [b \in Buffers |-> IF b = w.write THEN w.bet[b] ELSE 0]]

\* Mutant: the closed batch stays open.
CloseRedemptionBatchStaysOpen(w) ==
  IF w.settling # 0 \/ w.open = 0 THEN w ELSE [w EXCEPT !.settling = w.open]

\* closeRedemptionBatch: the open batch waits for this session's word, unless another settles.
CloseRedemptionBatch(w) ==
  IF w.settling # 0 \/ w.open = 0 THEN w ELSE [w EXCEPT !.settling = w.open, !.open = 0]

SealRngWriteBuffer(w) == CloseRedemptionBatch(SwapRngBuffers(w))

SwapTicketSlot(t) == [t EXCEPT !.write = 1 - t.write, !.processed = FALSE]

FreshRequest(r, day) ==
  [r EXCEPT !.active = TRUE, !.published = FALSE, !.complete = FALSE,
            !.word = 0, !.id = Ask, !.day = day, !.retrySpent = FALSE]

\* The next level's far-future pool may be committed early once the prize target is met.
ActivatesNextTickets(early) ==
  ~ph.jackpot /\ tix.processed /\ early < ph.level + 2 /\ ph.met

-----------------------------------------------------------------------------
(* The daily request.  Its boundary decides whether this request closes the *)
(* purchase phase: it may latch an early turbo, collapse an x5 level to one *)
(* jackpot day, let GNRUS buy closing-level tickets, bump the level and      *)
(* latch the level's due loans, all before the word is asked for.           *)

EarlyTurbo(day) ==
  /\ day >= MainLaunchDay /\ ~ph.jackpot /\ ~ph.last /\ day >= ph.start /\ tix.midDay # 1
  /\ daily.idx < MainLaunchDay \/ day - ph.start <= 1
  /\ ph.level % 10 # 9 /\ ph.met

OneDayLevel(lvl) == lvl % 10 = 5 /\ lvl % 100 # 95

GnrusBuys(t, buys) ==
  IF buys THEN [t EXCEPT !.queue[t.write][ph.level + 1] = Stamp] ELSE t

RequestDaily ==
  /\ NextMinerAction = "RequestDaily" /\ work.resetDay = daily.idx + 1
  /\ CanAsk /\ daily.idx < MaxDay
  /\ LET day == daily.idx + 1
         last == ph.last \/ EarlyTurbo(day)
         closing == ~ph.jackpot /\ last
         turbo == ph.turbo \/ EarlyTurbo(day) \/ (closing /\ OneDayLevel(ph.level + 1))
         early == IF closing /\ turbo /\ ActivatesNextTickets(tix.early)
                  THEN ph.level + 2 ELSE tix.early
     IN \E gnrus \in IF closing THEN BOOLEAN ELSE {FALSE},
           battle \in BOOLEAN,
           due \in IF closing /\ "loan" \in Inputs THEN BOOLEAN ELSE {FALSE} :
          /\ ph' = [ph EXCEPT !.last = last, !.turbo = turbo, !.frozen = TRUE,
                              !.level = IF closing THEN @ + 1 ELSE @, !.loansDue = @ \/ due]
          /\ tix' = SwapTicketSlot(GnrusBuys([tix EXCEPT !.early = early], gnrus))
          /\ work' = SealRngWriteBuffer(work)
          /\ rng' = [FreshRequest(rng, day) EXCEPT !.locked = TRUE]
          /\ legs' = [legs EXCEPT !.battle = @ \/ battle]
          /\ daily' = [daily EXCEPT !.idx = day, !.complete = FALSE]
          /\ clock' = [clock EXCEPT !.request = 0, !.due = FALSE]
          /\ vrf' = AskVrf
          /\ UNCHANGED go

-----------------------------------------------------------------------------
(* The mid-day request.  It commits the next level's pool alone, or the      *)
(* ordinary ticket queues, or no ticket at all: a swap right before the      *)
(* level's last one would strand the tickets bought during a stall.         *)

LastSwapAhead ==
  \/ ph.last /\ ph.turbo
  \/ ph.jackpot /\ IsFinalJackpotDay(ph.counter, ph.turbo)

WriteSideWork(t) == \E l \in ph.level..MintCeiling : t.queue[t.write][l] # 0

RequestMidday ==
  /\ NextMinerAction = "RequestMidday" /\ CanAsk
  /\ LET activated == ActivatesNextTickets(tix.early)
         early == IF activated THEN ph.level + 2 ELSE tix.early
         pool == activated /\ tix.far[early] # 0
         queued == \/ WriteSideWork(tix)
                   \/ activated /\ tix.queue[tix.write][early] # 0
         swap == ~pool /\ ~LastSwapAhead /\ queued /\ tix.processed
         t == [tix EXCEPT !.early = early]
     IN tix' = IF pool THEN [t EXCEPT !.processed = FALSE, !.midDay = 2]
               ELSE IF swap THEN [SwapTicketSlot(t) EXCEPT !.midDay = 1]
               ELSE t
  /\ work' = SealRngWriteBuffer(work)
  /\ rng' = FreshRequest(rng, 0)
  /\ clock' = [clock EXCEPT !.request = 0]
  /\ vrf' = AskVrf
  /\ UNCHANGED <<daily, ph, legs, go>>

-----------------------------------------------------------------------------
(* The answer.  The coordinator answers each request once, possibly with    *)
(* one of the two reserved values, possibly after the request was           *)
(* superseded, dropped or orphaned by a coordinator swap.                    *)

\* Mutant: any answer of the current coordinator is taken.
AcceptsAnyAnswer(a) == a > vrf.old /\ rng.id # 0

AcceptsAnswer(a) == a > vrf.old /\ rng.id # 0 /\ rng.id = a

RawFulfillRandomWords(a, reserved) ==
  /\ a \in vrf.outstanding /\ (reserved => "reserved" \in Inputs)
  /\ vrf' = [vrf EXCEPT !.outstanding = @ \ {a}]
  /\ rng' = IF AcceptsAnswer(a) /\ ~reserved THEN [rng EXCEPT !.word = a] ELSE rng
  /\ UNCHANGED <<clock, daily, work, tix, ph, legs, go>>

\* Publication makes the word usable by read consumers; a mid-day session needs no more.
PublishRng ==
  /\ NextMinerAction = "Publish"
  /\ rng' = [rng EXCEPT !.published = TRUE, !.active = rng.locked]
  /\ UNCHANGED <<clock, daily, vrf, work, tix, ph, legs, go>>

-----------------------------------------------------------------------------
(* Transport recovery.  Both send the same request again: kind, day, cohort *)
(* and timeout origin stay.                                                 *)

RngRetryDue ==
  rng.active /\ rng.word = 0 /\ ~rng.retrySpent /\ clock.request >= RetryTimeout

RetryRng ==
  /\ "retry" \in Inputs /\ ~go.over /\ Live /\ RngRetryDue /\ CanAsk
  /\ rng' = [rng EXCEPT !.retrySpent = TRUE, !.id = Ask]
  /\ vrf' = AskVrf
  /\ UNCHANGED <<clock, daily, work, tix, ph, legs, go>>

\* Mutant: re-issues a request whose word was delivered.
ReissueDelivered == ~go.over /\ ~go.dead /\ (rng.locked \/ rng.active)

\* Mutant: re-issues after an ending that reads no word.
ReissueAfterEnding == rng.word = 0 /\ (rng.locked \/ rng.active)

\* After the ending is decided without a word, or over, only the configuration moves.
ReissueDue == ~go.over /\ ~go.dead /\ rng.word = 0 /\ (rng.locked \/ rng.active)

UpdateVrfCoordinatorAndSub ==
  /\ "swap" \in Inputs /\ clock.vrf >= StallThreshold
  /\ ReissueDue => CanAsk
  /\ vrf' = [(IF ReissueDue THEN AskVrf ELSE vrf) EXCEPT !.old = vrf.asks]
  /\ rng' = IF ReissueDue
            THEN [rng EXCEPT !.id = Ask, !.retrySpent = @ \/ rng.locked] ELSE rng
  /\ UNCHANGED <<clock, daily, work, tix, ph, legs, go>>
=============================================================================

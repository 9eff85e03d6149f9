-------------------------- MODULE RedemptionBatches --------------------------
(***************************************************************************)
(* sDGNRS.sol: burning the revenue token for its backing.  A live burn      *)
(* joins the open batch; the next request closes the batch at one price and *)
(* moves the largest payout a roll can ask for out of the Game's claimable  *)
(* balance into its redemption reserve; the word of that request rolls the  *)
(* batch and the miner pays its claims in order.  Open and settling batch   *)
(* share two storage lanes by the parity of their id.  After game over      *)
(* nothing is rolled any more: what is unpaid is paid at its roll, the      *)
(* batch still open at the plain value of its tokens, and every remaining   *)
(* token burns for its share.                                               *)
(*                                                                         *)
(* Values are whole units of ETH; stETH counts as ETH.  The FLIP escrow,    *)
(* the activity score and the packing are left out.                         *)
(***************************************************************************)
EXTENDS Integers, Sequences, FiniteSets, Totals

CONSTANTS
  Holders,        \* beneficiaries with a wallet id
  Acquired,       \* the holders whose account a lender has taken: their payee is sDGNRS itself
  Wrapper, Pools, \* the DGNRS contract and sDGNRS itself, which holds the reward pools
  WrapperShare, PoolShare,   \* the two constructor mints
  Rolls,          \* the rolls a word can give
  Percents,       \* the shares of past burns a century may mint again
  Grain,          \* payouts are priced in whole gwei
  MinValue,       \* MIN_REDEMPTION_VALUE
  MinLootbox,     \* MIN_REDEMPTION_LOOTBOX_ETH
  Amounts, Gains, \* tokens moved by one call, ETH credited or spent by one
  MaxClaimable, MaxBatches   \* bounds of the exploration

MAX_ROLL == 175
ENDING_ROLL == 100
Accounts == Holders \union {Wrapper, Pools}
Parities == 0..1

ASSUME RedemptionAssumption ==
  /\ IsFiniteSet(Holders)
  /\ Acquired \subseteq Holders /\ Wrapper \notin Holders /\ Pools \notin Holders /\ Wrapper # Pools
  /\ WrapperShare \in Nat /\ PoolShare \in Nat
  /\ Rolls \subseteq 21..MAX_ROLL /\ Percents \subseteq 25..75
  /\ Grain \in Nat \ {0} /\ MinValue \in Nat \ {0} /\ MinLootbox \in Nat
  /\ Amounts \subseteq Nat \ {0} /\ Gains \subseteq Nat \ {0}
  /\ MaxClaimable \in Nat /\ MaxBatches \in Nat

VARIABLES
  phase,       \* the Game: "live", "ending" (the trigger fired), "worded" (terminal word applied),
               \* "over", "swept"
  claimable,   \* sDGNRS's claimable balance on the Game, its last wei a sentinel
  reserve,     \* the Game's redemption reserve
  custody,     \* ETH and stETH held by sDGNRS
  pending,     \* _pendingRedemptionEthValue
  supply, balance,
  checkpoint,  \* centurySupplyCheckpoint
  escrowed,    \* _escrowedSupply
  open, settling, cursor,
  left,        \* _settlingReserveLeft
  batch,       \* _redemptionBatches, by parity
  queue,       \* _batchPlayers, by parity
  locator,     \* _claimLocations, by holder and parity
  due,         \* history: tokens a holder burned and was not yet paid for
  short        \* history: value a terminal payment could not find

money == <<claimable, reserve, custody>>
tokens == <<supply, balance, checkpoint>>
claims == <<batch, queue, locator>>
vars == <<phase, money, pending, tokens, escrowed, open, settling, cursor, left, claims, due, short>>

NoBatch == [id |-> 0, tokens |-> 0, payout |-> 0, base |-> 0, roll |-> 0]
BatchType == [id : Nat, tokens : Nat, payout : Nat, base : Nat, roll : 0..MAX_ROLL]
EntryType == [owner : Holders, tokens : Nat]
Phases == {"live", "ending", "worded", "over", "swept"}

(* Every variable keeps the shape its storage slot has; no subtraction of the code goes below zero. *)
TypeOK ==
  /\ phase \in Phases
  /\ claimable \in Nat /\ reserve \in Nat /\ custody \in Nat /\ pending \in Nat
  /\ supply \in Nat /\ balance \in [Accounts -> Nat] /\ checkpoint \in Nat /\ escrowed \in Nat
  /\ open \in Nat \ {0} /\ settling \in Nat /\ cursor \in Nat /\ left \in Nat
  /\ batch \in [Parities -> BatchType] /\ queue \in [Parities -> Seq(EntryType)]
  /\ locator \in [Holders -> [Parities -> [batch : Nat, index : Nat]]]
  /\ due \in [Holders -> Nat] /\ short \in Nat

Init ==
  /\ phase = "live" /\ claimable = 0 /\ reserve = 0 /\ custody = 0 /\ pending = 0
  /\ supply = WrapperShare + PoolShare /\ checkpoint = WrapperShare + PoolShare
  /\ balance = [a \in Accounts |-> IF a = Wrapper THEN WrapperShare
                                   ELSE IF a = Pools THEN PoolShare ELSE 0]
  /\ escrowed = 0 /\ open = 1 /\ settling = 0 /\ cursor = 0 /\ left = 0
  /\ batch = [p \in Parities |-> NoBatch] /\ queue = [p \in Parities |-> <<>>]
  /\ locator = [h \in Holders |-> [p \in Parities |-> [batch |-> 0, index |-> 0]]]
  /\ due = [h \in Holders |-> 0] /\ short = 0

-----------------------------------------------------------------------------
(* Prices.                                                                  *)

Least(a, b) == IF a < b THEN a ELSE b
Above(a, b) == IF a > b THEN a - b ELSE 0

HolderBase == supply + escrowed

Winnings == Above(claimable, 1) + reserve
LiveMoney(withCustody) == Above(Winnings + (IF withCustody THEN custody ELSE 0), pending)

\* Mutant: what closed batches are owed counts as free backing.
HolderValueGross(n, withCustody) ==
  ((Winnings + (IF withCustody THEN custody ELSE 0)) * n) \div HolderBase

HolderValue(n, withCustody) == (LiveMoney(withCustody) * n) \div HolderBase
Over == phase \in {"over", "swept"}

-----------------------------------------------------------------------------
(* Tokens: pool awards, unwrapping, forfeiture, the century refill.          *)

Move(from, to, n) == balance' = [balance EXCEPT ![from] = @ - n, ![to] = @ + n]
Destroy(from, n) == balance' = [balance EXCEPT ![from] = @ - n] /\ supply' = supply - n
TokensOnly == UNCHANGED <<phase, money, pending, escrowed, open, settling, cursor, left, claims, due, short>>

\* transferFromPool pays what the pool still has; an award sDGNRS wins itself is burned.
Award(to, n) ==
  /\ ~Over /\ balance[Pools] # 0
  /\ LET paid == Least(n, balance[Pools]) IN
       IF to = Pools THEN Destroy(Pools, paid) ELSE Move(Pools, to, paid) /\ UNCHANGED supply
  /\ UNCHANGED checkpoint /\ TokensOnly

Unwrap(h, n) ==
  /\ n <= balance[Wrapper] /\ Move(Wrapper, h, n) /\ UNCHANGED <<supply, checkpoint>> /\ TokensOnly

BurnForLiquidation(h) ==
  /\ ~Over /\ balance[h] # 0 /\ Destroy(h, balance[h]) /\ UNCHANGED checkpoint /\ TokensOnly

\* Mutant: counts the open batch as burned before it is priced.
BurnedIgnoresEscrow == checkpoint - supply

Burned == checkpoint - HolderBase

RecycleCentury ==
  /\ phase = "live"
  /\ \E percent \in Percents :
       LET minted == (Burned * percent) \div 100
       IN /\ balance' = [balance EXCEPT ![Pools] = @ + minted]
          /\ supply' = supply + minted /\ checkpoint' = HolderBase + minted
  /\ TokensOnly

-----------------------------------------------------------------------------
(* The Game's side of the backing, outside redemptions: shares of yield and *)
(* winnings in, top-ups, loans and purchases out.  Every spend leaves the   *)
(* sentinel.                                                                *)

Earn(g) ==
  /\ phase # "swept" /\ claimable + g <= MaxClaimable /\ claimable' = claimable + g
  /\ UNCHANGED <<phase, reserve, custody, pending, tokens, escrowed, open, settling, cursor, left,
                 claims, due, short>>

Spend(g) ==
  /\ phase = "live" /\ claimable > g /\ claimable' = claimable - g
  /\ UNCHANGED <<phase, reserve, custody, pending, tokens, escrowed, open, settling, cursor, left,
                 claims, due, short>>

-----------------------------------------------------------------------------
(* A live burn joins the open batch.  A lane still holding an older batch is *)
(* overwritten whole; the tag of a locator tells a claim of this batch from *)
(* one of a batch the lane held before.                                     *)

OpenTokens == IF batch[open % 2].id = open THEN batch[open % 2].tokens ELSE 0

\* Mutant: any locator of the lane counts, whatever batch it was made for.
InOpenBatchUntagged(h) == locator[h][open % 2].index \in DOMAIN queue[open % 2]

InOpenBatch(h) == locator[h][open % 2].batch = open

JoinOpenBatch(h, n) ==
  LET p == open % 2 IN
  /\ batch' = [batch EXCEPT ![p] =
       IF @.id = open THEN [@ EXCEPT !.tokens = OpenTokens + n] ELSE [NoBatch EXCEPT !.id = open, !.tokens = n]]
  /\ \/ /\ InOpenBatch(h)
        /\ queue' = [queue EXCEPT ![p][locator[h][p].index].tokens = @ + n] /\ UNCHANGED locator
     \/ /\ ~InOpenBatch(h)
        /\ queue' = [queue EXCEPT ![p] = Append(@, [owner |-> h, tokens |-> n])]
        /\ locator' = [locator EXCEPT ![h][p] = [batch |-> open, index |-> Len(queue[p]) + 1]]

\* burn (from = h) and burnWrapped (from = Wrapper) while no ending is triggered.
BurnLive(h, from, n) ==
  /\ phase = "live" /\ open <= MaxBatches
  /\ n <= balance[from] /\ HolderValue(n, FALSE) >= MinValue
  /\ Destroy(from, n) /\ escrowed' = escrowed + n /\ JoinOpenBatch(h, n)
  /\ due' = [due EXCEPT ![h] = @ + n]
  /\ UNCHANGED <<phase, money, pending, checkpoint, open, settling, cursor, left, short>>

-----------------------------------------------------------------------------
(* The request.  It first recycles what the last batch left in the reserve,  *)
(* then closes a non-empty open batch.  settling = 0 is the read certificate *)
(* every live request needs (MiningEngine's CompleteMeansDrained).          *)

Released == claimable + reserve
ClosePrice(backing) == (((backing * OpenTokens) \div HolderBase) \div Grain) * Grain

RequestEmpty ==
  /\ phase = "live" /\ settling = 0 /\ OpenTokens = 0
  /\ claimable' = Released /\ reserve' = 0
  /\ UNCHANGED <<phase, custody, pending, tokens, escrowed, open, settling, cursor, left, claims,
                 due, short>>

\* Mutant: the closed batch stays in the holder base.
HoldEscrow == UNCHANGED escrowed

ReleaseEscrow == escrowed' = escrowed - OpenTokens

\* Mutant: reserves the largest roll whether or not the backing covers it.
LargestPayoutUncapped(base, backing) == (base * MAX_ROLL) \div 100

LargestPayout(base, backing) == Least((base * MAX_ROLL) \div 100, backing)

CloseBatch ==
  /\ phase = "live" /\ settling = 0 /\ OpenTokens # 0
  /\ LET backing == Above(Above(Released, 1), pending)
         base == ClosePrice(backing)
         payout == LargestPayout(base, backing)
     IN /\ pending' = pending + payout
        /\ batch' = [batch EXCEPT ![open % 2].payout = payout, ![open % 2].base = base]
        /\ claimable' = Released - payout /\ reserve' = payout
  /\ ReleaseEscrow
  /\ settling' = open /\ open' = open + 1
  /\ UNCHANGED <<phase, custody, tokens, cursor, left, queue, locator, due, short>>

-----------------------------------------------------------------------------
(* Settlement.  The first call rolls the batch and lowers its reserve to the *)
(* rolled total; each step then pays one claim, and the last also releases   *)
(* the rounding dust and empties the lane.  Gas may stop a call between any  *)
(* two steps.                                                               *)

Lane == settling % 2

\* Mutant: a high roll is not held to what the close reserved.
RolledUncapped(roll) == (batch[Lane].base * roll) \div 100

Rolled(roll) == Least((batch[Lane].base * roll) \div 100, batch[Lane].payout)

ResolveBatch(roll) ==
  /\ pending' = Above(pending, batch[Lane].payout) + Rolled(roll)
  /\ batch' = [batch EXCEPT ![Lane].payout = Rolled(roll), ![Lane].roll = roll]

ResolveLive ==
  /\ phase = "live" /\ settling # 0 /\ batch[Lane].roll = 0
  /\ \E roll \in Rolls : ResolveBatch(roll) /\ left' = Rolled(roll)
  /\ UNCHANGED <<phase, money, tokens, escrowed, open, settling, cursor, queue, locator, due, short>>

\* Mutant: a claim's share is rounded up.
ShareRoundedUp(n) == (batch[Lane].payout * n + batch[Lane].tokens - 1) \div batch[Lane].tokens

Share(n) == (batch[Lane].payout * n) \div batch[Lane].tokens

\* Half is credited to the holder, half buys boxes; a half too small for a box goes back to sDGNRS.
Forfeited(rolled) == LET half == rolled - rolled \div 2 IN IF half < MinLootbox THEN half ELSE 0

SettleClaim ==
  /\ phase = "live" /\ settling # 0 /\ batch[Lane].roll # 0
  /\ LET e == queue[Lane][cursor + 1]
         rolled == Share(e.tokens)
         last == cursor + 1 = Len(queue[Lane])
     IN /\ rolled <= left /\ rolled <= pending /\ rolled <= reserve
        /\ reserve' = reserve - rolled /\ claimable' = claimable + Forfeited(rolled)
        /\ due' = [due EXCEPT ![e.owner] = @ - e.tokens]
        /\ left' = left - rolled
        /\ IF last
           THEN /\ pending' = Above(pending - rolled, left - rolled)
                /\ settling' = 0 /\ cursor' = 0 /\ queue' = [queue EXCEPT ![Lane] = <<>>]
           ELSE /\ pending' = pending - rolled
                /\ cursor' = cursor + 1 /\ UNCHANGED <<settling, queue>>
  /\ UNCHANGED <<phase, custody, tokens, escrowed, open, batch, locator, short>>

-----------------------------------------------------------------------------
(* The ending.  Its request closes nothing; its word, or the deterministic   *)
(* ending, resolves a settling batch no word has rolled at 100.              *)

\* Mutant: the ending rolls the settling batch again.
ResolveTerminalAgain == IF settling # 0 THEN ResolveBatch(ENDING_ROLL) ELSE UNCHANGED <<pending, batch>>

ResolveTerminal ==
  IF settling # 0 /\ batch[Lane].roll = 0 THEN ResolveBatch(ENDING_ROLL) ELSE UNCHANGED <<pending, batch>>

TriggerEnding ==
  /\ phase = "live" /\ phase' = "ending"
  /\ UNCHANGED <<money, pending, tokens, escrowed, open, settling, cursor, left, claims, due, short>>

ApplyTerminalWord ==
  /\ phase = "ending" /\ phase' = "worded" /\ ResolveTerminal
  /\ UNCHANGED <<money, tokens, escrowed, open, settling, cursor, left, queue, locator, due, short>>

\* Latches game over and burns the undistributed pools; without a word the ending is deterministic.
GameOver ==
  /\ phase \in {"ending", "worded"} /\ phase' = "over"
  /\ IF phase = "ending" THEN ResolveTerminal ELSE UNCHANGED <<pending, batch>>
  /\ Destroy(Pools, balance[Pools])
  /\ UNCHANGED <<money, checkpoint, escrowed, open, settling, cursor, left, queue, locator, due, short>>

\* The sweep pays the three sinks what they are owed, possibly pro rata short of their unbacked
\* sentinels, and a third of what nobody claimed.
FinalSweep ==
  /\ phase = "over" /\ phase' = "swept"
  /\ claimable' = 0 /\ reserve' = 0
  /\ \E lost \in 0..2, third \in Gains \union {0} : custody' = custody + Above(Winnings, lost) + third
  /\ UNCHANGED <<pending, tokens, escrowed, open, settling, cursor, left, claims, due, short>>

-----------------------------------------------------------------------------
(* After game over: deterministic burns and what is left of the batches.     *)

\* Mutant: never fetches the Game's share.
PayNoPull(value, owed) ==
  LET paid == Least(value, custody) IN
  custody' = custody - paid /\ short' = short + (value - paid) /\ UNCHANGED <<claimable, reserve>>

\* _payGameOverValue: the Game balance is pulled when custody could not also cover what is still
\* owed (or ETH alone is short, which the model leaves open); a pull leaves the sentinel.
Pay(value, owed) ==
  \E pull \in BOOLEAN :
    LET held == custody + (IF pull THEN Released - 1 ELSE 0)
        paid == Least(value, held)
    IN /\ pull => Winnings # 0
       /\ value + owed > custody => pull \/ Winnings = 0
       /\ custody' = held - paid /\ short' = short + (value - paid)
       /\ claimable' = (IF pull THEN 1 ELSE claimable) /\ reserve' = (IF pull THEN 0 ELSE reserve)

\* An acquired account's payee is sDGNRS: the value stays where it is.
PayClaim(h, value, owed) ==
  IF h \in Acquired THEN UNCHANGED <<money, short>> ELSE Pay(value, owed)

BurnOver(from, n) ==
  /\ Over /\ n <= balance[from] /\ Destroy(from, n)
  /\ Pay(HolderValue(n, TRUE), pending)
  /\ UNCHANGED <<phase, pending, checkpoint, escrowed, open, settling, cursor, left, claims, due>>

\* _liveClaimIndex: the settling batch's prefix below the cursor is paid.
Live(h, id) ==
  LET at == locator[h][id % 2] IN
  id # 0 /\ id \in {open, settling} /\ at.batch = id /\ (id = settling => at.index > cursor)

Entry(h, id) == queue[id % 2][locator[h][id % 2].index].tokens
TakeClaim(h, id) ==
  /\ Over /\ Live(h, id) /\ Entry(h, id) # 0
  /\ queue' = [queue EXCEPT ![id % 2][locator[h][id % 2].index].tokens = 0]
  /\ due' = [due EXCEPT ![h] = @ - Entry(h, id)]

ClaimSettling(h) ==
  /\ TakeClaim(h, settling) /\ batch[Lane].roll # 0
  /\ LET rolled == Share(Entry(h, settling)) IN
       /\ rolled <= pending /\ pending' = pending - rolled
       /\ PayClaim(h, rolled, pending - rolled)
  /\ UNCHANGED <<phase, tokens, escrowed, open, settling, cursor, left, batch, locator>>

\* _unwindOpenClaim: priced before the tokens leave the escrow.
ClaimOpen(h) ==
  /\ TakeClaim(h, open)
  /\ LET n == Entry(h, open) IN
       /\ escrowed' = escrowed - n /\ batch' = [batch EXCEPT ![open % 2].tokens = @ - n]
       /\ PayClaim(h, HolderValue(n, TRUE), pending)
  /\ UNCHANGED <<phase, pending, tokens, open, settling, cursor, left, locator>>

-----------------------------------------------------------------------------

Next ==
  \/ \E n \in Amounts : \/ \E to \in Holders \union {Pools} : Award(to, n)
                        \/ \E h \in Holders : Unwrap(h, n)
                        \/ \E h \in Holders : BurnLive(h, h, n) \/ BurnLive(h, Wrapper, n)
                        \/ \E from \in Holders \union {Wrapper} : BurnOver(from, n)
  \/ \E h \in Holders : BurnForLiquidation(h) \/ ClaimSettling(h) \/ ClaimOpen(h)
  \/ \E g \in Gains : Earn(g) \/ Spend(g)
  \/ RecycleCentury
  \/ RequestEmpty \/ CloseBatch \/ ResolveLive \/ SettleClaim
  \/ TriggerEnding \/ ApplyTerminalWord \/ GameOver \/ FinalSweep

Spec == Init /\ [][Next]_vars

-----------------------------------------------------------------------------
(* Properties.                                                              *)

(* In a live game everything reserved is the settling batch, and the Game's redemption reserve holds
   it: no claim's leg is ever refused, whatever the account spends meanwhile.  Between batches
   nothing stays reserved (RngUtils._closeRedemptionBatch recycles on that ground). *)
ReserveBacksPending ==
  ~Over => /\ reserve >= pending
           /\ settling = 0 => pending = 0

(* Miner settlement never reverts: what is not yet assigned covers the shares of every unpaid claim
   of the rolled batch, in a live game and for the claims an ending left over. *)
SharesAreCovered ==
  settling # 0 /\ batch[Lane].roll # 0 =>
    LET unpaid == Total([i \in cursor + 1..Len(queue[Lane]) |-> Share(queue[Lane][i].tokens)])
    IN unpaid <= pending /\ (phase = "live" => unpaid <= left)

(* The escrow that keeps burned tokens in the holder base is exactly the open batch, and that is
   exactly the sum of its entries (both are decreased unchecked). *)
OpenEntries == [i \in DOMAIN queue[open % 2] |-> queue[open % 2][i].tokens]
EscrowIsTheOpenBatch == escrowed = OpenTokens /\ OpenTokens = Total(OpenEntries)

(* Every burned token is paid exactly once: what a holder can still claim, through the locators, is
   what it burned and was not paid for, across any reuse of the two lanes. *)
Claim(h, id) == IF Live(h, id) THEN Entry(h, id) ELSE 0
PaidExactlyOnce == \A h \in Holders : due[h] = Claim(h, open) + Claim(h, settling)

(* The supply is what the accounts hold (burns decrease it unchecked).  Refills never lift the holder
   base above the base after the last one, nor that above the initial supply: the century subtraction
   cannot revert, and 80 bits hold every amount. *)
SupplyBounded ==
  /\ supply = Total(balance)
  /\ supply + escrowed <= checkpoint /\ checkpoint <= WrapperShare + PoolShare

(* After game over no payment falls short, in whatever order holders burn and claim; the sweep may
   lose the two wei of other sinks' sentinels it shares pro rata. *)
NobodyShorted == short = 0 \/ (phase = "swept" /\ short <= 2)

(* The books of the token balance and no amount in them goes below zero: supply, escrow, the entries
   behind it and the holder base's bounds. *)
BooksBalance == TypeOK /\ EscrowIsTheOpenBatch /\ SupplyBounded

(* What was promised is there when it is paid: to a rolled batch, and to whoever leaves after game
   over. *)
ClaimsCovered == SharesAreCovered /\ NobodyShorted

(* After game over nobody leaving lowers what a remaining token is worth. *)
Free == Above(Winnings + custody, pending)
LeaversDoNotDilute ==
  [][Over /\ phase' = phase => Free' * (supply + escrowed) >= Free * (supply + escrowed)']_vars

(* A batch is rolled once: its roll and the payout its claims share never change again while a claim
   is unpaid. *)
RolledOnce ==
  [][settling # 0 /\ batch[Lane].roll # 0 =>
       batch'[Lane].roll = batch[Lane].roll /\ batch'[Lane].payout = batch[Lane].payout]_vars

=============================================================================

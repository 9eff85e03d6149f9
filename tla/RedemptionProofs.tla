--------------------------- MODULE RedemptionProofs ---------------------------
(***************************************************************************)
(* What holds of the redemption batches for every number of holders, every  *)
(* supply and every set of rolls: storage stays in range, tokens add up,     *)
(* every claim is payable exactly once, a roll is final, the Game's reserve *)
(* covers what a live game owes, every share and every payment after game   *)
(* over is covered, and nobody who leaves then dilutes who stays.           *)
(***************************************************************************)
EXTENDS RedemptionBatches, TotalProofs

------------------------------------------------------------------------------
(* The inductive invariant.                                                 *)

\* The batch ids in use; each is alone on its lane, since the settling id is the one before the open.
InUse == {open} \union (IF settling = 0 THEN {} ELSE {settling})

\* The lanes: a settling batch is non-empty and has claims left, an unused lane is empty.
Lanes ==
  /\ settling # 0 => /\ open = settling + 1 /\ batch[Lane].id = settling /\ batch[Lane].tokens # 0
                     /\ cursor < Len(queue[Lane])
  /\ settling = 0 => queue[(open + 1) % 2] = <<>> /\ cursor = 0
  /\ \A p \in Parities : batch[p].id <= open
  /\ batch[open % 2].id = open => batch[open % 2].roll = 0 /\ queue[open % 2] # <<>>
  /\ batch[open % 2].id # open => queue[open % 2] = <<>>

\* Locators and entries point at each other; older locators are behind the ids in use.
Located ==
  /\ \A h \in Holders, p \in Parities : locator[h][p].batch <= open
  /\ \A h \in Holders, id \in InUse : locator[h][id % 2].batch = id =>
       /\ locator[h][id % 2].index \in DOMAIN queue[id % 2]
       /\ queue[id % 2][locator[h][id % 2].index].owner = h
  /\ \A id \in InUse : \A i \in DOMAIN queue[id % 2] :
       locator[queue[id % 2][i].owner][id % 2] = [batch |-> id, index |-> i]

\* What is reserved, batch by batch, while the game lives.
Reserves ==
  /\ ReserveBacksPending
  /\ ~Over /\ settling # 0 /\ batch[Lane].roll = 0 => pending = batch[Lane].payout
  /\ phase = "live" /\ settling # 0 /\ batch[Lane].roll # 0 => pending = left

Finite == IsFiniteSet(Units(balance)) /\ IsFiniteSet(Units(OpenEntries))

Inv == /\ TypeOK /\ Lanes /\ Located /\ Finite
       /\ Reserves /\ EscrowIsTheOpenBatch /\ SupplyBounded /\ PaidExactlyOnce

------------------------------------------------------------------------------
(* Helpers.                                                                 *)

\* Consecutive ids use different lanes, ids two apart the same.
LEMMA ParityFacts ==
  ASSUME NEW n \in Nat
  PROVE  /\ n % 2 \in Parities /\ (n + 1) % 2 \in Parities /\ (n + 2) % 2 = n % 2
         /\ n % 2 # (n + 1) % 2
         /\ \A p \in Parities : p = n % 2 \/ p = (n + 1) % 2
  BY DEF Parities

\* A share of a natural number is one.
LEMMA DivType ==
  ASSUME NEW m \in Nat, NEW n \in Nat, NEW d \in Nat \ {0}
  PROVE  m * n \in Nat /\ (m * n) \div d \in Nat /\ m \div d \in Nat
<1>1. m * n \in Nat
  OBVIOUS
<1>2. ASSUME NEW k \in Nat PROVE k \div d \in Nat
  OBVIOUS
<1> QED BY <1>1, <1>2

\* At most all of it, when the share is at most the whole.
LEMMA DivBound ==
  ASSUME NEW m \in Nat, NEW p \in 0..100
  PROVE  (m * p) \div 100 \in 0..m
<1>1. (100 - p) * m >= 0
  OBVIOUS
<1>2. m * p <= m * 100 /\ m * p \in Nat
  BY <1>1
<1>3. ASSUME NEW k \in Nat, k <= m * 100 PROVE k \div 100 \in 0..m
  BY <1>3
<1> QED BY <1>2, <1>3

\* A minimum is below both; a floored difference is a natural number.
LEMMA LeastType ==
  ASSUME NEW a \in Nat, NEW b \in Nat
  PROVE  /\ Least(a, b) \in Nat /\ Least(a, b) <= a /\ Least(a, b) <= b
         /\ Above(a, b) \in Nat /\ Above(a, b) <= a
  BY DEF Least, Above

------------------------------------------------------------------------------
(* Token movements.                                                         *)

\* A burn leaves the supply the sum of the balances.
LEMMA DestroySum ==
  ASSUME balance \in [Accounts -> Nat], IsFiniteSet(Units(balance)), supply = Total(balance),
         NEW a \in Accounts, NEW n \in Nat, n <= balance[a], Destroy(a, n)
  PROVE  /\ balance' \in [Accounts -> Nat] /\ IsFiniteSet(Units(balance'))
         /\ supply' = Total(balance') /\ supply' \in Nat /\ supply' = supply - n /\ n <= supply
<1>1. balance[a] - n \in Nat /\ balance[a] \in Nat
  OBVIOUS
<1>2. balance' = [balance EXCEPT ![a] = balance[a] - n] /\ supply' = supply - n
  BY DEF Destroy
<1>3. balance' \in [Accounts -> Nat] /\ balance'[a] = balance[a] - n
  BY <1>1, <1>2
<1>4. DOMAIN balance' = DOMAIN balance /\ \A b \in DOMAIN balance \ {a} : balance'[b] = balance[b]
  BY <1>2
<1>5. IsFiniteSet(Units(balance')) /\ Total(balance') = Total(balance) - balance[a] + balance'[a]
  BY <1>1, <1>3, <1>4, TotalUpdate
<1>6. Total(balance) \in Nat /\ balance[a] <= Total(balance)
  BY <1>1, TotalBounds
<1> QED BY <1>1, <1>2, <1>3, <1>5, <1>6

\* A mint adds to both.
Mint(a, n) == balance' = [balance EXCEPT ![a] = @ + n] /\ supply' = supply + n

\* A mint leaves the supply the sum of the balances.
LEMMA MintSum ==
  ASSUME balance \in [Accounts -> Nat], IsFiniteSet(Units(balance)), supply = Total(balance),
         NEW a \in Accounts, NEW n \in Nat, Mint(a, n)
  PROVE  /\ balance' \in [Accounts -> Nat] /\ IsFiniteSet(Units(balance'))
         /\ supply' = Total(balance') /\ supply' \in Nat
<1>1. balance[a] + n \in Nat /\ balance[a] \in Nat
  OBVIOUS
<1>3. balance' \in [Accounts -> Nat] /\ balance'[a] = balance[a] + n
  BY <1>1 DEF Mint
<1>4. DOMAIN balance' = DOMAIN balance /\ \A b \in DOMAIN balance \ {a} : balance'[b] = balance[b]
  BY DEF Mint
<1>5. IsFiniteSet(Units(balance')) /\ Total(balance') = Total(balance) - balance[a] + balance'[a]
  BY <1>1, <1>3, <1>4, TotalUpdate
<1>6. Total(balance) \in Nat
  BY TotalBounds
<1> QED BY <1>1, <1>3, <1>5, <1>6 DEF Mint

\* A transfer keeps the sum.
LEMMA MoveSum ==
  ASSUME balance \in [Accounts -> Nat], IsFiniteSet(Units(balance)),
         NEW a \in Accounts, NEW b \in Accounts \ {a}, NEW n \in Nat, n <= balance[a], Move(a, b, n)
  PROVE  /\ balance' \in [Accounts -> Nat] /\ IsFiniteSet(Units(balance'))
         /\ Total(balance') = Total(balance)
<1> DEFINE x == balance[a] - n
           y == balance[b] + n
           mid == [balance EXCEPT ![a] = x]
<1>1. x \in Nat /\ y \in Nat /\ balance[a] \in Nat /\ balance[b] \in Nat
  OBVIOUS
<1>2. balance' = [mid EXCEPT ![b] = y]
  BY DEF Move
<1> HIDE DEF x, y
<1>3. mid \in [Accounts -> Nat] /\ mid[a] = x /\ mid[b] = balance[b]
  BY <1>1
<1>4. DOMAIN mid = DOMAIN balance /\ \A c \in DOMAIN balance \ {a} : mid[c] = balance[c]
  OBVIOUS
<1> HIDE DEF mid
<1>5. IsFiniteSet(Units(mid)) /\ Total(mid) = Total(balance) - balance[a] + x
  BY <1>1, <1>3, <1>4, TotalUpdate
<1>6. balance' \in [Accounts -> Nat] /\ balance'[b] = y
  BY <1>1, <1>2, <1>3
<1>7. DOMAIN balance' = DOMAIN mid /\ \A c \in DOMAIN mid \ {b} : balance'[c] = mid[c]
  BY <1>2
<1>8. IsFiniteSet(Units(balance')) /\ Total(balance') = Total(mid) - mid[b] + y
  BY <1>1, <1>3, <1>5, <1>6, <1>7, TotalUpdate
<1>9. Total(balance) \in Nat
  BY TotalBounds
<1> QED BY <1>1, <1>3, <1>5, <1>6, <1>8, <1>9 DEF x, y

------------------------------------------------------------------------------
(* What a step leaves alone stays true.                                     *)

ClaimsInv == Lanes /\ Located /\ EscrowIsTheOpenBatch /\ PaidExactlyOnce /\ IsFiniteSet(Units(OpenEntries))
ClaimsType ==
  /\ escrowed \in Nat /\ open \in Nat \ {0} /\ settling \in Nat /\ cursor \in Nat
  /\ batch \in [Parities -> BatchType] /\ queue \in [Parities -> Seq(EntryType)]
  /\ locator \in [Holders -> [Parities -> [batch : Nat, index : Nat]]] /\ due \in [Holders -> Nat]
MoneyType == /\ claimable \in Nat /\ reserve \in Nat /\ custody \in Nat /\ pending \in Nat
             /\ left \in Nat /\ short \in Nat
TokensInv == /\ supply \in Nat /\ balance \in [Accounts -> Nat] /\ checkpoint \in Nat
             /\ IsFiniteSet(Units(balance)) /\ SupplyBounded

\* The invariant by the groups of variables its parts read.
LEMMA InvParts ==
  /\ Inv <=> /\ phase \in Phases /\ ClaimsType /\ MoneyType /\ TokensInv /\ ClaimsInv /\ Reserves
  /\ Inv' <=> /\ phase' \in Phases /\ ClaimsType' /\ MoneyType' /\ TokensInv' /\ ClaimsInv' /\ Reserves'
  BY DEF Inv, TypeOK, ClaimsType, MoneyType, TokensInv, ClaimsInv, Finite

\* A step that writes no claim keeps what is said of claims.
LEMMA KeepClaims ==
  ASSUME ClaimsType, ClaimsInv, UNCHANGED <<claims, open, settling, cursor, escrowed, due>>
  PROVE  ClaimsType' /\ ClaimsInv'
<1>1. ClaimsType'
  BY DEF ClaimsType, claims
<1>2. Lanes' /\ Located'
  BY DEF ClaimsInv, claims, Lanes, Located, Lane, InUse
<1>3. EscrowIsTheOpenBatch' /\ IsFiniteSet(Units(OpenEntries))'
  BY DEF ClaimsInv, claims, EscrowIsTheOpenBatch, OpenTokens, OpenEntries, Units, Total
<1>4. PaidExactlyOnce'
  BY DEF ClaimsInv, claims, PaidExactlyOnce, Claim, Live, Entry
<1> QED BY <1>1, <1>2, <1>3, <1>4 DEF ClaimsInv

\* A step that writes no reservation keeps what is said of reservations.
LEMMA KeepReserves ==
  ASSUME Reserves, UNCHANGED <<phase, reserve, pending, settling, left, batch>>
  PROVE  Reserves'
  BY DEF Reserves, ReserveBacksPending, Over, Lane

\* A step that moves no token and escrows none keeps the supply bound.
LEMMA KeepTokens ==
  ASSUME TokensInv, UNCHANGED tokens, escrowed' \in Nat, escrowed' <= escrowed, escrowed \in Nat
  PROVE  TokensInv'
<1>1. UNCHANGED <<supply, balance, checkpoint>>
  BY DEF tokens
<1>2. supply + escrowed' <= checkpoint
  BY DEF TokensInv, SupplyBounded
<1> QED BY <1>1, <1>2 DEF TokensInv, SupplyBounded, Units, Total

------------------------------------------------------------------------------
(* Steps that only move tokens.                                             *)

\* The token-only actions owe only the token part.
LEMMA KeepAllButTokens ==
  ASSUME Inv, TokensOnly, TokensInv'
  PROVE  Inv'
<1> USE InvParts
<1>1. UNCHANGED <<phase, money, pending, escrowed, open, settling, cursor, left, claims, due, short>>
  BY DEF TokensOnly
<1>2. ClaimsType' /\ ClaimsInv'
  BY <1>1, KeepClaims
<1>3. MoneyType' /\ phase' \in Phases
  BY <1>1 DEF MoneyType, money
<1>4. Reserves'
  BY <1>1, KeepReserves DEF money, claims
<1> QED BY <1>2, <1>3, <1>4

\* Holders, the wrapper and the pools are distinct accounts.
LEMMA AccountTypes ==
  /\ Pools \in Accounts /\ Wrapper \in Accounts /\ Pools # Wrapper
  /\ \A h \in Holders : h \in Accounts /\ h # Pools /\ h # Wrapper
  BY RedemptionAssumption DEF Accounts

\* transferFromPool, to a holder or to sDGNRS itself.
LEMMA AwardInv ==
  ASSUME Inv, NEW n \in Amounts, NEW to \in Holders \union {Pools}, Award(to, n)
  PROVE  Inv'
<1> DEFINE paid == Least(n, balance[Pools])
<1>1. TokensInv /\ n \in Nat /\ balance[Pools] \in Nat /\ escrowed \in Nat
  BY InvParts, RedemptionAssumption, AccountTypes DEF TokensInv, ClaimsType
<1>2. paid \in Nat /\ paid <= balance[Pools]
  BY <1>1, LeastType
<1>3. UNCHANGED <<checkpoint, escrowed>>
  BY DEF Award, TokensOnly
<1> HIDE DEF paid
<1>4. CASE to = Pools
  <2>1. Destroy(Pools, paid)
    BY <1>4 DEF Award, paid
  <2>2. /\ balance' \in [Accounts -> Nat] /\ IsFiniteSet(Units(balance'))
        /\ supply' = Total(balance') /\ supply' \in Nat /\ supply' = supply - paid
    BY <1>1, <1>2, <2>1, DestroySum, AccountTypes DEF TokensInv, SupplyBounded
  <2>3. supply' + escrowed <= checkpoint
    BY <1>1, <1>2, <2>2 DEF TokensInv, SupplyBounded
  <2>4. TokensInv'
    BY <1>1, <1>3, <2>2, <2>3 DEF TokensInv, SupplyBounded, Total
  <2> QED BY <2>4, KeepAllButTokens DEF Award
<1>5. CASE to \in Holders
  <2>1. Move(Pools, to, paid) /\ supply' = supply
    BY <1>5, AccountTypes DEF Award, paid
  <2>2. /\ balance' \in [Accounts -> Nat] /\ IsFiniteSet(Units(balance'))
        /\ Total(balance') = Total(balance)
    BY <1>1, <1>2, <1>5, <2>1, MoveSum, AccountTypes DEF TokensInv
  <2>3. TokensInv'
    BY <1>1, <1>3, <2>1, <2>2 DEF TokensInv, SupplyBounded, Total
  <2> QED BY <2>3, KeepAllButTokens DEF Award
<1> QED BY <1>4, <1>5

\* wrapperTransferTo.
LEMMA UnwrapInv ==
  ASSUME Inv, NEW n \in Amounts, NEW h \in Holders, Unwrap(h, n)
  PROVE  Inv'
<1>1. TokensInv /\ n \in Nat /\ n <= balance[Wrapper] /\ Move(Wrapper, h, n)
  BY InvParts, RedemptionAssumption DEF Unwrap
<1>2. UNCHANGED <<supply, checkpoint, escrowed>>
  BY DEF Unwrap, TokensOnly
<1>3. /\ balance' \in [Accounts -> Nat] /\ IsFiniteSet(Units(balance'))
      /\ Total(balance') = Total(balance)
  BY <1>1, MoveSum, AccountTypes DEF TokensInv
<1>4. TokensInv'
  BY <1>1, <1>2, <1>3 DEF TokensInv, SupplyBounded, Total
<1> QED BY <1>4, KeepAllButTokens DEF Unwrap

\* A burn that reaches no claim: the base falls with the supply.
LEMMA DestroyTokens ==
  ASSUME TokensInv, escrowed \in Nat, NEW a \in Accounts, NEW n \in Nat, n <= balance[a],
         Destroy(a, n), UNCHANGED <<checkpoint, escrowed>>
  PROVE  TokensInv' /\ n <= supply /\ supply' = supply - n
<1>1. /\ balance' \in [Accounts -> Nat] /\ IsFiniteSet(Units(balance'))
      /\ supply' = Total(balance') /\ supply' \in Nat /\ supply' = supply - n /\ n <= supply
  BY DestroySum DEF TokensInv, SupplyBounded
<1>2. supply' + escrowed <= checkpoint
  BY <1>1 DEF TokensInv, SupplyBounded
<1> QED BY <1>1, <1>2 DEF TokensInv, SupplyBounded, Total

\* burnForLiquidation.
LEMMA BurnForLiquidationInv ==
  ASSUME Inv, NEW h \in Holders, BurnForLiquidation(h)
  PROVE  Inv'
<1>1. TokensInv /\ escrowed \in Nat /\ balance[h] \in Nat /\ h \in Accounts
  BY InvParts, AccountTypes DEF TokensInv, ClaimsType
<1>2. Destroy(h, balance[h]) /\ UNCHANGED <<checkpoint, escrowed>>
  BY DEF BurnForLiquidation, TokensOnly
<1>3. TokensInv'
  BY <1>1, <1>2, DestroyTokens
<1> QED BY <1>3, KeepAllButTokens DEF BurnForLiquidation

\* recycleCentury: at most what was burned since the last century returns.
LEMMA RecycleCenturyInv ==
  ASSUME Inv, RecycleCentury
  PROVE  Inv'
<1>1. TokensInv /\ escrowed \in Nat /\ supply \in Nat /\ checkpoint \in Nat
  BY InvParts DEF TokensInv, ClaimsType
<1>2. PICK percent \in Percents :
        LET minted == (Burned * percent) \div 100
        IN /\ balance' = [balance EXCEPT ![Pools] = @ + minted]
           /\ supply' = supply + minted /\ checkpoint' = HolderBase + minted
  BY DEF RecycleCentury
<1> DEFINE burned == Burned
           minted == (burned * percent) \div 100
<1>3. burned \in Nat /\ HolderBase \in Nat
  BY <1>1 DEF TokensInv, SupplyBounded, HolderBase, Burned
<1>4. percent \in 0..100
  BY RedemptionAssumption
<1>5. minted \in 0..burned
  BY <1>3, <1>4, DivBound
<1>6. Mint(Pools, minted) /\ checkpoint' = HolderBase + minted
  BY <1>2 DEF Mint
<1>7. UNCHANGED escrowed
  BY DEF RecycleCentury, TokensOnly
<1> HIDE DEF minted
<1>8. /\ balance' \in [Accounts -> Nat] /\ IsFiniteSet(Units(balance'))
      /\ supply' = Total(balance') /\ supply' \in Nat
  BY <1>1, <1>3, <1>5, <1>6, MintSum, AccountTypes DEF TokensInv, SupplyBounded
<1>9. supply' = supply + minted
  BY <1>6 DEF Mint
<1>10. supply' + escrowed' <= checkpoint' /\ checkpoint' \in Nat
       /\ checkpoint' <= WrapperShare + PoolShare
  BY <1>1, <1>3, <1>5, <1>6, <1>7, <1>9, RedemptionAssumption DEF TokensInv, SupplyBounded, HolderBase, Burned
<1>11. TokensInv'
  BY <1>8, <1>10 DEF TokensInv, SupplyBounded, Total
<1> QED BY <1>11, KeepAllButTokens DEF RecycleCentury

------------------------------------------------------------------------------
(* Steps that only move ETH.                                                *)

\* A step that moves only ETH keeps tokens and claims.
LEMMA KeepEscrow ==
  ASSUME Inv, UNCHANGED <<tokens, claims, open, settling, cursor, escrowed, due>>
  PROVE  TokensInv' /\ ClaimsType' /\ ClaimsInv'
<1>1. escrowed \in Nat /\ escrowed' = escrowed
  BY InvParts DEF ClaimsType
<1>2. TokensInv'
  BY <1>1, InvParts, KeepTokens
<1> QED BY <1>2, InvParts, KeepClaims

\* The Game-side credits and spends, an empty request, the trigger and the sweep.
LEMMA MoneyStep ==
  ASSUME Inv, \/ \E g \in Gains : Earn(g) \/ Spend(g)
              \/ RequestEmpty \/ TriggerEnding \/ FinalSweep
  PROVE  Inv'
<1>1. MoneyType /\ Reserves /\ phase \in Phases
  BY InvParts
<1>2. UNCHANGED <<tokens, claims, open, settling, cursor, escrowed, due>>
  BY DEF Earn, Spend, RequestEmpty, TriggerEnding, FinalSweep
<1>3. TokensInv' /\ ClaimsType' /\ ClaimsInv'
  BY <1>2, KeepEscrow
<1>4. UNCHANGED <<settling, batch>>
  BY <1>2 DEF claims
<1>5. ASSUME NEW g \in Gains, Earn(g) \/ Spend(g) PROVE Inv'
  <2>1. UNCHANGED <<phase, reserve, custody, pending, left, short>>
    BY <1>5 DEF Earn, Spend
  <2>2. claimable' \in Nat
    BY <1>1, <1>5, RedemptionAssumption DEF Earn, Spend, MoneyType
  <2>3. MoneyType' /\ phase' \in Phases
    BY <1>1, <2>1, <2>2 DEF MoneyType
  <2>4. Reserves'
    BY <1>1, <1>4, <2>1, KeepReserves
  <2> QED BY <1>3, <2>3, <2>4, InvParts
<1>6. CASE RequestEmpty
  <2>1. UNCHANGED <<phase, custody, pending, left, short>> /\ phase = "live" /\ settling = 0
    BY <1>6 DEF RequestEmpty
  <2>2. claimable' = claimable + reserve /\ reserve' = 0
    BY <1>6 DEF RequestEmpty, Released
  <2>3. MoneyType' /\ phase' \in Phases
    BY <1>1, <2>1, <2>2 DEF MoneyType
  <2>4. pending = 0
    BY <1>1, <2>1 DEF Reserves, ReserveBacksPending, Over
  <2>5. Reserves'
    BY <1>1, <1>4, <2>1, <2>2, <2>4 DEF Reserves, ReserveBacksPending
  <2> QED BY <1>3, <2>3, <2>5, InvParts
<1>7. CASE TriggerEnding
  <2>1. UNCHANGED <<claimable, reserve, custody, pending, left, short>>
        /\ phase = "live" /\ phase' = "ending"
    BY <1>7 DEF TriggerEnding, money
  <2>2. MoneyType' /\ phase' \in Phases
    BY <1>1, <2>1 DEF MoneyType, Phases
  <2>3. Reserves'
    BY <1>1, <1>4, <2>1 DEF Reserves, ReserveBacksPending, Over, Lane
  <2> QED BY <1>3, <2>2, <2>3, InvParts
<1>8. CASE FinalSweep
  <2>1. PICK lost \in 0..2, third \in Gains \union {0} :
          custody' = custody + Above(Winnings, lost) + third
    BY <1>8 DEF FinalSweep
  <2>2. phase' = "swept" /\ claimable' = 0 /\ reserve' = 0 /\ UNCHANGED <<pending, left, short>>
    BY <1>8 DEF FinalSweep
  <2>3. Winnings \in Nat
    BY <1>1, LeastType DEF Winnings, MoneyType
  <2>4. Above(Winnings, lost) \in Nat /\ third \in Nat
    <3>1. lost \in Nat
      OBVIOUS
    <3>2. third \in Nat
      BY RedemptionAssumption
    <3> QED BY <2>3, <3>1, <3>2, LeastType
  <2>5. custody' \in Nat
    BY <1>1, <2>1, <2>4 DEF MoneyType
  <2>6. MoneyType' /\ phase' \in Phases
    BY <1>1, <2>2, <2>5 DEF MoneyType, Phases
  <2>7. Reserves'
    BY <2>2 DEF Reserves, ReserveBacksPending, Over
  <2> QED BY <1>3, <2>6, <2>7, InvParts
<1> QED BY <1>5, <1>6, <1>7, <1>8

------------------------------------------------------------------------------
(* Rolling the settling batch.                                              *)

\* The settling batch is never on the open lane.
LEMMA LaneFacts ==
  ASSUME ClaimsType, Lanes
  PROVE  /\ open % 2 \in Parities /\ Lane \in Parities
         /\ settling # 0 => Lane # open % 2 /\ Lane = (open + 1) % 2 /\ settling < open
<1>1. open \in Nat /\ settling \in Nat
  BY DEF ClaimsType
<1>2. open % 2 \in Parities /\ Lane \in Parities
  BY <1>1, ParityFacts DEF Lane
<1>3. ASSUME settling # 0 PROVE Lane # open % 2 /\ Lane = (open + 1) % 2 /\ settling < open
  <2>1. open = settling + 1
    BY <1>3 DEF Lanes
  <2>2. open + 1 = settling + 2
    BY <1>1, <2>1
  <2> QED BY <1>1, <2>1, <2>2, ParityFacts DEF Lane
<1> QED BY <1>2, <1>3

\* Rolling touches the payout and the roll of one lane.
LEMMA BatchRolled ==
  ASSUME batch \in [Parities -> BatchType], NEW p \in Parities, NEW r \in Nat, NEW roll \in 0..MAX_ROLL,
         batch' = [batch EXCEPT ![p].payout = r, ![p].roll = roll]
  PROVE  /\ batch' \in [Parities -> BatchType]
         /\ batch'[p].payout = r /\ batch'[p].roll = roll
         /\ batch'[p].id = batch[p].id /\ batch'[p].tokens = batch[p].tokens
         /\ \A q \in Parities \ {p} : batch'[q] = batch[q]
<1> DEFINE b == [batch[p] EXCEPT !.payout = r, !.roll = roll]
<1>1. batch[p] \in BatchType
  OBVIOUS
<1>2. b \in BatchType /\ b.payout = r /\ b.roll = roll /\ b.id = batch[p].id /\ b.tokens = batch[p].tokens
  BY <1>1 DEF BatchType
<1>3. batch' = [batch EXCEPT ![p] = b]
  BY <1>1 DEF BatchType
<1> HIDE DEF b
<1> QED BY <1>2, <1>3

\* A rolled payout never exceeds what the close reserved.
LEMMA RolledType ==
  ASSUME ClaimsType, Lanes, NEW roll \in 0..MAX_ROLL
  PROVE  Rolled(roll) \in Nat /\ Rolled(roll) <= batch[Lane].payout
<1>1. batch[Lane].base \in Nat /\ batch[Lane].payout \in Nat
  BY LaneFacts DEF ClaimsType, BatchType
<1>2. (batch[Lane].base * roll) \div 100 \in Nat
  BY <1>1, DivType DEF MAX_ROLL
<1> QED BY <1>1, <1>2, LeastType DEF Rolled

\* Rolling a batch leaves every claim as it was.
LEMMA ResolveClaims ==
  ASSUME ClaimsType, ClaimsInv, settling # 0, NEW roll \in 0..MAX_ROLL, ResolveBatch(roll),
         UNCHANGED <<open, settling, cursor, escrowed, queue, locator, due>>
  PROVE  /\ ClaimsType' /\ ClaimsInv'
         /\ batch'[Lane].payout = Rolled(roll) /\ batch'[Lane].roll = roll
<1>0. Lanes
  BY DEF ClaimsInv
<1>1. batch' = [batch EXCEPT ![Lane].payout = Rolled(roll), ![Lane].roll = roll]
  BY DEF ResolveBatch
<1>2. Rolled(roll) \in Nat /\ Lane \in Parities /\ open % 2 \in Parities /\ Lane # open % 2
  BY <1>0, RolledType, LaneFacts
<1>3. /\ batch' \in [Parities -> BatchType]
      /\ batch'[Lane].payout = Rolled(roll) /\ batch'[Lane].roll = roll
      /\ batch'[Lane].id = batch[Lane].id /\ batch'[Lane].tokens = batch[Lane].tokens
      /\ \A q \in Parities \ {Lane} : batch'[q] = batch[q]
  BY <1>1, <1>2, BatchRolled DEF ClaimsType
<1>4. ClaimsType'
  BY <1>3 DEF ClaimsType
<1>5. batch'[open % 2] = batch[open % 2] /\ \A p \in Parities : batch'[p].id = batch[p].id
  BY <1>2, <1>3
<1>6. Lanes'
  BY <1>0, <1>3, <1>5 DEF Lanes, Lane
<1>7. Located' /\ PaidExactlyOnce'
  BY DEF ClaimsInv, Located, InUse, PaidExactlyOnce, Claim, Live, Entry
<1>8. EscrowIsTheOpenBatch' /\ IsFiniteSet(Units(OpenEntries))'
  BY <1>5 DEF ClaimsInv, EscrowIsTheOpenBatch, OpenTokens, OpenEntries, Units, Total
<1> QED BY <1>3, <1>4, <1>6, <1>7, <1>8 DEF ClaimsInv

\* Rolling only ever lowers what is pending.
LEMMA PendingType ==
  ASSUME ClaimsType, Lanes, MoneyType, NEW roll \in 0..MAX_ROLL, ResolveBatch(roll)
  PROVE  pending' \in Nat /\ (pending = batch[Lane].payout => pending' = Rolled(roll) /\ pending' <= pending)
<1>1. Rolled(roll) \in Nat /\ Rolled(roll) <= batch[Lane].payout /\ batch[Lane].payout \in Nat
  BY RolledType, LaneFacts DEF ClaimsType, BatchType
<1>2. pending' = Above(pending, batch[Lane].payout) + Rolled(roll) /\ pending \in Nat
  BY DEF ResolveBatch, MoneyType
<1> QED BY <1>1, <1>2 DEF Above

\* The first settlement call of a batch.
LEMMA ResolveLiveInv ==
  ASSUME Inv, ResolveLive
  PROVE  Inv'
<1>1. ClaimsType /\ ClaimsInv /\ Lanes /\ MoneyType /\ Reserves
  BY InvParts DEF ClaimsInv
<1>2. PICK roll \in Rolls : ResolveBatch(roll) /\ left' = Rolled(roll)
  BY DEF ResolveLive
<1>3. roll \in 0..MAX_ROLL /\ roll # 0
  BY RedemptionAssumption DEF MAX_ROLL
<1>4. /\ UNCHANGED <<phase, claimable, reserve, custody, tokens, escrowed, open, settling, cursor,
                     queue, locator, due, short>>
      /\ phase = "live" /\ settling # 0 /\ batch[Lane].roll = 0
  BY DEF ResolveLive, money
<1>5. ClaimsType' /\ ClaimsInv' /\ batch'[Lane].payout = Rolled(roll) /\ batch'[Lane].roll = roll
  BY <1>1, <1>2, <1>3, <1>4, ResolveClaims
<1>6. pending = batch[Lane].payout /\ reserve >= pending
  BY <1>1, <1>4 DEF Reserves, ReserveBacksPending, Over
<1>7. pending' \in Nat /\ pending' = Rolled(roll) /\ pending' <= pending
  BY <1>1, <1>2, <1>3, <1>6, PendingType
<1>8. MoneyType' /\ phase' \in Phases
  BY <1>1, <1>2, <1>4, <1>7 DEF MoneyType, Phases
<1>9. Reserves'
  <2>1. reserve' >= pending'
    BY <1>1, <1>4, <1>6, <1>7 DEF MoneyType
  <2> QED BY <2>1, <1>2, <1>3, <1>4, <1>5, <1>7 DEF Reserves, ReserveBacksPending, Lane
<1>10. TokensInv'
  BY <1>1, <1>4, InvParts, KeepTokens DEF ClaimsType
<1> QED BY <1>5, <1>8, <1>9, <1>10, InvParts

\* The ending's flat roll, on a batch no word rolled.
LEMMA ResolveTerminalClaims ==
  ASSUME Inv, ~Over, ResolveTerminal, UNCHANGED <<open, settling, cursor, escrowed, queue, locator, due>>
  PROVE  /\ ClaimsType' /\ ClaimsInv' /\ pending' \in Nat /\ pending' <= pending
         /\ settling = 0 => pending' = pending
         /\ settling # 0 => batch'[Lane].roll # 0
<1>1. ClaimsType /\ ClaimsInv /\ Lanes /\ MoneyType /\ Reserves /\ pending \in Nat
  BY InvParts DEF ClaimsInv, MoneyType
<1>2. CASE settling # 0 /\ batch[Lane].roll = 0
  <2>1. ResolveBatch(ENDING_ROLL) /\ ENDING_ROLL \in 0..MAX_ROLL /\ ENDING_ROLL # 0
    BY <1>2 DEF ResolveTerminal, ENDING_ROLL, MAX_ROLL
  <2>2. ClaimsType' /\ ClaimsInv' /\ batch'[Lane].roll = ENDING_ROLL
    BY <1>1, <1>2, <2>1, ResolveClaims
  <2>3. pending = batch[Lane].payout
    BY <1>1, <1>2 DEF Reserves
  <2>4. pending' \in Nat /\ pending' <= pending
    BY <1>1, <2>1, <2>3, PendingType
  <2> QED BY <1>2, <2>1, <2>2, <2>4
<1>3. CASE ~(settling # 0 /\ batch[Lane].roll = 0)
  <2>1. UNCHANGED <<pending, batch>>
    BY <1>3 DEF ResolveTerminal
  <2>2. ClaimsType' /\ ClaimsInv'
    BY <1>1, <2>1, KeepClaims DEF claims
  <2> QED BY <1>1, <1>3, <2>1, <2>2
<1> QED BY <1>2, <1>3

\* The terminal word and game over.
LEMMA EndingInv ==
  ASSUME Inv, ApplyTerminalWord \/ GameOver
  PROVE  Inv'
<1>1. MoneyType /\ Reserves /\ ClaimsType /\ ClaimsInv /\ TokensInv
  BY InvParts
<1>2. /\ UNCHANGED <<claimable, reserve, custody, escrowed, open, settling, cursor, left, queue, locator, due, short>>
      /\ phase \in {"ending", "worded"} /\ ~Over
  BY DEF ApplyTerminalWord, GameOver, money, Over
<1>3. CASE ApplyTerminalWord
  <2>1. ResolveTerminal /\ UNCHANGED tokens /\ phase' = "worded"
    BY <1>3 DEF ApplyTerminalWord
  <2>2. /\ ClaimsType' /\ ClaimsInv' /\ pending' \in Nat /\ pending' <= pending
        /\ settling = 0 => pending' = pending
        /\ settling # 0 => batch'[Lane].roll # 0
    BY <1>2, <2>1, ResolveTerminalClaims
  <2>3. TokensInv'
    BY <1>1, <1>2, <2>1, KeepTokens DEF ClaimsType
  <2>4. MoneyType' /\ phase' \in Phases
    BY <1>1, <1>2, <2>1, <2>2 DEF MoneyType, Phases
  <2>5. reserve' >= pending'
    BY <1>1, <1>2, <2>2 DEF MoneyType, Reserves, ReserveBacksPending
  <2>6. settling' = 0 => pending' = 0
    BY <1>1, <1>2, <2>2 DEF Reserves, ReserveBacksPending
  <2>7. Reserves'
    BY <1>2, <2>1, <2>2, <2>5, <2>6 DEF Reserves, ReserveBacksPending, Lane
  <2> QED BY <2>2, <2>3, <2>4, <2>7, InvParts
<1>4. CASE GameOver
  <2>1. /\ phase' = "over" /\ Destroy(Pools, balance[Pools]) /\ UNCHANGED checkpoint
        /\ ResolveTerminal \/ UNCHANGED <<pending, batch>>
    BY <1>4 DEF GameOver
  <2>2. ClaimsType' /\ ClaimsInv' /\ pending' \in Nat
    <3>1. CASE ResolveTerminal
      BY <1>2, <3>1, ResolveTerminalClaims
    <3>2. CASE UNCHANGED <<pending, batch>>
      BY <1>1, <1>2, <3>2, KeepClaims DEF claims, MoneyType
    <3> QED BY <2>1, <3>1, <3>2
  <2>3. TokensInv'
    <3>1. balance[Pools] \in Nat /\ Pools \in Accounts /\ escrowed \in Nat
      BY <1>1, AccountTypes DEF TokensInv, ClaimsType
    <3> QED BY <1>1, <1>2, <2>1, <3>1, DestroyTokens
  <2>4. MoneyType' /\ phase' \in Phases
    BY <1>1, <1>2, <2>1, <2>2 DEF MoneyType, Phases
  <2>5. Reserves'
    BY <2>1 DEF Reserves, ReserveBacksPending, Over
  <2> QED BY <2>2, <2>3, <2>4, <2>5, InvParts
<1> QED BY <1>3, <1>4

------------------------------------------------------------------------------
(* Closing the open batch.                                                  *)

\* Entries name holders and amounts.
LEMMA QueueTypes ==
  ASSUME ClaimsType, NEW p \in Parities
  PROVE  /\ Len(queue[p]) \in Nat /\ DOMAIN queue[p] = 1..Len(queue[p])
         /\ \A i \in DOMAIN queue[p] : /\ queue[p][i] \in EntryType
                                       /\ queue[p][i].tokens \in Nat /\ queue[p][i].owner \in Holders
<1>1. queue[p] \in Seq(EntryType)
  BY DEF ClaimsType
<1>2. \A i \in DOMAIN queue[p] : queue[p][i] \in EntryType
  BY <1>1
<1> QED BY <1>1, <1>2 DEF EntryType

\* A current locator names an entry of its holder.
LEMMA EntryFacts ==
  ASSUME ClaimsType, Located, NEW id \in InUse, NEW h \in Holders, locator[h][id % 2].batch = id
  PROVE  /\ locator[h][id % 2].index \in 1..Len(queue[id % 2]) /\ Entry(h, id) \in Nat
         /\ queue[id % 2][locator[h][id % 2].index].owner = h
<1>1. id % 2 \in Parities
  BY ParityFacts DEF ClaimsType, InUse
<1>2. /\ locator[h][id % 2].index \in DOMAIN queue[id % 2]
      /\ queue[id % 2][locator[h][id % 2].index].owner = h
  BY DEF Located
<1> QED BY <1>1, <1>2, QueueTypes DEF Entry

\* What can be claimed is an amount.
LEMMA ClaimType ==
  ASSUME ClaimsType, Located, NEW h \in Holders
  PROVE  Claim(h, open) \in Nat /\ Claim(h, settling) \in Nat
<1>1. ASSUME NEW id \in {open, settling} PROVE Claim(h, id) \in Nat
  <2>1. CASE Live(h, id)
    <3>1. id \in InUse /\ locator[h][id % 2].batch = id
      BY <2>1 DEF Live, InUse
    <3> QED BY <2>1, <3>1, EntryFacts DEF Claim
  <2>2. CASE ~Live(h, id)
    BY <2>2 DEF Claim
  <2> QED BY <2>1, <2>2
<1> QED BY <1>1

ClosedBatch(base, payout) ==
  /\ batch' = [batch EXCEPT ![open % 2].payout = payout, ![open % 2].base = base]
  /\ escrowed' = escrowed - OpenTokens
  /\ settling' = open /\ open' = open + 1
  /\ UNCHANGED <<cursor, queue, locator, due>>

\* Closing a batch touches what one lane is owed.
LEMMA BatchClosed ==
  ASSUME batch \in [Parities -> BatchType], NEW p \in Parities, NEW x \in Nat, NEW y \in Nat,
         batch' = [batch EXCEPT ![p].payout = x, ![p].base = y]
  PROVE  /\ batch' \in [Parities -> BatchType]
         /\ batch'[p].payout = x /\ batch'[p].roll = batch[p].roll
         /\ batch'[p].id = batch[p].id /\ batch'[p].tokens = batch[p].tokens
         /\ \A q \in Parities \ {p} : batch'[q] = batch[q]
<1> DEFINE b == [batch[p] EXCEPT !.payout = x, !.base = y]
<1>1. batch[p] \in BatchType
  OBVIOUS
<1>2. b \in BatchType /\ b.payout = x /\ b.roll = batch[p].roll /\ b.id = batch[p].id /\ b.tokens = batch[p].tokens
  BY <1>1 DEF BatchType
<1>3. batch' = [batch EXCEPT ![p] = b]
  BY <1>1 DEF BatchType
<1> HIDE DEF b
<1> QED BY <1>2, <1>3

\* The closed batch becomes the settling one with every claim unpaid; the next lane starts empty.
LEMMA ClosedClaims ==
  ASSUME ClaimsType, ClaimsInv, settling = 0, OpenTokens # 0, NEW base \in Nat, NEW payout \in Nat,
         ClosedBatch(base, payout)
  PROVE  /\ ClaimsType' /\ ClaimsInv' /\ escrowed' = 0
         /\ batch'[Lane'].payout = payout /\ batch'[Lane'].roll = 0
<1> DEFINE p == open % 2
           q == (open + 1) % 2
<1>1. Lanes /\ Located /\ EscrowIsTheOpenBatch /\ PaidExactlyOnce
  BY DEF ClaimsInv
<1>2. open \in Nat /\ open # 0 /\ p \in Parities /\ q \in Parities /\ p # q
      /\ \A r \in Parities : r = p \/ r = q
  BY ParityFacts DEF ClaimsType
<1>3. batch[p].id = open /\ batch[p].tokens # 0 /\ batch[p].roll = 0 /\ queue[p] # <<>>
      /\ queue[q] = <<>> /\ cursor = 0
  BY <1>1 DEF OpenTokens, Lanes
<1>4. UNCHANGED <<cursor, queue, locator, due>> /\ settling' = open /\ open' = open + 1
      /\ escrowed' = escrowed - OpenTokens
  BY DEF ClosedBatch
<1>5. batch' = [batch EXCEPT ![p].payout = payout, ![p].base = base]
  BY DEF ClosedBatch
<1>6. Lane' = p /\ open' % 2 = q
  BY <1>4 DEF Lane
<1>7. /\ batch' \in [Parities -> BatchType]
      /\ batch'[p].payout = payout /\ batch'[p].roll = batch[p].roll
      /\ batch'[p].id = batch[p].id /\ batch'[p].tokens = batch[p].tokens
      /\ \A r \in Parities \ {p} : batch'[r] = batch[r]
  BY <1>2, <1>5, BatchClosed DEF ClaimsType
<1>8. escrowed' = 0
  BY <1>1, <1>4 DEF EscrowIsTheOpenBatch, ClaimsType
<1>9. ClaimsType'
  BY <1>2, <1>4, <1>7, <1>8 DEF ClaimsType
<1>10. queue[p] \in Seq(EntryType) /\ Len(queue[p]) > 0
  <2>1. queue[p] \in Seq(EntryType)
    BY <1>2 DEF ClaimsType
  <2>2. Len(queue[p]) \in Nat /\ Len(queue[p]) # 0
    BY <2>1, <1>3
  <2> QED BY <2>1, <2>2
<1>11. \A r \in Parities : batch'[r].id = batch[r].id /\ batch[r].id <= open /\ batch[r].id \in Nat
  BY <1>1, <1>2, <1>7 DEF Lanes, ClaimsType, BatchType
<1>12. batch'[q].id # open + 1 /\ \A r \in Parities : batch'[r].id <= open + 1
  BY <1>2, <1>11
<1> HIDE DEF p, q
<1>13. Lanes'
  BY <1>2, <1>3, <1>4, <1>6, <1>7, <1>10, <1>12 DEF Lanes
<1>14. InUse' = {open + 1, open} /\ open \in InUse
  BY <1>2, <1>4 DEF InUse
<1>15. \A h \in Holders, r \in Parities : locator[h][r].batch <= open /\ locator[h][r].batch \in Nat
  BY <1>1 DEF Located, ClaimsType
<1>16. \A h \in Holders, r \in Parities : locator[h][r].batch <= open + 1 /\ locator[h][r].batch # open + 1
  BY <1>2, <1>15
<1>17. Located'
  <2>1. \A h \in Holders, r \in Parities : locator'[h][r].batch <= open'
    BY <1>4, <1>16
  <2>2. ASSUME NEW id \in InUse'
        PROVE  /\ \A h \in Holders : locator[h][id % 2].batch = id =>
                    /\ locator[h][id % 2].index \in DOMAIN queue[id % 2]
                    /\ queue[id % 2][locator[h][id % 2].index].owner = h
               /\ \A i \in DOMAIN queue[id % 2] :
                    locator[queue[id % 2][i].owner][id % 2] = [batch |-> id, index |-> i]
    <3>1. CASE id = open
      BY <1>1, <1>14, <3>1 DEF Located
    <3>2. CASE id = open + 1
      <4>1. id % 2 = q /\ q \in Parities /\ queue[id % 2] = <<>>
        BY <3>2, <1>2, <1>3 DEF q
      <4>2. DOMAIN queue[id % 2] = {}
        BY <4>1
      <4> QED BY <3>2, <4>1, <4>2, <1>16
    <3> QED BY <1>14, <3>1, <3>2
  <2> QED BY <1>4, <2>1, <2>2 DEF Located
<1>18. OpenTokens' = 0
  BY <1>4, <1>6, <1>12 DEF OpenTokens
<1>19. Units(OpenEntries)' = {}
  <2>1. DOMAIN queue'[open' % 2] = {}
    BY <1>3, <1>4, <1>6
  <2> QED BY <2>1 DEF OpenEntries, Units
<1>20. EscrowIsTheOpenBatch' /\ IsFiniteSet(Units(OpenEntries))'
  BY <1>8, <1>18, <1>19, FS_EmptySet DEF EscrowIsTheOpenBatch, Total
<1>21. PaidExactlyOnce'
  <2> SUFFICES ASSUME NEW h \in Holders PROVE due'[h] = Claim(h, open)' + Claim(h, settling)'
    BY DEF PaidExactlyOnce
  <2>1. due[h] = Claim(h, open) + Claim(h, settling) /\ Claim(h, settling) = 0
    BY <1>1 DEF PaidExactlyOnce, Claim, Live
  <2>2. Claim(h, open)' = 0
    <3>1. locator'[h][open' % 2].batch # open'
      BY <1>2, <1>4, <1>6, <1>16
    <3> QED BY <3>1 DEF Claim, Live
  <2>3. Claim(h, settling)' = Claim(h, open)
    <3>1. /\ Entry(h, settling)' = Entry(h, open)
          /\ locator'[h][settling' % 2] = locator[h][p] /\ settling' = open /\ cursor' = 0
      BY <1>3, <1>4 DEF Entry, p
    <3>2. locator[h][p].batch = open => locator[h][p].index > 0
      <4>1. ASSUME locator[h][p].batch = open PROVE locator[h][p].index \in DOMAIN queue[p]
        BY <4>1, <1>1, <1>14 DEF Located, p
      <4>2. DOMAIN queue[p] = 1..Len(queue[p]) /\ Len(queue[p]) \in Nat
        BY <1>10
      <4> QED BY <4>1, <4>2
    <3>3. Live(h, settling)' = (open # 0 /\ locator[h][p].batch = open /\ locator[h][p].index > 0)
      BY <3>1, <1>4 DEF Live
    <3>4. Live(h, open) = (open # 0 /\ locator[h][p].batch = open)
      BY <1>2 DEF Live, p
    <3> QED BY <3>1, <3>2, <3>3, <3>4 DEF Claim
  <2>4. Claim(h, open) \in Nat
    BY <1>1, ClaimType
  <2>5. due'[h] = due[h]
    BY <1>4
  <2> QED BY <2>1, <2>2, <2>3, <2>4, <2>5
<1> QED BY <1>3, <1>6, <1>7, <1>8, <1>9, <1>13, <1>17, <1>20, <1>21 DEF ClaimsInv

\* closeRedemptionBatch inside a request.
LEMMA CloseBatchInv ==
  ASSUME Inv, CloseBatch
  PROVE  Inv'
<1> DEFINE backing == Above(Above(Released, 1), pending)
           base == ClosePrice(backing)
           payout == LargestPayout(base, backing)
<1>1. ClaimsType /\ ClaimsInv /\ MoneyType /\ Reserves /\ TokensInv
  BY InvParts
<1>2. /\ phase = "live" /\ phase' = phase /\ settling = 0 /\ OpenTokens # 0
      /\ UNCHANGED <<custody, tokens, left, short>>
  BY DEF CloseBatch
<1>3. /\ pending' = pending + payout /\ claimable' = Released - payout /\ reserve' = payout
      /\ ClosedBatch(base, payout)
  BY DEF CloseBatch, ClosedBatch, ReleaseEscrow
<1>4. pending = 0
  BY <1>1, <1>2 DEF Reserves, ReserveBacksPending, Over
<1>5. Released \in Nat /\ backing \in Nat /\ backing <= Released
  BY <1>1, <1>4, LeastType, SMTT(40) DEF Released, MoneyType
<1>6. OpenTokens \in Nat /\ HolderBase \in Nat /\ HolderBase # 0
  <2>1. OpenTokens = escrowed /\ escrowed \in Nat /\ supply \in Nat
    BY <1>1 DEF ClaimsType, ClaimsInv, EscrowIsTheOpenBatch, TokensInv
  <2> QED BY <1>2, <2>1 DEF HolderBase
<1> HIDE DEF backing
<1>7. base \in Nat
  <2>1. (backing * OpenTokens) \div HolderBase \in Nat
    BY <1>5, <1>6, DivType
  <2>2. Grain \in Nat \ {0}
    BY RedemptionAssumption
  <2>3. ASSUME NEW x \in Nat PROVE (x \div Grain) * Grain \in Nat
    BY <2>2, DivType
  <2> QED BY <2>1, <2>3 DEF ClosePrice
<1>8. payout \in Nat /\ payout <= backing
  <2>1. (base * MAX_ROLL) \div 100 \in Nat
    BY <1>7, DivType DEF MAX_ROLL
  <2> HIDE DEF base
  <2> QED BY <2>1, <1>5, LeastType DEF LargestPayout
<1> HIDE DEF base, payout
<1>9. ClaimsType' /\ ClaimsInv' /\ escrowed' = 0 /\ batch'[Lane'].payout = payout /\ batch'[Lane'].roll = 0
  BY <1>1, <1>2, <1>3, <1>7, <1>8, ClosedClaims
<1>10. MoneyType' /\ phase' \in Phases
  BY <1>1, <1>2, <1>3, <1>5, <1>8 DEF MoneyType, Phases
<1>11. TokensInv'
  BY <1>1, <1>2, <1>9, KeepTokens DEF ClaimsType
<1>12. Reserves'
  <2>1. pending' = payout /\ settling' = open /\ open # 0
    BY <1>1, <1>3, <1>4, <1>8 DEF ClosedBatch, ClaimsType
  <2>2. ReserveBacksPending'
    BY <1>3, <1>8, <2>1 DEF ReserveBacksPending
  <2> QED BY <1>9, <2>1, <2>2 DEF Reserves
<1> QED BY <1>9, <1>10, <1>11, <1>12, InvParts

------------------------------------------------------------------------------
(* Paying the next claim of the settling batch.                             *)

\* The entry under the cursor is its owner's claim.
LEMMA NextClaim ==
  ASSUME ClaimsType, ClaimsInv, settling # 0
  PROVE  /\ cursor + 1 \in DOMAIN queue[Lane] /\ queue[Lane][cursor + 1] \in EntryType
         /\ LET e == queue[Lane][cursor + 1] IN
              /\ e.owner \in Holders /\ e.tokens \in Nat
              /\ locator[e.owner][Lane] = [batch |-> settling, index |-> cursor + 1]
              /\ Claim(e.owner, settling) = e.tokens
<1>1. Lanes /\ Located
  BY DEF ClaimsInv
<1>2. settling \in InUse /\ Lane = settling % 2 /\ Lane \in Parities /\ settling # open
  BY <1>1, LaneFacts DEF InUse, Lane, ClaimsType
<1>3. cursor + 1 \in DOMAIN queue[Lane]
  <2>1. cursor \in Nat /\ cursor < Len(queue[Lane])
    BY <1>1 DEF ClaimsType, Lanes
  <2> QED BY <1>2, <2>1, QueueTypes
<1> DEFINE e == queue[Lane][cursor + 1]
<1>4. e \in EntryType /\ e.owner \in Holders /\ e.tokens \in Nat
  BY <1>2, <1>3, QueueTypes
<1>5. locator[e.owner][Lane] = [batch |-> settling, index |-> cursor + 1]
  BY <1>1, <1>2, <1>3 DEF Located
<1>6. Claim(e.owner, settling) = e.tokens
  <2>1. cursor \in Nat
    BY DEF ClaimsType
  <2>2. locator[e.owner][settling % 2].batch = settling /\ locator[e.owner][settling % 2].index = cursor + 1
    BY <1>2, <1>5
  <2>3. Entry(e.owner, settling) = e.tokens
    BY <1>2, <2>2 DEF Entry
  <2> HIDE DEF e
  <2> QED BY <2>1, <2>2, <2>3 DEF Claim, Live
<1> QED BY <1>3, <1>4, <1>5, <1>6

\* A claim shares a non-empty batch.
LEMMA ShareType ==
  ASSUME ClaimsType, Lanes, settling # 0, NEW n \in Nat
  PROVE  Share(n) \in Nat
<1>1. Lane \in Parities /\ batch[Lane].tokens # 0
  BY LaneFacts DEF Lanes
<1>2. batch[Lane].payout \in Nat /\ batch[Lane].tokens \in Nat \ {0}
  BY <1>1 DEF ClaimsType, BatchType
<1> QED BY <1>2, DivType DEF Share

\* Paying the entry under the cursor.
PaidNext ==
  LET e == queue[Lane][cursor + 1] IN
  /\ due' = [due EXCEPT ![e.owner] = @ - e.tokens]
  /\ IF cursor + 1 = Len(queue[Lane])
     THEN settling' = 0 /\ cursor' = 0 /\ queue' = [queue EXCEPT ![Lane] = <<>>]
     ELSE cursor' = cursor + 1 /\ UNCHANGED <<settling, queue>>
  /\ UNCHANGED <<batch, locator, open, escrowed>>

\* Only that holder's due amount falls, to what it has in the open batch; the others' claims stay.
LEMMA PaidNextClaims ==
  ASSUME ClaimsType, ClaimsInv, settling # 0, PaidNext
  PROVE  ClaimsType' /\ ClaimsInv'
<1> DEFINE e == queue[Lane][cursor + 1]
           n == e.tokens
<1>1. Lanes /\ Located /\ PaidExactlyOnce /\ EscrowIsTheOpenBatch /\ IsFiniteSet(Units(OpenEntries))
  BY DEF ClaimsInv
<1>2. /\ settling \in InUse /\ open \in InUse /\ Lane = settling % 2 /\ Lane \in Parities
      /\ settling # open /\ Lane # open % 2 /\ Lane = (open + 1) % 2 /\ open % 2 \in Parities
      /\ cursor \in Nat /\ settling \in Nat /\ open \in Nat /\ open # 0
  BY <1>1, LaneFacts DEF InUse, Lane, ClaimsType
<1> PICK w \in Holders : w = e.owner
  BY NextClaim
<1>3. Len(queue[Lane]) \in Nat /\ cursor + 1 \in 1..Len(queue[Lane])
      /\ w \in Holders /\ n \in Nat
      /\ locator[w][Lane].batch = settling /\ locator[w][Lane].index = cursor + 1
      /\ Claim(w, settling) = n
  BY <1>2, NextClaim, QueueTypes
<1>4. due' = [due EXCEPT ![w] = due[w] - n] /\ UNCHANGED <<batch, locator, open, escrowed>>
  BY DEF PaidNext
<1>5. /\ \A h \in Holders : due[h] = Claim(h, open) + Claim(h, settling)
      /\ \A h \in Holders : Claim(h, open) \in Nat /\ Claim(h, settling) \in Nat
      /\ \A h \in Holders : due[h] \in Nat
  BY <1>1, ClaimType DEF PaidExactlyOnce, ClaimsType
<1>6. due[w] - n = Claim(w, open) /\ due[w] - n \in Nat
  BY <1>3, <1>5
<1> HIDE DEF n
<1>7. /\ due' \in [Holders -> Nat] /\ due'[w] = Claim(w, open)
      /\ \A h \in Holders \ {w} : due'[h] = due[h]
  <2>1. due \in [Holders -> Nat]
    BY DEF ClaimsType
  <2> QED BY <1>3, <1>4, <1>6, <2>1
<1>8. queue'[open % 2] = queue[open % 2]
  BY <1>2 DEF PaidNext, ClaimsType
<1>9. EscrowIsTheOpenBatch' /\ IsFiniteSet(Units(OpenEntries))'
  BY <1>1, <1>4, <1>8 DEF EscrowIsTheOpenBatch, OpenTokens, OpenEntries, Units, Total
<1>10. \A h \in Holders : Claim(h, open)' = Claim(h, open)
  <2> SUFFICES ASSUME NEW h \in Holders PROVE Claim(h, open)' = Claim(h, open)
    OBVIOUS
  <2>1. Entry(h, open)' = Entry(h, open)
    BY <1>4, <1>8 DEF Entry
  <2>2. Live(h, open)' = Live(h, open)
    <3>1. settling' # open
      BY <1>2 DEF PaidNext
    <3>2. Live(h, open)' = (open # 0 /\ locator[h][open % 2].batch = open)
      BY <1>2, <1>4, <3>1 DEF Live
    <3>3. Live(h, open) = (open # 0 /\ locator[h][open % 2].batch = open)
      BY <1>2 DEF Live
    <3> QED BY <3>2, <3>3
  <2> QED BY <2>1, <2>2 DEF Claim
\* A holder with an unpaid claim has it past the cursor; the one under the cursor is w's.
<1>11. ASSUME NEW h \in Holders \ {w}, locator[h][Lane].batch = settling
       PROVE  /\ locator[h][Lane].index \in 1..Len(queue[Lane])
              /\ locator[h][Lane].index # cursor + 1
  <2>1. locator[h][Lane].index \in 1..Len(queue[Lane]) /\ queue[Lane][locator[h][Lane].index].owner = h
    BY <1>1, <1>2, <1>11, EntryFacts
  <2> QED BY <2>1
<1>12. CASE cursor + 1 = Len(queue[Lane])
  <2>1. settling' = 0 /\ cursor' = 0 /\ queue' = [queue EXCEPT ![Lane] = <<>>]
    BY <1>12 DEF PaidNext
  <2>2. queue' \in [Parities -> Seq(EntryType)] /\ queue'[Lane] = <<>>
    <3>1. <<>> \in Seq(EntryType) /\ queue \in [Parities -> Seq(EntryType)]
      BY DEF ClaimsType
    <3> QED BY <1>2, <2>1, <3>1
  <2>3. ClaimsType'
    BY <1>4, <1>7, <2>1, <2>2 DEF ClaimsType
  <2>4. Lanes'
    BY <1>1, <1>2, <1>4, <1>8, <2>1, <2>2 DEF Lanes
  <2>5. InUse' = {open}
    BY <1>4, <2>1 DEF InUse
  <2>6. Located'
    BY <1>1, <1>2, <1>4, <1>8, <2>5 DEF Located
  <2>7. \A h \in Holders : Claim(h, settling)' = 0
    BY <2>1 DEF Claim, Live
  <2>8. ASSUME NEW h \in Holders \ {w} PROVE Claim(h, settling) = 0
    <3>1. ~Live(h, settling)
      <4> SUFFICES ASSUME Live(h, settling) PROVE FALSE
        OBVIOUS
      <4>1. locator[h][Lane].batch = settling /\ locator[h][Lane].index > cursor
        BY <1>2 DEF Live
      <4> QED BY <4>1, <1>2, <1>3, <1>11, <1>12, SMTT(40)
    <3> QED BY <3>1 DEF Claim
  <2>9. PaidExactlyOnce'
    <3> SUFFICES ASSUME NEW h \in Holders PROVE due'[h] = Claim(h, open)' + Claim(h, settling)'
      BY DEF PaidExactlyOnce
    <3>1. due'[h] = Claim(h, open)
      BY <1>5, <1>7, <2>8
    <3> QED BY <3>1, <1>5, <1>10, <2>7
  <2> QED BY <1>9, <2>3, <2>4, <2>6, <2>9 DEF ClaimsInv
<1>13. CASE cursor + 1 # Len(queue[Lane])
  <2>1. cursor' = cursor + 1 /\ UNCHANGED <<settling, queue>>
    BY <1>13 DEF PaidNext
  <2>2. ClaimsType'
    BY <1>2, <1>4, <1>7, <2>1, SMTT(40) DEF ClaimsType
  <2>3. Lane' = Lane /\ cursor' < Len(queue[Lane])
    BY <1>3, <1>13, <2>1 DEF Lane
  <2>4. Lanes'
    BY <1>1, <1>4, <2>1, <2>3 DEF Lanes
  <2>5. Located'
    BY <1>1, <1>4, <2>1 DEF Located, InUse
  <2>6. \A h \in Holders : Entry(h, settling)' = Entry(h, settling)
    BY <1>4, <2>1 DEF Entry
  <2>7. \A h \in Holders : /\ Live(h, settling) <=> locator[h][Lane].batch = settling /\ locator[h][Lane].index > cursor
                           /\ Live(h, settling)' <=> locator[h][Lane].batch = settling
                                                     /\ locator[h][Lane].index > cursor + 1
    BY <1>2, <1>4, <2>1, <2>3 DEF Live
  <2>8. Claim(w, settling)' = 0
    <3>1. ~Live(w, settling)'
      BY <1>2, <1>3, <2>7
    <3> QED BY <3>1 DEF Claim
  <2>9. ASSUME NEW h \in Holders \ {w} PROVE Claim(h, settling)' = Claim(h, settling)
    <3>1. Live(h, settling)' = Live(h, settling)
      <4>1. CASE locator[h][Lane].batch = settling
        <5>1. locator[h][Lane].index \in Nat /\ locator[h][Lane].index # cursor + 1
          BY <1>3, <1>11, <4>1
        <5>2. locator[h][Lane].index > cursor <=> locator[h][Lane].index > cursor + 1
          BY <1>2, <5>1
        <5> QED BY <2>7, <5>2 DEF Live
      <4>2. CASE locator[h][Lane].batch # settling
        BY <2>7, <4>2 DEF Live
      <4> QED BY <4>1, <4>2
    <3> QED BY <2>6, <3>1 DEF Claim
  <2>10. PaidExactlyOnce'
    <3> SUFFICES ASSUME NEW h \in Holders PROVE due'[h] = Claim(h, open)' + Claim(h, settling)'
      BY DEF PaidExactlyOnce
    <3>1. CASE h = w
      BY <1>3, <1>5, <1>7, <1>10, <2>8, <3>1
    <3>2. CASE h # w
      BY <1>5, <1>7, <1>10, <2>9, <3>2
    <3> QED BY <3>1, <3>2
  <2> QED BY <1>9, <2>2, <2>4, <2>5, <2>10 DEF ClaimsInv
<1> QED BY <1>12, <1>13

\* One miner settlement step, the last one included.
LEMMA SettleClaimInv ==
  ASSUME Inv, SettleClaim
  PROVE  Inv'
<1> DEFINE e == queue[Lane][cursor + 1]
           rolled == Share(e.tokens)
           last == cursor + 1 = Len(queue[Lane])
<1>1. ClaimsType /\ ClaimsInv /\ Lanes /\ MoneyType /\ Reserves /\ TokensInv
  BY InvParts DEF ClaimsInv
<1>2. /\ phase = "live" /\ phase' = phase /\ settling # 0 /\ batch[Lane].roll # 0
      /\ UNCHANGED <<custody, tokens, escrowed, batch, short>>
  BY DEF SettleClaim
<1>3. PaidNext
  BY DEF SettleClaim, PaidNext
<1>4. ClaimsType' /\ ClaimsInv'
  BY <1>1, <1>2, <1>3, PaidNextClaims
<1>5. e.tokens \in Nat
  BY <1>1, <1>2, NextClaim
<1>6. rolled \in Nat
  BY <1>1, <1>2, <1>5, ShareType
<1>7. Forfeited(rolled) \in Nat
  <2> HIDE DEF rolled
  <2>1. rolled - rolled \div 2 \in Nat
    BY <1>6
  <2> QED BY <2>1 DEF Forfeited
<1>8. /\ rolled <= left /\ rolled <= pending /\ rolled <= reserve
      /\ reserve' = reserve - rolled /\ claimable' = claimable + Forfeited(rolled)
      /\ left' = left - rolled
      /\ last => pending' = Above(pending - rolled, left - rolled) /\ settling' = 0
      /\ ~last => pending' = pending - rolled /\ settling' = settling
  BY DEF SettleClaim
<1> HIDE DEF rolled
<1>9. pending = left /\ reserve >= pending
  BY <1>1, <1>2 DEF Reserves, ReserveBacksPending, Over
<1>10. /\ reserve' \in Nat /\ claimable' \in Nat /\ left' \in Nat /\ pending' \in Nat
       /\ reserve' >= pending' /\ (last => pending' = 0) /\ (~last => pending' = left')
  BY <1>1, <1>6, <1>7, <1>8, <1>9 DEF MoneyType, Above
<1>11. MoneyType' /\ phase' \in Phases
  BY <1>1, <1>2, <1>10 DEF MoneyType, Phases
<1>12. Reserves'
  <2>1. ReserveBacksPending'
    BY <1>2, <1>8, <1>10 DEF ReserveBacksPending
  <2>2. settling' # 0 => ~last /\ Lane' = Lane
    BY <1>8 DEF Lane
  <2> QED BY <1>2, <1>10, <2>1, <2>2 DEF Reserves
<1>13. TokensInv'
  BY <1>1, <1>2, KeepTokens DEF ClaimsType
<1> QED BY <1>4, <1>11, <1>12, <1>13, InvParts

------------------------------------------------------------------------------
(* Changing one entry of a queue.                                           *)

SetEntry(p, i, x) == queue' = [queue EXCEPT ![p][i].tokens = x]

\* Changing one entry leaves the other entries and the other lane.
LEMMA EntrySet ==
  ASSUME ClaimsType, NEW p \in Parities, NEW i \in DOMAIN queue[p], NEW x \in Nat, SetEntry(p, i, x)
  PROVE  /\ queue' \in [Parities -> Seq(EntryType)]
         /\ Len(queue'[p]) = Len(queue[p]) /\ DOMAIN queue'[p] = DOMAIN queue[p]
         /\ queue'[p][i].tokens = x /\ queue'[p][i].owner = queue[p][i].owner
         /\ \A j \in DOMAIN queue[p] \ {i} : queue'[p][j] = queue[p][j]
         /\ \A q \in Parities \ {p} : queue'[q] = queue[q]
<1> DEFINE e == [queue[p][i] EXCEPT !.tokens = x]
           s == [queue[p] EXCEPT ![i] = e]
<1>1. queue[p] \in Seq(EntryType) /\ queue[p][i] \in EntryType
  BY QueueTypes DEF ClaimsType
<1>2. e \in EntryType /\ e.tokens = x /\ e.owner = queue[p][i].owner
  BY <1>1 DEF EntryType
<1>3. queue' = [queue EXCEPT ![p] = s]
  BY SMT DEF SetEntry
<1> HIDE DEF e
<1>4. s \in Seq(EntryType) /\ Len(s) = Len(queue[p]) /\ DOMAIN s = DOMAIN queue[p]
      /\ s[i] = e /\ \A j \in DOMAIN queue[p] \ {i} : s[j] = queue[p][j]
  BY <1>1, <1>2
<1> HIDE DEF s
<1>5. queue' \in [Parities -> Seq(EntryType)] /\ queue'[p] = s
      /\ \A q \in Parities \ {p} : queue'[q] = queue[q]
  BY <1>3, <1>4 DEF ClaimsType
<1> QED BY <1>2, <1>4, <1>5

\* Only the claim of the entry's holder changes, and the sum of the open entries by as much.
LEMMA EntrySetClaims ==
  ASSUME ClaimsType, ClaimsInv, NEW h \in Holders, NEW id \in InUse, locator[h][id % 2].batch = id,
         NEW x \in Nat, SetEntry(id % 2, locator[h][id % 2].index, x),
         UNCHANGED <<open, settling, cursor, locator>>
  PROVE  /\ queue' \in [Parities -> Seq(EntryType)] /\ Located'
         /\ \A p \in Parities : Len(queue'[p]) = Len(queue[p]) /\ (queue'[p] = <<>> <=> queue[p] = <<>>)
         /\ \A g \in Holders \ {h} : Claim(g, open)' = Claim(g, open) /\ Claim(g, settling)' = Claim(g, settling)
         /\ id = open => /\ Claim(h, open)' = x /\ Claim(h, open) = Entry(h, open)
                         /\ Claim(h, settling)' = Claim(h, settling)
                         /\ IsFiniteSet(Units(OpenEntries))'
                         /\ Total(OpenEntries)' = Total(OpenEntries) - Entry(h, open) + x
         /\ id = settling => /\ Claim(h, open)' = Claim(h, open)
                             /\ Live(h, settling) => Claim(h, settling)' = x /\ Claim(h, settling) = Entry(h, settling)
                             /\ OpenEntries' = OpenEntries
<1> DEFINE p == id % 2
           i == locator[h][p].index
<1>1. Lanes /\ Located /\ IsFiniteSet(Units(OpenEntries))
  BY DEF ClaimsInv
<1>2. /\ open \in Nat /\ open # 0 /\ open % 2 \in Parities /\ p \in Parities /\ open \in InUse
      /\ settling # 0 => settling # open /\ settling % 2 # open % 2 /\ settling % 2 \in Parities
      /\ id = open \/ (id = settling /\ settling # 0)
  BY <1>1, LaneFacts, ParityFacts DEF InUse, ClaimsType, Lane
<1>3. i \in DOMAIN queue[p] /\ Entry(h, id) \in Nat /\ Entry(h, id) = queue[p][i].tokens /\ queue[p][i].owner = h
  BY <1>1, <1>2, EntryFacts, QueueTypes DEF Entry
<1>4. /\ queue' \in [Parities -> Seq(EntryType)]
      /\ Len(queue'[p]) = Len(queue[p]) /\ DOMAIN queue'[p] = DOMAIN queue[p]
      /\ queue'[p][i].tokens = x /\ queue'[p][i].owner = h
      /\ \A j \in DOMAIN queue[p] \ {i} : queue'[p][j] = queue[p][j]
      /\ \A q \in Parities \ {p} : queue'[q] = queue[q]
  <2>1. SetEntry(p, i, x)
    OBVIOUS
  <2>2. p \in Parities /\ i \in DOMAIN queue[p] /\ queue[p][i].owner = h
    BY <1>2, <1>3
  <2> HIDE DEF p, i
  <2> QED BY <2>1, <2>2, EntrySet
<1>5. \A q \in Parities : /\ DOMAIN queue'[q] = DOMAIN queue[q] /\ Len(queue'[q]) = Len(queue[q])
                          /\ \A j \in DOMAIN queue[q] : queue'[q][j].owner = queue[q][j].owner
  <2> SUFFICES ASSUME NEW q \in Parities
               PROVE  /\ DOMAIN queue'[q] = DOMAIN queue[q] /\ Len(queue'[q]) = Len(queue[q])
                      /\ \A j \in DOMAIN queue[q] : queue'[q][j].owner = queue[q][j].owner
    OBVIOUS
  <2>1. CASE q = p
    BY <1>3, <1>4, <2>1
  <2>2. CASE q # p
    BY <1>4, <2>2
  <2> QED BY <2>1, <2>2
<1>6. UNCHANGED <<open, settling, cursor, locator>>
  OBVIOUS
<1> HIDE DEF p, i
<1>7. Located'
  <2>1. InUse' = InUse /\ \A k \in InUse : k % 2 \in Parities
    BY <1>2, <1>6 DEF InUse
  <2>2. \A g \in Holders, k \in InUse : locator[g][k % 2].batch = k =>
          /\ locator[g][k % 2].index \in DOMAIN queue'[k % 2]
          /\ queue'[k % 2][locator[g][k % 2].index].owner = g
    BY <1>1, <1>5, <2>1 DEF Located
  <2>3. \A k \in InUse : \A j \in DOMAIN queue'[k % 2] :
          locator[queue'[k % 2][j].owner][k % 2] = [batch |-> k, index |-> j]
    <3> SUFFICES ASSUME NEW k \in InUse, NEW j \in DOMAIN queue'[k % 2]
                 PROVE  locator[queue'[k % 2][j].owner][k % 2] = [batch |-> k, index |-> j]
      OBVIOUS
    <3>1. j \in DOMAIN queue[k % 2] /\ queue'[k % 2][j].owner = queue[k % 2][j].owner
      BY <1>5, <2>1
    <3>2. locator[queue[k % 2][j].owner][k % 2] = [batch |-> k, index |-> j]
      BY <1>1, <3>1 DEF Located
    <3> QED BY <3>1, <3>2
  <2>4. \A g \in Holders, q \in Parities : locator[g][q].batch <= open
    BY <1>1 DEF Located
  <2>5. /\ open' = open /\ locator' = locator
    BY <1>6
  <2>6. \A k : k \in InUse' <=> k \in InUse
    BY <2>1
  <2>7. \A g \in Holders, q \in Parities : locator'[g][q].batch <= open'
    BY <2>4, <2>5
  <2>8. \A g \in Holders, k \in InUse' : locator'[g][k % 2].batch = k =>
          /\ locator'[g][k % 2].index \in DOMAIN queue'[k % 2]
          /\ queue'[k % 2][locator'[g][k % 2].index].owner = g
    BY <2>2, <2>5, <2>6, Zenon
  <2>9. \A k \in InUse' : \A j \in DOMAIN queue'[k % 2] :
          locator'[queue'[k % 2][j].owner][k % 2] = [batch |-> k, index |-> j]
    BY <2>3, <2>5, <2>6, Zenon
  <2> QED BY <2>7, <2>8, <2>9, Zenon DEF Located
<1>8. \A q \in Parities : queue'[q] = <<>> <=> queue[q] = <<>>
  <2> SUFFICES ASSUME NEW q \in Parities PROVE queue'[q] = <<>> <=> queue[q] = <<>>
    OBVIOUS
  <2>1. Len(queue'[q]) = Len(queue[q]) /\ queue'[q] \in Seq(EntryType) /\ queue[q] \in Seq(EntryType)
    BY <1>4, <1>5 DEF ClaimsType
  <2> QED BY <2>1
<1>9. \A g \in Holders, k \in {open, settling} : Live(g, k)' = Live(g, k)
  BY <1>6 DEF Live
\* An entry elsewhere keeps its value.
<1>10. ASSUME NEW g \in Holders, NEW k \in InUse, locator[g][k % 2].batch = k, g # h \/ k # id
       PROVE  Entry(g, k)' = Entry(g, k)
  <2>1. locator[g][k % 2].index \in DOMAIN queue[k % 2] /\ queue[k % 2][locator[g][k % 2].index].owner = g
    BY <1>1, <1>10 DEF Located
  <2>2. k % 2 \in Parities /\ (k # id => k % 2 # p)
    BY <1>2, <1>10 DEF InUse, p
  <2>3. queue'[k % 2][locator[g][k % 2].index] = queue[k % 2][locator[g][k % 2].index]
    <3>1. CASE k % 2 = p
      <4>1. locator[g][k % 2].index # i
        BY <1>3, <1>10, <2>1, <2>2, <3>1
      <4> QED BY <1>4, <2>1, <3>1, <4>1
    <3>2. CASE k % 2 # p
      BY <1>4, <2>2, <3>2
    <3> QED BY <3>1, <3>2
  <2> QED BY <1>6, <2>3 DEF Entry
<1>11. ASSUME NEW g \in Holders, NEW k \in {open, settling}, g # h \/ k # id
       PROVE  Claim(g, k)' = Claim(g, k)
  <2>1. CASE Live(g, k)
    <3>1. k \in InUse /\ locator[g][k % 2].batch = k
      BY <2>1 DEF Live, InUse
    <3>2. Entry(g, k)' = Entry(g, k)
      BY <1>10, <1>11, <3>1
    <3>3. CASE k = open
      BY <1>6, <1>9, <2>1, <3>2, <3>3 DEF Claim
    <3>4. CASE k = settling
      BY <1>6, <1>9, <2>1, <3>2, <3>4 DEF Claim
    <3> QED BY <3>3, <3>4
  <2>2. CASE ~Live(g, k)
    BY <1>9, <2>2 DEF Claim
  <2> QED BY <2>1, <2>2
<1>12. Entry(h, id)' = x
  <2>1. locator'[h][id % 2].index = i /\ queue'[id % 2][i].tokens = x
    BY <1>4, <1>6 DEF p, i
  <2> QED BY <2>1 DEF Entry
<1>13. ASSUME id = open
       PROVE  /\ Claim(h, open)' = x /\ Claim(h, open) = Entry(h, open)
              /\ Claim(h, settling)' = Claim(h, settling)
              /\ IsFiniteSet(Units(OpenEntries))'
              /\ Total(OpenEntries)' = Total(OpenEntries) - Entry(h, open) + x
  <2>1. Live(h, open)
    BY <1>2, <1>13 DEF Live
  <2>2. Claim(h, open)' = x /\ Claim(h, open) = Entry(h, open)
    BY <1>6, <1>9, <1>12, <1>13, <2>1 DEF Claim
  <2>3. Claim(h, settling)' = Claim(h, settling)
    <3>1. CASE settling = 0
      BY <1>6, <3>1 DEF Claim, Live
    <3>2. CASE settling # 0
      BY <1>2, <1>11, <1>13, <3>2
    <3> QED BY <3>1, <3>2
  <2>4. IsFiniteSet(Units(OpenEntries')) /\ Total(OpenEntries') = Total(OpenEntries) - Entry(h, open) + x
    <3> DEFINE f == OpenEntries
               g == OpenEntries'
    <3>1. open % 2 = p /\ open' % 2 = p
      BY <1>6, <1>13 DEF p
    <3>2. DOMAIN f = DOMAIN queue[p] /\ DOMAIN g = DOMAIN queue[p]
          /\ \A j \in DOMAIN queue[p] : f[j] = queue[p][j].tokens /\ g[j] = queue'[p][j].tokens
      BY <1>4, <3>1 DEF OpenEntries
    <3>3. i \in DOMAIN f /\ f[i] = Entry(h, open) /\ f[i] \in Nat /\ g[i] = x
          /\ \A j \in DOMAIN f \ {i} : g[j] = f[j]
      BY <1>3, <1>4, <1>13, <3>2, SMTT(40)
    <3> HIDE DEF f, g
    <3>4. IsFiniteSet(Units(g)) /\ Total(g) = Total(f) - f[i] + g[i]
      <4>1. IsFiniteSet(Units(f))
        BY <1>1 DEF f
      <4> QED BY <3>2, <3>3, <4>1, TotalUpdate
    <3> QED BY <3>3, <3>4 DEF f, g
  <2> QED BY <2>2, <2>3, <2>4 DEF Total, Units
<1>14. ASSUME id = settling
       PROVE  /\ Claim(h, open)' = Claim(h, open)
              /\ Live(h, settling) => Claim(h, settling)' = x /\ Claim(h, settling) = Entry(h, settling)
              /\ OpenEntries' = OpenEntries
  <2>1. Claim(h, open)' = Claim(h, open)
    BY <1>2, <1>11, <1>14
  <2>2. Live(h, settling) => Claim(h, settling)' = x /\ Claim(h, settling) = Entry(h, settling)
    BY <1>6, <1>9, <1>12, <1>14 DEF Claim
  <2>3. queue'[open % 2] = queue[open % 2]
    BY <1>2, <1>4, <1>14 DEF p
  <2> QED BY <1>6, <2>1, <2>2, <2>3 DEF OpenEntries
<1>15. \A g \in Holders \ {h} : Claim(g, open)' = Claim(g, open) /\ Claim(g, settling)' = Claim(g, settling)
  BY <1>11
<1> QED BY <1>4, <1>5, <1>7, <1>8, <1>13, <1>14, <1>15

------------------------------------------------------------------------------
(* After game over.                                                         *)

\* A terminal payment leaves every balance non-negative.
LEMMA PayType ==
  ASSUME MoneyType, NEW value \in Nat, NEW owed, Pay(value, owed)
  PROVE  claimable' \in Nat /\ reserve' \in Nat /\ custody' \in Nat /\ short' \in Nat
<1>1. PICK pull \in BOOLEAN :
        LET held == custody + (IF pull THEN Released - 1 ELSE 0)
            paid == Least(value, held)
        IN /\ pull => Winnings # 0
           /\ custody' = held - paid /\ short' = short + (value - paid)
           /\ claimable' = (IF pull THEN 1 ELSE claimable) /\ reserve' = (IF pull THEN 0 ELSE reserve)
  BY DEF Pay
<1> DEFINE held == custody + (IF pull THEN Released - 1 ELSE 0)
           paid == Least(value, held)
<1>2. held \in Nat
  <2>1. Winnings # 0 => claimable + reserve >= 1
    BY DEF MoneyType, Winnings, Above
  <2> QED BY <1>1, <2>1 DEF MoneyType, Released
<1> HIDE DEF held
<1>3. paid \in Nat /\ paid <= value /\ paid <= held
  BY <1>2, LeastType
<1>4. custody' = held - paid /\ short' = short + (value - paid)
      /\ claimable' = (IF pull THEN 1 ELSE claimable) /\ reserve' = (IF pull THEN 0 ELSE reserve)
  BY <1>1 DEF held
<1> HIDE DEF paid
<1> QED BY <1>2, <1>3, <1>4 DEF MoneyType

\* The same when the payee is sDGNRS itself.
LEMMA PayClaimType ==
  ASSUME MoneyType, NEW value \in Nat, NEW owed, NEW h, PayClaim(h, value, owed)
  PROVE  claimable' \in Nat /\ reserve' \in Nat /\ custody' \in Nat /\ short' \in Nat
<1>1. CASE h \in Acquired
  BY <1>1 DEF PayClaim, money, MoneyType
<1>2. CASE h \notin Acquired
  BY <1>2, PayType DEF PayClaim
<1> QED BY <1>1, <1>2

\* A value is priced on a non-zero holder base.
LEMMA HolderValueType ==
  ASSUME MoneyType, HolderBase \in Nat, NEW n \in Nat, n # 0, n <= HolderBase
  PROVE  HolderValue(n, TRUE) \in Nat
<1>1. Winnings \in Nat
  BY LeastType DEF Winnings, MoneyType
<1>2. LiveMoney(TRUE) \in Nat
  <2>1. Winnings + custody \in Nat /\ pending \in Nat
    BY <1>1 DEF MoneyType
  <2>2. LiveMoney(TRUE) = Above(Winnings + custody, pending)
    BY DEF LiveMoney
  <2> QED BY <2>1, <2>2, LeastType
<1>3. HolderBase \in Nat \ {0}
  OBVIOUS
<1>4. (LiveMoney(TRUE) * n) \div HolderBase \in Nat
  BY <1>2, <1>3, DivType
<1> QED BY <1>4 DEF HolderValue

\* Once the game is over the reserve owes nothing more by batch.
LEMMA ReservesOver ==
  ASSUME Over, phase' = phase
  PROVE  Reserves'
  BY DEF Reserves, ReserveBacksPending, Over

\* A burn after game over.
LEMMA BurnOverInv ==
  ASSUME Inv, NEW n \in Amounts, NEW from \in Holders \union {Wrapper}, BurnOver(from, n)
  PROVE  Inv'
<1>1. ClaimsType /\ ClaimsInv /\ MoneyType /\ TokensInv /\ phase \in Phases
  BY InvParts
<1>2. /\ Over /\ phase' = phase /\ n <= balance[from] /\ Destroy(from, n)
      /\ Pay(HolderValue(n, TRUE), pending)
      /\ UNCHANGED <<pending, checkpoint, escrowed, open, settling, cursor, left, claims, due>>
  BY DEF BurnOver
<1>3. n \in Nat /\ n # 0 /\ from \in Accounts /\ escrowed \in Nat /\ supply \in Nat
  BY <1>1, RedemptionAssumption, AccountTypes DEF ClaimsType, TokensInv
<1>4. TokensInv' /\ n <= supply
  BY <1>1, <1>2, <1>3, DestroyTokens
<1>5. ClaimsType' /\ ClaimsInv'
  BY <1>1, <1>2, KeepClaims
<1>6. HolderValue(n, TRUE) \in Nat
  <2>1. HolderBase \in Nat /\ n <= HolderBase
    BY <1>3, <1>4 DEF HolderBase
  <2> QED BY <1>1, <1>3, <2>1, HolderValueType
<1>7. claimable' \in Nat /\ reserve' \in Nat /\ custody' \in Nat /\ short' \in Nat
  BY <1>1, <1>2, <1>6, PayType
<1>8. MoneyType'
  BY <1>1, <1>2, <1>7 DEF MoneyType
<1> QED BY <1>1, <1>2, <1>4, <1>5, <1>8, ReservesOver, InvParts

\* Taking a claim zeroes its entry and what its holder is due for it.
LEMMA TakeFacts ==
  ASSUME ClaimsType, ClaimsInv, NEW h \in Holders, NEW id \in {open, settling}, TakeClaim(h, id)
  PROVE  /\ id \in InUse /\ Over /\ Live(h, id)
         /\ locator[h][id % 2].batch = id /\ Entry(h, id) \in Nat /\ Entry(h, id) # 0
         /\ SetEntry(id % 2, locator[h][id % 2].index, 0)
         /\ due[h] = Claim(h, open) + Claim(h, settling) /\ Claim(h, id) = Entry(h, id)
         /\ Claim(h, open) \in Nat /\ Claim(h, settling) \in Nat
         /\ due' \in [Holders -> Nat] /\ due'[h] = due[h] - Entry(h, id)
         /\ \A g \in Holders \ {h} : due'[g] = due[g] /\ due[g] = Claim(g, open) + Claim(g, settling)
<1>1. Over /\ Live(h, id) /\ Entry(h, id) # 0 /\ SetEntry(id % 2, locator[h][id % 2].index, 0)
      /\ due' = [due EXCEPT ![h] = due[h] - Entry(h, id)]
  BY DEF TakeClaim, SetEntry
<1>2. Located /\ PaidExactlyOnce
  BY DEF ClaimsInv
<1>3. id \in InUse /\ locator[h][id % 2].batch = id
  BY <1>1 DEF Live, InUse
<1>4. Entry(h, id) \in Nat
  BY <1>2, <1>3, EntryFacts
<1>5. Claim(h, id) = Entry(h, id)
  BY <1>1 DEF Claim
<1>6. /\ \A g \in Holders : due[g] = Claim(g, open) + Claim(g, settling)
      /\ Claim(h, open) \in Nat /\ Claim(h, settling) \in Nat
  BY <1>2, ClaimType DEF PaidExactlyOnce
<1>7. due[h] - Entry(h, id) \in Nat
  <2>1. CASE id = open
    BY <1>5, <1>6, <2>1
  <2>2. CASE id = settling
    BY <1>5, <1>6, <2>2
  <2> QED BY <2>1, <2>2
<1>8. due \in [Holders -> Nat]
  BY DEF ClaimsType
<1>9. due' \in [Holders -> Nat] /\ due'[h] = due[h] - Entry(h, id)
      /\ \A g \in Holders \ {h} : due'[g] = due[g]
  BY <1>1, <1>7, <1>8
<1> QED BY <1>1, <1>3, <1>4, <1>5, <1>6, <1>9

\* A claim of the settling batch after game over.
LEMMA ClaimSettlingInv ==
  ASSUME Inv, NEW h \in Holders, ClaimSettling(h)
  PROVE  Inv'
<1> DEFINE n == Entry(h, settling)
           rolled == Share(n)
<1>1. ClaimsType /\ ClaimsInv /\ Lanes /\ MoneyType /\ TokensInv /\ phase \in Phases
  BY InvParts DEF ClaimsInv
<1>2. /\ TakeClaim(h, settling) /\ rolled <= pending /\ pending' = pending - rolled
      /\ PayClaim(h, rolled, pending - rolled)
      /\ UNCHANGED <<phase, tokens, escrowed, open, settling, cursor, left, batch, locator>>
  BY DEF ClaimSettling
<1>3. /\ settling \in InUse /\ Over /\ Live(h, settling) /\ settling # 0
      /\ locator[h][settling % 2].batch = settling /\ n \in Nat
      /\ SetEntry(settling % 2, locator[h][settling % 2].index, 0)
      /\ due[h] = Claim(h, open) + Claim(h, settling) /\ Claim(h, settling) = n
      /\ Claim(h, open) \in Nat
      /\ due' \in [Holders -> Nat] /\ due'[h] = due[h] - n
      /\ \A g \in Holders \ {h} : due'[g] = due[g] /\ due[g] = Claim(g, open) + Claim(g, settling)
  <2>1. Live(h, settling) => settling # 0
    BY DEF Live
  <2> QED BY <1>1, <1>2, <2>1, TakeFacts
<1>4. /\ queue' \in [Parities -> Seq(EntryType)] /\ Located'
      /\ \A p \in Parities : Len(queue'[p]) = Len(queue[p]) /\ (queue'[p] = <<>> <=> queue[p] = <<>>)
      /\ \A g \in Holders \ {h} : Claim(g, open)' = Claim(g, open) /\ Claim(g, settling)' = Claim(g, settling)
      /\ Claim(h, open)' = Claim(h, open) /\ Claim(h, settling)' = 0 /\ OpenEntries' = OpenEntries
  BY <1>1, <1>2, <1>3, EntrySetClaims
<1>5. ClaimsType'
  BY <1>1, <1>2, <1>3, <1>4 DEF ClaimsType
<1>6. Lanes'
  BY <1>1, <1>2, <1>4, LaneFacts, ParityFacts DEF Lanes, Lane, ClaimsType
<1>7. EscrowIsTheOpenBatch' /\ IsFiniteSet(Units(OpenEntries))'
  BY <1>1, <1>2, <1>4 DEF ClaimsInv, EscrowIsTheOpenBatch, OpenTokens, Units, Total
<1>8. PaidExactlyOnce'
  <2> SUFFICES ASSUME NEW g \in Holders PROVE due'[g] = Claim(g, open)' + Claim(g, settling)'
    BY DEF PaidExactlyOnce
  <2>1. CASE g = h
    BY <1>3, <1>4, <2>1
  <2>2. CASE g # h
    BY <1>3, <1>4, <2>2
  <2> QED BY <2>1, <2>2
<1>9. ClaimsInv'
  BY <1>4, <1>6, <1>7, <1>8 DEF ClaimsInv
<1>10. rolled \in Nat
  BY <1>1, <1>3, ShareType
<1> HIDE DEF rolled, n
<1>11. MoneyType'
  <2>1. claimable' \in Nat /\ reserve' \in Nat /\ custody' \in Nat /\ short' \in Nat
    BY <1>1, <1>2, <1>10, PayClaimType
  <2> QED BY <1>1, <1>2, <1>10, <2>1 DEF MoneyType
<1>12. TokensInv'
  BY <1>1, <1>2, KeepTokens DEF ClaimsType
<1> QED BY <1>1, <1>2, <1>3, <1>5, <1>9, <1>11, <1>12, ReservesOver, InvParts

\* One claim's tokens leave the open batch.
LEMMA BatchCut ==
  ASSUME batch \in [Parities -> BatchType], NEW p \in Parities, NEW n \in Nat, n <= batch[p].tokens,
         batch' = [batch EXCEPT ![p].tokens = @ - n]
  PROVE  /\ batch' \in [Parities -> BatchType] /\ batch'[p].tokens = batch[p].tokens - n
         /\ batch'[p].id = batch[p].id /\ batch'[p].roll = batch[p].roll
         /\ \A q \in Parities \ {p} : batch'[q] = batch[q]
<1> DEFINE m == batch[p].tokens - n
           b == [batch[p] EXCEPT !.tokens = m]
<1>1. batch[p] \in BatchType
  OBVIOUS
<1>2. m \in Nat
  BY <1>1 DEF BatchType
<1>3. batch' = [batch EXCEPT ![p] = b]
  BY <1>1 DEF BatchType
<1> HIDE DEF m
<1>4. b \in BatchType /\ b.tokens = m /\ b.id = batch[p].id /\ b.roll = batch[p].roll
  BY <1>1, <1>2 DEF BatchType
<1> HIDE DEF b
<1> QED BY <1>3, <1>4 DEF m

\* A claim of the open batch after game over: tokens leave batch and escrow together.
LEMMA ClaimOpenInv ==
  ASSUME Inv, NEW h \in Holders, ClaimOpen(h)
  PROVE  Inv'
<1> DEFINE n == Entry(h, open)
           p == open % 2
<1>1. ClaimsType /\ ClaimsInv /\ Lanes /\ MoneyType /\ TokensInv /\ phase \in Phases
      /\ EscrowIsTheOpenBatch /\ IsFiniteSet(Units(OpenEntries))
  BY InvParts DEF ClaimsInv
<1>2. /\ TakeClaim(h, open)
      /\ escrowed' = escrowed - n /\ batch' = [batch EXCEPT ![p].tokens = @ - n]
      /\ PayClaim(h, HolderValue(n, TRUE), pending)
      /\ UNCHANGED <<phase, pending, tokens, open, settling, cursor, left, locator>>
  BY DEF ClaimOpen
<1>3. /\ open \in InUse /\ Over /\ Live(h, open)
      /\ locator[h][p].batch = open /\ n \in Nat /\ n # 0
      /\ SetEntry(p, locator[h][p].index, 0)
      /\ due[h] = Claim(h, open) + Claim(h, settling) /\ Claim(h, open) = n
      /\ Claim(h, settling) \in Nat
      /\ due' \in [Holders -> Nat] /\ due'[h] = due[h] - n
      /\ \A g \in Holders \ {h} : due'[g] = due[g] /\ due[g] = Claim(g, open) + Claim(g, settling)
  BY <1>1, <1>2, TakeFacts
<1>4. /\ queue' \in [Parities -> Seq(EntryType)] /\ Located'
      /\ \A r \in Parities : Len(queue'[r]) = Len(queue[r]) /\ (queue'[r] = <<>> <=> queue[r] = <<>>)
      /\ \A g \in Holders \ {h} : Claim(g, open)' = Claim(g, open) /\ Claim(g, settling)' = Claim(g, settling)
      /\ Claim(h, open)' = 0 /\ Claim(h, settling)' = Claim(h, settling)
      /\ IsFiniteSet(Units(OpenEntries))'
      /\ Total(OpenEntries)' = Total(OpenEntries) - n + 0
  BY <1>1, <1>2, <1>3, EntrySetClaims, ZenonT(60)
<1>5. open % 2 \in Parities /\ Lane \in Parities /\ (settling # 0 => Lane # p)
  BY <1>1, LaneFacts
\* The entry is part of the sum, so the batch holds at least its tokens.
<1>6. n <= Total(OpenEntries) /\ Total(OpenEntries) \in Nat
  <2> DEFINE i == locator[h][p].index
  <2>1. i \in DOMAIN queue[p] /\ n = queue[p][i].tokens
    BY <1>1, <1>3, <1>5, EntryFacts, QueueTypes DEF Entry, ClaimsInv
  <2>2. i \in DOMAIN OpenEntries /\ OpenEntries[i] = n
    BY <2>1 DEF OpenEntries
  <2> QED BY <1>1, <1>3, <2>2, TotalBounds
<1>7. batch[p].id = open /\ escrowed = batch[p].tokens /\ batch[p].tokens = Total(OpenEntries)
  BY <1>1, <1>3, <1>6 DEF EscrowIsTheOpenBatch, OpenTokens
<1> HIDE DEF n, p
<1>8. /\ batch' \in [Parities -> BatchType] /\ batch'[p].tokens = batch[p].tokens - n
      /\ batch'[p].id = batch[p].id /\ batch'[p].roll = batch[p].roll
      /\ \A q \in Parities \ {p} : batch'[q] = batch[q]
  BY <1>1, <1>2, <1>3, <1>5, <1>6, <1>7, BatchCut, ZenonT(60) DEF ClaimsType, p
<1>9. escrowed' \in Nat /\ escrowed' <= escrowed
  BY <1>2, <1>3, <1>6, <1>7
<1>10. ClaimsType'
  BY <1>1, <1>2, <1>3, <1>4, <1>8, <1>9 DEF ClaimsType
<1>11. \A r \in Parities : batch'[r].id = batch[r].id /\ (settling # 0 => batch'[Lane] = batch[Lane])
  BY <1>5, <1>8
<1>12. Lanes'
  <2>1. Lane' = Lane /\ open' % 2 = p /\ (open + 1) % 2 \in Parities /\ open' = open /\ settling' = settling
        /\ cursor' = cursor
    BY <1>1, <1>2, ParityFacts DEF Lane, p, ClaimsType
  <2> QED BY <1>1, <1>4, <1>5, <1>8, <1>11, <2>1 DEF Lanes, p
<1>13. EscrowIsTheOpenBatch'
  <2>1. OpenTokens' = batch[p].tokens - n
    BY <1>2, <1>7, <1>8 DEF OpenTokens, p
  <2> QED BY <1>2, <1>4, <1>3, <1>6, <1>7, <2>1 DEF EscrowIsTheOpenBatch
<1>14. PaidExactlyOnce'
  <2> SUFFICES ASSUME NEW g \in Holders PROVE due'[g] = Claim(g, open)' + Claim(g, settling)'
    BY DEF PaidExactlyOnce
  <2>1. CASE g = h
    BY <1>3, <1>4, <2>1
  <2>2. CASE g # h
    BY <1>3, <1>4, <2>2
  <2> QED BY <2>1, <2>2
<1>15. ClaimsInv'
  BY <1>4, <1>12, <1>13, <1>14 DEF ClaimsInv
<1>16. TokensInv'
  BY <1>1, <1>2, <1>9, KeepTokens DEF ClaimsType
<1>17. HolderValue(n, TRUE) \in Nat
  <2>1. n <= HolderBase /\ HolderBase \in Nat
    BY <1>1, <1>3, <1>6, <1>7 DEF HolderBase, TokensInv, ClaimsType
  <2> QED BY <1>1, <1>3, <2>1, HolderValueType
<1>18. MoneyType'
  <2>1. claimable' \in Nat /\ reserve' \in Nat /\ custody' \in Nat /\ short' \in Nat
    BY <1>1, <1>2, <1>17, PayClaimType
  <2> QED BY <1>1, <1>2, <2>1 DEF MoneyType
<1> QED BY <1>1, <1>2, <1>3, <1>10, <1>15, <1>16, <1>18, ReservesOver, InvParts

------------------------------------------------------------------------------
(* A live burn joins the open batch.                                        *)

\* The lane holds the open batch afterwards, with the burned tokens added, whatever it held before.
LEMMA BatchJoined ==
  ASSUME ClaimsType, Lanes, NEW h \in Holders, NEW n \in Nat, JoinOpenBatch(h, n)
  PROVE  /\ batch' \in [Parities -> BatchType]
         /\ batch'[open % 2].id = open /\ batch'[open % 2].roll = 0
         /\ batch'[open % 2].tokens = OpenTokens + n
         /\ \A q \in Parities \ {open % 2} : batch'[q] = batch[q]
<1> DEFINE p == open % 2
           m == OpenTokens + n
           b == IF batch[p].id = open THEN [batch[p] EXCEPT !.tokens = m]
                ELSE [NoBatch EXCEPT !.id = open, !.tokens = n]
<1>1. p \in Parities /\ open \in Nat /\ batch \in [Parities -> BatchType]
  BY LaneFacts DEF ClaimsType
<1>2. batch' = [batch EXCEPT ![p] = b]
  <2>1. batch' = [batch EXCEPT ![p] = IF @.id = open THEN [@ EXCEPT !.tokens = OpenTokens + n]
                                      ELSE [NoBatch EXCEPT !.id = open, !.tokens = n]]
    BY Zenon DEF JoinOpenBatch
  <2> QED BY <2>1
<1>3. batch[p] \in BatchType /\ m \in Nat
  BY <1>1 DEF BatchType, OpenTokens
<1>4. b \in BatchType /\ b.id = open /\ b.roll = 0 /\ b.tokens = OpenTokens + n
  <2>1. CASE batch[p].id = open
    <3>1. batch[p].roll = 0
      BY <2>1 DEF Lanes
    <3>2. OpenTokens + n = m
      BY <2>1 DEF OpenTokens
    <3> HIDE DEF m
    <3> QED BY <1>3, <2>1, <3>1, <3>2 DEF BatchType
  <2>2. CASE batch[p].id # open
    <3>1. b = [id |-> open, tokens |-> n, payout |-> 0, base |-> 0, roll |-> 0]
      BY <2>2 DEF NoBatch
    <3>2. OpenTokens + n = n
      BY <2>2 DEF OpenTokens
    <3> HIDE DEF b
    <3> QED BY <1>1, <3>1, <3>2 DEF BatchType, MAX_ROLL
  <2> QED BY <2>1, <2>2
<1> HIDE DEF b
<1> QED BY <1>1, <1>2, <1>4

Appended(h, n) ==
  /\ queue' = [queue EXCEPT ![open % 2] = Append(@, [owner |-> h, tokens |-> n])]
  /\ locator' = [locator EXCEPT ![h][open % 2] = [batch |-> open, index |-> Len(queue[open % 2]) + 1]]

\* A first burn of this batch: the new entry is the holder's claim, the others keep theirs.
LEMMA AppendClaims ==
  ASSUME ClaimsType, ClaimsInv, NEW h \in Holders, NEW n \in Nat, locator[h][open % 2].batch # open,
         Appended(h, n), UNCHANGED <<open, settling, cursor>>
  PROVE  /\ queue' \in [Parities -> Seq(EntryType)] /\ Located'
         /\ locator' \in [Holders -> [Parities -> [batch : Nat, index : Nat]]]
         /\ queue'[open % 2] # <<>> /\ \A q \in Parities \ {open % 2} : queue'[q] = queue[q]
         /\ \A g \in Holders \ {h} : Claim(g, open)' = Claim(g, open) /\ Claim(g, settling)' = Claim(g, settling)
         /\ Claim(h, open)' = n /\ Claim(h, open) = 0 /\ Claim(h, settling)' = Claim(h, settling)
         /\ IsFiniteSet(Units(OpenEntries))' /\ Total(OpenEntries)' = Total(OpenEntries) + n
<1> DEFINE p == open % 2
           e == [owner |-> h, tokens |-> n]
           s == Append(queue[p], e)
           l == [batch |-> open, index |-> Len(queue[p]) + 1]
<1>1. Lanes /\ Located /\ IsFiniteSet(Units(OpenEntries))
  BY DEF ClaimsInv
<1>2. /\ open \in Nat /\ open # 0 /\ p \in Parities /\ open \in InUse
      /\ settling # 0 => settling # open /\ settling % 2 # p /\ settling % 2 \in Parities
      /\ \A k \in InUse : k = open \/ (k = settling /\ settling # 0)
  BY <1>1, LaneFacts DEF InUse, ClaimsType, Lane
<1>3. UNCHANGED <<open, settling, cursor>>
  OBVIOUS
<1>4. queue[p] \in Seq(EntryType) /\ Len(queue[p]) \in Nat /\ DOMAIN queue[p] = 1..Len(queue[p]) /\ e \in EntryType
  BY <1>2, QueueTypes DEF ClaimsType, EntryType
<1>5. /\ s \in Seq(EntryType) /\ Len(s) = Len(queue[p]) + 1 /\ DOMAIN s = 1..Len(queue[p]) + 1
      /\ s[Len(queue[p]) + 1] = e /\ \A i \in 1..Len(queue[p]) : s[i] = queue[p][i]
  <2> HIDE DEF e
  <2> QED BY <1>4
<1>6. queue' = [queue EXCEPT ![p] = s] /\ locator' = [locator EXCEPT ![h] = [locator[h] EXCEPT ![p] = l]]
  BY SMT DEF Appended
<1>7. l \in [batch : Nat, index : Nat] /\ l.batch = open /\ l.index = Len(queue[p]) + 1
  BY <1>2, <1>4
<1> HIDE DEF s, e
<1>8. queue' \in [Parities -> Seq(EntryType)] /\ queue'[p] = s /\ \A q \in Parities \ {p} : queue'[q] = queue[q]
  BY <1>2, <1>5, <1>6 DEF ClaimsType
<1>9. /\ locator' \in [Holders -> [Parities -> [batch : Nat, index : Nat]]] /\ locator'[h][p] = l
      /\ \A g \in Holders, q \in Parities : g # h \/ q # p => locator'[g][q] = locator[g][q]
  <2> HIDE DEF l
  <2> QED BY <1>2, <1>6, <1>7 DEF ClaimsType
<1>10. s # <<>>
  BY <1>4, <1>5
<1>11. e.owner = h /\ e.tokens = n
  BY DEF e
<1> HIDE DEF l, p
<1>12. open' % 2 = p /\ open % 2 = p
  BY <1>3 DEF p
<1>13. InUse' = InUse
  BY <1>3 DEF InUse
<1>14. Located'
  <2>1. \A g \in Holders, q \in Parities : locator'[g][q].batch <= open
    <3> SUFFICES ASSUME NEW g \in Holders, NEW q \in Parities PROVE locator'[g][q].batch <= open
      OBVIOUS
    <3>1. CASE g = h /\ q = p
      BY <1>2, <1>7, <1>9, <3>1
    <3>2. CASE g # h \/ q # p
      BY <1>1, <1>9, <3>2 DEF Located
    <3> QED BY <3>1, <3>2
  <2>2. ASSUME NEW g \in Holders, NEW k \in InUse, locator'[g][k % 2].batch = k
        PROVE  locator'[g][k % 2].index \in DOMAIN queue'[k % 2] /\ queue'[k % 2][locator'[g][k % 2].index].owner = g
    <3>1. CASE k % 2 # p
      <4>1. k % 2 \in Parities /\ locator'[g][k % 2] = locator[g][k % 2] /\ queue'[k % 2] = queue[k % 2]
        BY <1>2, <1>8, <1>9, <3>1, <1>12
      <4> QED BY <1>1, <2>2, <4>1 DEF Located
    <3>2. CASE k % 2 = p /\ g = h
      BY <1>4, <1>5, <1>7, <1>8, <1>9, <1>11, <3>2
    <3>3. CASE k % 2 = p /\ g # h
      <4>1. locator'[g][k % 2] = locator[g][k % 2]
        BY <1>2, <1>9, <1>12, <3>3
      <4>2. locator[g][k % 2].index \in DOMAIN queue[k % 2] /\ queue[k % 2][locator[g][k % 2].index].owner = g
        BY <1>1, <2>2, <4>1 DEF Located
      <4>3. locator[g][k % 2].index \in 1..Len(queue[p]) /\ s[locator[g][k % 2].index].owner = g
        BY <1>4, <1>5, <3>3, <4>2
      <4>4. locator[g][k % 2].index \in DOMAIN s /\ queue'[k % 2] = s
        BY <1>4, <1>5, <1>8, <3>3, <4>3
      <4> QED BY <4>1, <4>3, <4>4
    <3> QED BY <3>1, <3>2, <3>3
  <2>3. ASSUME NEW k \in InUse, NEW i \in DOMAIN queue'[k % 2]
        PROVE  locator'[queue'[k % 2][i].owner][k % 2] = [batch |-> k, index |-> i]
    <3>1. CASE k % 2 # p
      <4>1. k % 2 \in Parities /\ queue'[k % 2] = queue[k % 2]
        BY <1>2, <1>8, <3>1, <1>12
      <4>2. queue[k % 2][i].owner \in Holders
        BY <2>3, <4>1, QueueTypes
      <4>3. locator[queue[k % 2][i].owner][k % 2] = [batch |-> k, index |-> i]
        BY <1>1, <2>3, <4>1 DEF Located
      <4>4. locator'[queue[k % 2][i].owner][k % 2] = locator[queue[k % 2][i].owner][k % 2]
        BY <1>9, <3>1, <4>1, <4>2
      <4> QED BY <4>1, <4>3, <4>4
    <3>2. CASE k % 2 = p
      <4>0. k = open
        BY <1>2, <3>2
      <4>1. CASE i = Len(queue[p]) + 1
        BY <1>5, <1>8, <1>9, <1>11, <3>2, <4>0, <4>1 DEF l
      <4>2. CASE i # Len(queue[p]) + 1
        <5>1. i \in DOMAIN queue[p] /\ s[i] = queue[p][i]
          BY <1>4, <1>5, <1>8, <2>3, <3>2, <4>2, SMTT(40)
        <5>2. queue[p][i].owner \in Holders
          BY <1>2, <5>1, QueueTypes DEF p
        <5>3. locator[queue[p][i].owner][p] = [batch |-> open, index |-> i]
          BY <1>1, <1>2, <5>1, <1>12 DEF Located
        <5>4. queue[p][i].owner # h
          BY <5>3, <1>12
        <5> QED BY <1>8, <1>9, <1>2, <1>12, <3>2, <4>0, <5>1, <5>2, <5>3, <5>4, SMTT(40)
      <4> QED BY <4>1, <4>2
    <3> QED BY <3>1, <3>2
  <2> QED BY <1>3, <1>13, <2>1, <2>2, <2>3 DEF Located
<1>15. ASSUME NEW g \in Holders, NEW k \in {open, settling}, g # h \/ k # open
       PROVE  Claim(g, k)' = Claim(g, k)
  <2>1. CASE k = 0
    BY <1>2, <1>3, <2>1 DEF Claim, Live
  <2>2. CASE k # 0
    <3>1. k % 2 \in Parities /\ locator'[g][k % 2] = locator[g][k % 2] /\ k \in InUse /\ k' = k
      BY <1>2, <1>9, <1>12, <1>15, <2>2 DEF InUse
    <3>2. Live(g, k)' = Live(g, k)
      BY <1>3, <3>1 DEF Live
    <3>3. Live(g, k) => Entry(g, k)' = Entry(g, k)
      <4> SUFFICES ASSUME Live(g, k) PROVE Entry(g, k)' = Entry(g, k)
        OBVIOUS
      <4>1. locator[g][k % 2].index \in DOMAIN queue[k % 2]
        BY <1>1, <3>1 DEF Located, Live
      <4>2. queue'[k % 2][locator[g][k % 2].index] = queue[k % 2][locator[g][k % 2].index]
        <5>1. CASE k % 2 = p
          BY <1>4, <1>5, <1>8, <4>1, <5>1
        <5>2. CASE k % 2 # p
          BY <1>8, <3>1, <5>2
        <5> QED BY <5>1, <5>2
      <4> QED BY <3>1, <4>2 DEF Entry
    <3> QED BY <3>1, <3>2, <3>3 DEF Claim
  <2> QED BY <2>1, <2>2
<1>16. Claim(h, open)' = n /\ Claim(h, open) = 0
  <2>1. Claim(h, open) = 0
    BY DEF Claim, Live
  <2>2. Live(h, open)' <=> open # 0 /\ l.batch = open /\ (open = settling => l.index > cursor)
    BY <1>3, <1>9, <1>12 DEF Live
  <2>3. Live(h, open)'
    BY <1>2, <1>7, <2>2
  <2>4. Entry(h, open)' = n
    BY <1>5, <1>7, <1>8, <1>9, <1>11, <1>12 DEF Entry
  <2> QED BY <2>1, <2>3, <2>4 DEF Claim
<1>17. IsFiniteSet(Units(OpenEntries')) /\ Total(OpenEntries') = Total(OpenEntries) + n
  <2> DEFINE f == OpenEntries
             g == OpenEntries'
             a == Len(queue[p]) + 1
  <2>1. /\ DOMAIN f = 1..Len(queue[p]) /\ DOMAIN g = 1..Len(queue[p]) + 1
        /\ \A j \in 1..Len(queue[p]) : f[j] = queue[p][j].tokens
        /\ \A j \in 1..Len(queue[p]) + 1 : g[j] = s[j].tokens
    BY <1>4, <1>5, <1>8, <1>12 DEF OpenEntries
  <2>2. a \notin DOMAIN f /\ g[a] = n /\ DOMAIN g = DOMAIN f \union {a} /\ \A j \in DOMAIN f : g[j] = f[j]
    <3>1. g[a] = n
      <4> HIDE DEF f, g
      <4>1. a \in 1..Len(queue[p]) + 1 /\ s[a] = e
        BY <1>4, <1>5
      <4>2. \A j \in 1..Len(queue[p]) + 1 : g[j] = s[j].tokens
        BY <2>1
      <4> HIDE DEF a
      <4> QED BY <1>11, <4>1, <4>2
    <3>2. DOMAIN g = DOMAIN f \union {a} /\ a \notin DOMAIN f
      <4> HIDE DEF f, g
      <4> QED BY <1>4, <2>1
    <3>3. \A j \in DOMAIN f : g[j] = f[j]
      <4> HIDE DEF f, g
      <4> QED BY <1>4, <1>5, <2>1
    <3> QED BY <3>1, <3>2, <3>3
  <2> HIDE DEF f, g, a
  <2>3. IsFiniteSet(Units(g)) /\ Total(g) = Total(f) + g[a]
    <3>1. IsFiniteSet(Units(f))
      BY <1>1 DEF f
    <3> QED BY <2>2, <3>1, TotalExtend
  <2> QED BY <2>2, <2>3 DEF f, g
<1>18. /\ \A g \in Holders \ {h} : Claim(g, open)' = Claim(g, open) /\ Claim(g, settling)' = Claim(g, settling)
       /\ Claim(h, settling)' = Claim(h, settling)
  <2>1. Claim(h, settling)' = Claim(h, settling)
    <3>1. CASE settling = 0
      BY <1>3, <3>1 DEF Claim, Live
    <3>2. CASE settling # 0
      BY <1>2, <1>15, <3>2
    <3> QED BY <3>1, <3>2
  <2> QED BY <1>15, <2>1
<1>19. IsFiniteSet(Units(OpenEntries))' /\ Total(OpenEntries)' = Total(OpenEntries) + n
  BY <1>17 DEF Units, Total
<1> QED BY <1>8, <1>9, <1>10, <1>12, <1>14, <1>16, <1>18, <1>19

\* The history of the burn, and its tokens in escrow.
Owes(h, n) == due' = [due EXCEPT ![h] = @ + n] /\ escrowed' = escrowed + n

\* Joining the open batch adds the burned tokens to one claim, the batch and the escrow.
LEMMA JoinClaims ==
  ASSUME ClaimsType, ClaimsInv, NEW h \in Holders, NEW n \in Nat, JoinOpenBatch(h, n),
         Owes(h, n), UNCHANGED <<open, settling, cursor>>
  PROVE  ClaimsType' /\ ClaimsInv' /\ (settling # 0 => batch'[Lane] = batch[Lane])
<1> DEFINE p == open % 2
           d == due[h] + n
<1>1. Lanes /\ Located /\ PaidExactlyOnce /\ EscrowIsTheOpenBatch
  BY DEF ClaimsInv
<1>2. p \in Parities /\ open \in InUse /\ (settling # 0 => Lane # p) /\ Lane \in Parities
  BY <1>1, LaneFacts DEF InUse
<1>3. UNCHANGED <<open, settling, cursor>> /\ escrowed' = escrowed + n
  BY DEF Owes
<1>4. /\ batch' \in [Parities -> BatchType]
      /\ batch'[p].id = open /\ batch'[p].roll = 0
      /\ batch'[p].tokens = OpenTokens + n
      /\ \A q \in Parities \ {p} : batch'[q] = batch[q]
  BY <1>1, BatchJoined
<1>5. due' \in [Holders -> Nat] /\ due'[h] = due[h] + n /\ \A g \in Holders \ {h} : due'[g] = due[g]
  <2>1. due \in [Holders -> Nat] /\ d \in Nat /\ due' = [due EXCEPT ![h] = d]
    BY DEF ClaimsType, Owes
  <2> HIDE DEF d
  <2>2. due' \in [Holders -> Nat] /\ due'[h] = d /\ \A g \in Holders \ {h} : due'[g] = due[g]
    BY <2>1
  <2> QED BY <2>2 DEF d
<1>6. \A g \in Holders : due[g] = Claim(g, open) + Claim(g, settling)
                         /\ Claim(g, open) \in Nat /\ Claim(g, settling) \in Nat
  BY <1>1, ClaimType DEF PaidExactlyOnce
\* Either way the open claim of h and the sum of the open entries rise by n.
<1>7. /\ queue' \in [Parities -> Seq(EntryType)] /\ Located'
      /\ locator' \in [Holders -> [Parities -> [batch : Nat, index : Nat]]]
      /\ queue'[p] # <<>>
      /\ \A q \in Parities \ {p} : Len(queue'[q]) = Len(queue[q]) /\ (queue'[q] = <<>> <=> queue[q] = <<>>)
      /\ \A g \in Holders \ {h} : Claim(g, open)' = Claim(g, open) /\ Claim(g, settling)' = Claim(g, settling)
      /\ Claim(h, open)' = Claim(h, open) + n /\ Claim(h, settling)' = Claim(h, settling)
      /\ IsFiniteSet(Units(OpenEntries))' /\ Total(OpenEntries)' = Total(OpenEntries) + n
  <2>1. CASE locator[h][p].batch = open
    <3> DEFINE i == locator[h][p].index
    <3>1. i \in 1..Len(queue[p]) /\ Entry(h, open) \in Nat /\ Entry(h, open) = queue[p][i].tokens
      BY <1>1, <1>2, <2>1, EntryFacts DEF Entry
    <3>2. queue' = [queue EXCEPT ![p][i].tokens = queue[p][i].tokens + n] /\ locator' = locator
      BY <2>1 DEF JoinOpenBatch, InOpenBatch
    <3> PICK k \in Nat : k = Entry(h, open)
      BY <3>1
    <3> PICK x \in Nat : x = k + n
      OBVIOUS
    <3>3. SetEntry(p, i, x)
      BY <3>1, <3>2 DEF SetEntry
    <3>4. /\ queue' \in [Parities -> Seq(EntryType)] /\ Located'
          /\ \A q \in Parities : Len(queue'[q]) = Len(queue[q]) /\ (queue'[q] = <<>> <=> queue[q] = <<>>)
          /\ \A g \in Holders \ {h} : Claim(g, open)' = Claim(g, open) /\ Claim(g, settling)' = Claim(g, settling)
          /\ Claim(h, open)' = x /\ Claim(h, open) = Entry(h, open)
          /\ Claim(h, settling)' = Claim(h, settling)
          /\ IsFiniteSet(Units(OpenEntries))'
          /\ Total(OpenEntries)' = Total(OpenEntries) - Entry(h, open) + x
      BY <1>2, <1>3, <2>1, <3>2, <3>3, EntrySetClaims
    <3> HIDE DEF i
    <3>5. queue[p] # <<>>
      BY <3>1 DEF i
    <3>6. Total(OpenEntries) \in Nat
      BY TotalBounds DEF ClaimsInv
    <3>7. Total(OpenEntries)' = Total(OpenEntries) + n
      <4>1. Total(OpenEntries)' = Total(OpenEntries) - k + x
        BY <3>4
      <4> QED BY <3>6, <4>1
    <3>8. locator' \in [Holders -> [Parities -> [batch : Nat, index : Nat]]]
      BY <3>2 DEF ClaimsType
    <3>9. Claim(h, open)' = Claim(h, open) + n
      BY <3>4
    <3> QED BY <1>2, <3>4, <3>5, <3>7, <3>8, <3>9
  <2>2. CASE locator[h][p].batch # open
    <3>1. Appended(h, n)
      BY <2>2 DEF JoinOpenBatch, InOpenBatch, Appended
    <3>2. /\ queue' \in [Parities -> Seq(EntryType)] /\ Located'
          /\ locator' \in [Holders -> [Parities -> [batch : Nat, index : Nat]]]
          /\ queue'[p] # <<>> /\ \A q \in Parities \ {p} : queue'[q] = queue[q]
          /\ \A g \in Holders \ {h} : Claim(g, open)' = Claim(g, open) /\ Claim(g, settling)' = Claim(g, settling)
          /\ Claim(h, open)' = n /\ Claim(h, open) = 0 /\ Claim(h, settling)' = Claim(h, settling)
          /\ IsFiniteSet(Units(OpenEntries))' /\ Total(OpenEntries)' = Total(OpenEntries) + n
      BY <1>3, <2>2, <3>1, AppendClaims
    <3>3. Claim(h, open)' = Claim(h, open) + n
      BY <3>2
    <3> QED BY <3>2, <3>3
  <2> QED BY <2>1, <2>2
<1> HIDE DEF p, d
<1>8. ClaimsType'
  <2>1. escrowed' \in Nat
    BY <1>3 DEF ClaimsType
  <2> QED BY <1>3, <1>4, <1>5, <1>7, <2>1 DEF ClaimsType
<1>9. settling # 0 => batch'[Lane] = batch[Lane]
  BY <1>2, <1>4
<1>10. Lanes'
  <2>1. Lane' = Lane /\ open' % 2 = p /\ open' = open /\ settling' = settling /\ cursor' = cursor
    BY <1>3 DEF Lane, p
  <2>2. open \in Nat /\ (open + 1) % 2 \in Parities \ {p}
    BY ParityFacts DEF ClaimsType, p
  <2>3. settling' # 0 => /\ open' = settling' + 1 /\ batch'[Lane].id = settling /\ batch'[Lane].tokens # 0
                         /\ cursor < Len(queue'[Lane])
    <3>1. settling # 0 => Lane \in Parities \ {p}
      BY <1>2
    <3> QED BY <1>1, <1>7, <1>9, <2>1, <3>1 DEF Lanes
  <2>4. settling' = 0 => queue'[(open + 1) % 2] = <<>> /\ cursor' = 0
    BY <1>1, <1>7, <2>1, <2>2 DEF Lanes
  <2>5. \A q \in Parities : batch'[q].id <= open
    <3> SUFFICES ASSUME NEW q \in Parities PROVE batch'[q].id <= open
      OBVIOUS
    <3>1. CASE q = p
      BY <1>4, <2>2, <3>1
    <3>2. CASE q # p
      BY <1>1, <1>4, <3>2 DEF Lanes
    <3> QED BY <3>1, <3>2
  <2> QED BY <1>4, <1>7, <2>1, <2>3, <2>4, <2>5 DEF Lanes
<1>11. EscrowIsTheOpenBatch'
  <2>1. OpenTokens' = OpenTokens + n
    BY <1>3, <1>4 DEF OpenTokens, p
  <2> QED BY <1>1, <1>3, <1>7, <2>1 DEF EscrowIsTheOpenBatch
<1>12. PaidExactlyOnce'
  <2> SUFFICES ASSUME NEW g \in Holders PROVE due'[g] = Claim(g, open)' + Claim(g, settling)'
    BY DEF PaidExactlyOnce
  <2>1. CASE g = h
    BY <1>5, <1>6, <1>7, <2>1
  <2>2. CASE g # h
    BY <1>5, <1>6, <1>7, <2>2
  <2> QED BY <2>1, <2>2
<1> QED BY <1>7, <1>8, <1>9, <1>10, <1>11, <1>12 DEF ClaimsInv

\* burn and burnWrapped in a live game.
LEMMA BurnLiveInv ==
  ASSUME Inv, NEW n \in Amounts, NEW h \in Holders, NEW from \in {h, Wrapper}, BurnLive(h, from, n)
  PROVE  Inv'
<1>1. ClaimsType /\ ClaimsInv /\ MoneyType /\ Reserves /\ TokensInv
  BY InvParts
<1>2. /\ phase = "live" /\ n <= balance[from] /\ Destroy(from, n) /\ escrowed' = escrowed + n
      /\ JoinOpenBatch(h, n) /\ Owes(h, n)
      /\ UNCHANGED <<phase, money, pending, checkpoint, open, settling, cursor, left, short>>
  BY DEF BurnLive, Owes
<1>3. n \in Nat /\ from \in Accounts
  BY RedemptionAssumption, AccountTypes
<1>4. ClaimsType' /\ ClaimsInv' /\ (settling # 0 => batch'[Lane] = batch[Lane])
  BY <1>1, <1>2, <1>3, JoinClaims
<1>5. TokensInv'
  <2>1. /\ balance' \in [Accounts -> Nat] /\ IsFiniteSet(Units(balance'))
        /\ supply' = Total(balance') /\ supply' \in Nat /\ supply' = supply - n /\ n <= supply
    BY <1>1, <1>2, <1>3, DestroySum DEF TokensInv, SupplyBounded
  <2>2. supply' + escrowed' <= checkpoint' /\ checkpoint' = checkpoint
    <3>1. supply \in Nat /\ escrowed \in Nat /\ supply + escrowed <= checkpoint
      BY <1>1 DEF TokensInv, SupplyBounded, ClaimsType
    <3> QED BY <1>2, <1>3, <2>1, <3>1
  <2> QED BY <1>1, <2>1, <2>2 DEF TokensInv, SupplyBounded, Total
<1>6. MoneyType' /\ phase' \in Phases
  BY <1>1, <1>2 DEF MoneyType, Phases, money
<1>7. Reserves'
  <2>1. UNCHANGED <<phase, reserve, pending, settling, left>> /\ Lane' = Lane
    BY <1>2 DEF money, Lane
  <2> QED BY <1>1, <1>4, <2>1 DEF Reserves, ReserveBacksPending, Over
<1> QED BY <1>4, <1>5, <1>6, <1>7, InvParts

------------------------------------------------------------------------------
(* The start, and every step.                                               *)

\* The constructor establishes the invariant.
LEMMA InitInv == Init => Inv
<1> SUFFICES ASSUME Init PROVE Inv
  OBVIOUS
<1>1. WrapperShare \in Nat /\ PoolShare \in Nat
  BY RedemptionAssumption
<1>2. /\ phase = "live" /\ claimable = 0 /\ reserve = 0 /\ custody = 0 /\ pending = 0
      /\ supply = WrapperShare + PoolShare /\ checkpoint = WrapperShare + PoolShare
      /\ escrowed = 0 /\ open = 1 /\ settling = 0 /\ cursor = 0 /\ left = 0 /\ short = 0
  BY DEF Init
<1>3. /\ batch = [p \in Parities |-> NoBatch] /\ queue = [p \in Parities |-> <<>>]
      /\ locator = [h \in Holders |-> [p \in Parities |-> [batch |-> 0, index |-> 0]]]
      /\ due = [h \in Holders |-> 0]
  BY DEF Init
<1>4. ClaimsType
  <2>1. NoBatch \in BatchType /\ <<>> \in Seq(EntryType)
    BY DEF NoBatch, BatchType, MAX_ROLL
  <2>2. batch \in [Parities -> BatchType] /\ queue \in [Parities -> Seq(EntryType)]
    BY <1>3, <2>1
  <2> QED BY <1>2, <1>3, <2>2 DEF ClaimsType
<1>5. open % 2 \in Parities /\ (open + 1) % 2 \in Parities /\ InUse = {open}
  BY <1>2, ParityFacts DEF InUse
<1>6. \A p \in Parities : queue[p] = <<>> /\ batch[p].id = 0
  BY <1>3 DEF NoBatch
<1>7. Lanes
  BY <1>2, <1>5, <1>6 DEF Lanes
<1>8. \A h \in Holders, p \in Parities : locator[h][p].batch = 0
  BY <1>3
<1>9. DOMAIN queue[open % 2] = {}
  BY <1>5, <1>6
<1>10. Located
  BY <1>2, <1>5, <1>8, <1>9 DEF Located
<1>11. PaidExactlyOnce
  <2> SUFFICES ASSUME NEW h \in Holders PROVE due[h] = Claim(h, open) + Claim(h, settling)
    BY DEF PaidExactlyOnce
  <2>1. Claim(h, open) = 0 /\ Claim(h, settling) = 0
    BY <1>2, <1>5, <1>8 DEF Claim, Live
  <2> QED BY <1>3, <2>1
<1>12. IsFiniteSet(Units(OpenEntries)) /\ EscrowIsTheOpenBatch
  <2>1. Units(OpenEntries) = {}
    BY <1>9 DEF Units, OpenEntries
  <2>2. OpenTokens = 0
    BY <1>2, <1>5, <1>6 DEF OpenTokens
  <2> QED BY <1>2, <2>1, <2>2, FS_EmptySet DEF EscrowIsTheOpenBatch, Total
<1>13. TokensInv
  <2> DEFINE f0 == [a \in Accounts |-> 0]
             f1 == [a \in Accounts |-> IF a = Pools THEN PoolShare ELSE 0]
             f2 == [a \in Accounts |-> IF a = Wrapper THEN WrapperShare
                                       ELSE IF a = Pools THEN PoolShare ELSE 0]
  <2>1. IsFiniteSet(Units(f0)) /\ Total(f0) = 0
    <3>1. Units(f0) = {}
      <4>1. DOMAIN f0 = Accounts /\ \A a \in Accounts : f0[a] = 0
        OBVIOUS
      <4> HIDE DEF f0
      <4>2. \A a \in DOMAIN f0 : 1..f0[a] = {}
        BY <4>1
      <4> QED BY <4>2 DEF Units
    <3> QED BY <3>1, FS_EmptySet DEF Total
  <2>2. IsFiniteSet(Units(f1)) /\ Total(f1) = PoolShare
    <3>1. /\ Pools \in DOMAIN f0 /\ DOMAIN f1 = DOMAIN f0 /\ f0[Pools] = 0 /\ f1[Pools] = PoolShare
          /\ \A a \in DOMAIN f0 \ {Pools} : f1[a] = f0[a]
      BY AccountTypes
    <3> HIDE DEF f0, f1
    <3>2. IsFiniteSet(Units(f1)) /\ Total(f1) = Total(f0) - f0[Pools] + f1[Pools]
      BY <1>1, <2>1, <3>1, TotalUpdate
    <3> QED BY <1>1, <2>1, <3>1, <3>2
  <2>3. IsFiniteSet(Units(f2)) /\ Total(f2) = PoolShare + WrapperShare
    <3>1. /\ Wrapper \in DOMAIN f1 /\ DOMAIN f2 = DOMAIN f1 /\ f1[Wrapper] = 0 /\ f2[Wrapper] = WrapperShare
          /\ \A a \in DOMAIN f1 \ {Wrapper} : f2[a] = f1[a]
      BY AccountTypes
    <3> HIDE DEF f1, f2
    <3>2. IsFiniteSet(Units(f2)) /\ Total(f2) = Total(f1) - f1[Wrapper] + f2[Wrapper]
      BY <1>1, <2>2, <3>1, TotalUpdate
    <3> QED BY <1>1, <2>2, <3>1, <3>2
  <2>4. balance = f2
    BY DEF Init
  <2>5. balance \in [Accounts -> Nat]
    BY <1>1, <2>4
  <2> HIDE DEF f2
  <2> QED BY <1>1, <1>2, <2>3, <2>4, <2>5 DEF TokensInv, SupplyBounded
<1>14. MoneyType /\ phase \in Phases
  BY <1>2 DEF MoneyType, Phases
<1>15. Reserves
  BY <1>2 DEF Reserves, ReserveBacksPending
<1> QED BY <1>4, <1>7, <1>10, <1>11, <1>12, <1>13, <1>14, <1>15, InvParts DEF ClaimsInv

\* So does standing still.
LEMMA StutterInv ==
  ASSUME Inv, UNCHANGED vars
  PROVE  Inv'
<1>1. UNCHANGED <<tokens, claims, open, settling, cursor, escrowed, due>>
      /\ UNCHANGED <<phase, claimable, reserve, custody, pending, left, short>>
  BY DEF vars, money
<1>2. TokensInv' /\ ClaimsType' /\ ClaimsInv'
  BY <1>1, KeepEscrow
<1>3. MoneyType' /\ phase' \in Phases
  BY <1>1, InvParts DEF MoneyType
<1>4. Reserves'
  BY <1>1, InvParts, KeepReserves DEF claims
<1> QED BY <1>2, <1>3, <1>4, InvParts

\* Every action keeps it.
LEMMA StepInv == Inv /\ [Next]_vars => Inv'
<1> SUFFICES ASSUME Inv, [Next]_vars PROVE Inv'
  OBVIOUS
<1>1. ASSUME NEW n \in Amounts, NEW to \in Holders \union {Pools}, Award(to, n) PROVE Inv'
  BY <1>1, AwardInv
<1>2. ASSUME NEW n \in Amounts, NEW h \in Holders, Unwrap(h, n) PROVE Inv'
  BY <1>2, UnwrapInv
<1>3. ASSUME NEW n \in Amounts, NEW h \in Holders, BurnLive(h, h, n) \/ BurnLive(h, Wrapper, n) PROVE Inv'
  BY <1>3, BurnLiveInv
<1>4. ASSUME NEW n \in Amounts, NEW from \in Holders \union {Wrapper}, BurnOver(from, n) PROVE Inv'
  BY <1>4, BurnOverInv
<1>5. ASSUME NEW h \in Holders, BurnForLiquidation(h) \/ ClaimSettling(h) \/ ClaimOpen(h) PROVE Inv'
  BY <1>5, BurnForLiquidationInv, ClaimSettlingInv, ClaimOpenInv
<1>6. ASSUME \/ \E g \in Gains : Earn(g) \/ Spend(g)
             \/ RequestEmpty \/ TriggerEnding \/ FinalSweep
      PROVE  Inv'
  BY <1>6, MoneyStep
<1>7. ASSUME RecycleCentury \/ CloseBatch \/ ResolveLive \/ SettleClaim PROVE Inv'
  BY <1>7, RecycleCenturyInv, CloseBatchInv, ResolveLiveInv, SettleClaimInv
<1>8. ASSUME ApplyTerminalWord \/ GameOver PROVE Inv'
  BY <1>8, EndingInv
<1>9. CASE UNCHANGED vars
  BY <1>9, StutterInv
<1> QED BY <1>1, <1>2, <1>3, <1>4, <1>5, <1>6, <1>7, <1>8, <1>9 DEF Next

------------------------------------------------------------------------------
(* The theorems.                                                            *)

\* The invariant holds in every reachable state.
LEMMA Invariance == Spec => []Inv
<1>1. Inv /\ [Next]_vars => Inv'
  BY StepInv
<1> QED BY InitInv, <1>1, PTL DEF Spec

\* Storage stays in its range: no subtraction of the batches, the reserve or the supply goes below zero.
THEOREM TypeCorrect == Spec => []TypeOK
<1>1. Inv => TypeOK
  BY DEF Inv
<1> QED BY Invariance, <1>1, PTL

\* The Game's redemption reserve covers what closed batches are owed for as long as the game lives.
THEOREM ReserveCovers == Spec => []ReserveBacksPending
<1>1. Inv => ReserveBacksPending
  BY DEF Inv, Reserves
<1> QED BY Invariance, <1>1, PTL

\* Burned tokens count in the holder base exactly until their batch is priced, and the batch is its entries.
THEOREM EscrowCorrect == Spec => []EscrowIsTheOpenBatch
<1>1. Inv => EscrowIsTheOpenBatch
  BY DEF Inv
<1> QED BY Invariance, <1>1, PTL

\* Nothing burned is lost or paid twice, however the lanes are reused and whoever settles.
THEOREM ClaimsPaidOnce == Spec => []PaidExactlyOnce
<1>1. Inv => PaidExactlyOnce
  BY DEF Inv
<1> QED BY Invariance, <1>1, PTL

\* The supply is the sum of the balances and never exceeds the constructor mints, whatever centuries refill.
THEOREM SupplyCorrect == Spec => []SupplyBounded
<1>1. Inv => SupplyBounded
  BY DEF Inv
<1> QED BY Invariance, <1>1, PTL

\* The three together: the books of the token are sound and no amount in them is negative.
THEOREM BooksAreBalanced == Spec => []BooksBalance
<1>1. Inv => BooksBalance
  BY DEF Inv, BooksBalance
<1> QED BY Invariance, <1>1, PTL

\* Only four steps write a batch; none of them writes a rolled one.
LEMMA RolledStays ==
  ASSUME Inv, Next, settling # 0, batch[Lane].roll # 0
  PROVE  batch'[Lane].roll = batch[Lane].roll /\ batch'[Lane].payout = batch[Lane].payout
<1>1. ClaimsType /\ Lanes
  BY InvParts DEF ClaimsInv
<1>2. Lane \in Parities \ {open % 2} /\ open % 2 \in Parities
  BY <1>1, LaneFacts
<1>3. ASSUME NEW n \in Amounts, NEW h \in Holders, JoinOpenBatch(h, n) PROVE batch'[Lane] = batch[Lane]
  <2>1. n \in Nat
    BY RedemptionAssumption
  <2> QED BY <1>1, <1>2, <1>3, <2>1, BatchJoined
<1>4. ASSUME NEW h \in Holders, ClaimOpen(h) PROVE batch'[Lane] = batch[Lane]
  <2>1. batch' = [batch EXCEPT ![open % 2].tokens = @ - Entry(h, open)] /\ batch \in [Parities -> BatchType]
    BY <1>1, <1>4 DEF ClaimOpen, ClaimsType
  <2> QED BY <1>2, <2>1
<1>5. CASE ResolveLive \/ CloseBatch
  BY <1>5 DEF ResolveLive, CloseBatch
<1>6. ASSUME ResolveTerminal PROVE batch' = batch
  BY <1>6 DEF ResolveTerminal
<1>7. CASE ApplyTerminalWord \/ GameOver
  <2>1. batch' = batch
    BY <1>6, <1>7 DEF ApplyTerminalWord, GameOver
  <2> QED BY <2>1
<1>8. ASSUME NEW n \in Amounts,
             \/ \E to \in Holders \union {Pools} : Award(to, n)
             \/ \E h \in Holders : Unwrap(h, n)
             \/ \E from \in Holders \union {Wrapper} : BurnOver(from, n)
      PROVE  batch' = batch
  BY <1>8 DEF Award, Unwrap, BurnOver, TokensOnly, claims
<1>9. ASSUME \/ \E h \in Holders : BurnForLiquidation(h) \/ ClaimSettling(h)
             \/ \E g \in Gains : Earn(g) \/ Spend(g)
             \/ RecycleCentury \/ RequestEmpty \/ SettleClaim \/ TriggerEnding \/ FinalSweep
      PROVE  batch' = batch
  BY <1>9 DEF BurnForLiquidation, ClaimSettling, Earn, Spend, RecycleCentury, RequestEmpty, SettleClaim,
              TriggerEnding, FinalSweep, TokensOnly, claims
<1>10. ASSUME NEW n \in Amounts, NEW h \in Holders, BurnLive(h, h, n) \/ BurnLive(h, Wrapper, n)
       PROVE  batch'[Lane] = batch[Lane]
  BY <1>3, <1>10 DEF BurnLive
<1> QED BY <1>4, <1>5, <1>7, <1>8, <1>9, <1>10 DEF Next

\* The first roll of a batch is final, whether its request's word or the ending rolled it.
THEOREM RollIsFinal == Spec => RolledOnce
<1>1. Inv /\ [Next]_vars =>
        [settling # 0 /\ batch[Lane].roll # 0 =>
           batch'[Lane].roll = batch[Lane].roll /\ batch'[Lane].payout = batch[Lane].payout]_vars
  BY RolledStays
<1> QED BY Invariance, <1>1, PTL DEF Spec, RolledOnce

------------------------------------------------------------------------------
(* What was promised is there when it is paid.                              *)

\* The claims of the settling batch still to be paid, by what they burned and by what they are owed.
Waiting == [i \in cursor + 1..Len(queue[Lane]) |-> queue[Lane][i].tokens]
Unpaid == [i \in cursor + 1..Len(queue[Lane]) |-> Share(queue[Lane][i].tokens)]

\* A closed batch holds the tokens of its claims until it is rolled.
Filled == settling # 0 /\ batch[Lane].roll = 0 => Total(Waiting) <= batch[Lane].tokens

\* A reserve leaves the sentinel behind; after game over what is pending is there, after the sweep
\* but for the two wei the sinks share.
Backed ==
  /\ reserve # 0 => claimable # 0
  /\ ~Over => short = 0
  /\ phase = "over" => short = 0 /\ pending <= Winnings + custody
  /\ phase = "swept" => claimable = 0 /\ reserve = 0 /\ short + Above(pending, custody) <= 2

\* The floor of a share is at most the whole it shares.
LEMMA PortionWithin ==
  ASSUME NEW m \in Nat, NEW d \in Nat \ {0}, NEW n \in Nat, n <= d
  PROVE  Portion(m, n, d) \in Nat /\ Portion(m, n, d) <= m
<1>1. PICK x \in Nat : x = Portion(m, n, d) /\ d * x <= m * n
  BY PortionBound
<1>2. PICK e \in Nat : d = n + e
  <2>1. d - n \in Nat /\ d = n + (d - n)
    OBVIOUS
  <2> QED BY <2>1
<1>3. m * d = m * n + m * e /\ m * e \in Nat /\ m * n \in Nat
  BY <1>2
<1>4. ASSUME x > m PROVE FALSE
  <2>1. PICK f \in Nat : x = m + 1 + f
    <3>1. x - m - 1 \in Nat /\ x = m + 1 + (x - m - 1)
      BY <1>4
    <3> QED BY <3>1
  <2>2. d * x = m * d + d + d * f /\ d * f \in Nat
    BY <2>1
  <2> QED BY <1>1, <1>3, <2>2
<1> QED BY <1>1, <1>4

\* Money outside the sentinel.
LEMMA WinningsType ==
  ASSUME MoneyType
  PROVE  /\ Winnings \in Nat /\ Free \in Nat /\ LiveMoney(TRUE) = Free
         /\ reserve <= Winnings
         /\ claimable # 0 => Winnings = claimable - 1 + reserve
         /\ claimable = 0 => Winnings = reserve
<1>1. Winnings \in Nat /\ reserve <= Winnings
      /\ (claimable # 0 => Winnings = claimable - 1 + reserve) /\ (claimable = 0 => Winnings = reserve)
  BY DEF MoneyType, Winnings, Above
<1>2. Free \in Nat
  <2>1. Winnings + custody \in Nat /\ pending \in Nat
    BY <1>1 DEF MoneyType
  <2> QED BY <2>1, LeastType DEF Free
<1>3. LiveMoney(TRUE) = Free
  BY DEF LiveMoney, Free
<1> QED BY <1>1, <1>2, <1>3

\* A payment that leaves room for what is still owed is made whole.
LEMMA PayWhole ==
  ASSUME MoneyType, reserve # 0 => claimable # 0, NEW value \in Nat, NEW owed \in Nat,
         value + owed <= Winnings + custody, Pay(value, owed)
  PROVE  /\ short' = short /\ Winnings' + custody' = (Winnings + custody) - value
         /\ reserve' # 0 => claimable' # 0
<1>1. PICK pull \in BOOLEAN :
        LET held == custody + (IF pull THEN Released - 1 ELSE 0)
            paid == Least(value, held)
        IN /\ pull => Winnings # 0
           /\ value + owed > custody => pull \/ Winnings = 0
           /\ custody' = held - paid /\ short' = short + (value - paid)
           /\ claimable' = (IF pull THEN 1 ELSE claimable) /\ reserve' = (IF pull THEN 0 ELSE reserve)
  BY DEF Pay
<1>2. Winnings \in Nat /\ custody \in Nat /\ claimable \in Nat /\ reserve \in Nat /\ short \in Nat
  BY WinningsType DEF MoneyType
<1>3. CASE pull
  <2>1. Winnings # 0 /\ claimable # 0
    BY <1>1, <1>2, <1>3, WinningsType
  <2>2. Released - 1 = Winnings
    BY <1>2, <2>1, WinningsType DEF Released
  <2>3. Least(value, custody + Winnings) = value
    BY <1>2 DEF Least
  <2>4. custody' = custody + Winnings - value /\ short' = short /\ claimable' = 1 /\ reserve' = 0
    BY <1>1, <1>2, <1>3, <2>2, <2>3
  <2>5. Winnings' = 0
    BY <2>4 DEF Winnings, Above
  <2> QED BY <1>2, <2>4, <2>5
<1>4. CASE ~pull
  <2>1. value <= custody
    BY <1>1, <1>2, <1>4
  <2>2. Least(value, custody) = value
    BY <1>2, <2>1 DEF Least
  <2>3. custody' = custody - value /\ short' = short /\ claimable' = claimable /\ reserve' = reserve
    BY <1>1, <1>2, <1>4, <2>2
  <2>4. Winnings' = Winnings
    BY <2>3 DEF Winnings
  <2> QED BY <1>2, <2>3, <2>4
<1> QED BY <1>3, <1>4

\* After the sweep only custody pays.
LEMMA PaySwept ==
  ASSUME MoneyType, claimable = 0, reserve = 0, NEW value \in Nat, NEW owed, Pay(value, owed)
  PROVE  /\ claimable' = 0 /\ reserve' = 0
         /\ value <= custody => custody' = custody - value /\ short' = short
         /\ value > custody => custody' = 0 /\ short' = short + (value - custody)
<1>1. Winnings = 0
  BY WinningsType
<1>2. /\ custody' = custody - Least(value, custody) /\ short' = short + (value - Least(value, custody))
      /\ claimable' = claimable /\ reserve' = reserve
  BY <1>1 DEF Pay, MoneyType
<1> QED BY <1>2 DEF MoneyType, Least

\* A value is a floored share of the free money.
LEMMA HolderValueBound ==
  ASSUME MoneyType, HolderBase \in Nat, NEW n \in Nat, n # 0, n <= HolderBase
  PROVE  /\ HolderValue(n, TRUE) \in Nat /\ HolderValue(n, TRUE) <= Free
         /\ HolderBase * HolderValue(n, TRUE) <= Free * n
<1>1. Free \in Nat /\ HolderBase \in Nat \ {0}
  BY WinningsType
<1>2. HolderValue(n, TRUE) = Portion(Free, n, HolderBase)
  BY WinningsType DEF HolderValue, Portion
<1> QED BY <1>1, <1>2, PortionBound, PortionWithin

\* The holder base and what it is made of.
LEMMA BaseType ==
  ASSUME Inv
  PROVE  /\ ClaimsType /\ ClaimsInv /\ TokensInv /\ MoneyType /\ escrowed \in Nat /\ supply \in Nat
         /\ HolderBase = supply + escrowed /\ HolderBase \in Nat
  BY InvParts DEF ClaimsType, TokensInv, HolderBase

\* A burn leaves with its tokens.
LEMMA BurnLeaves ==
  ASSUME Inv, NEW n \in Amounts, NEW from \in Holders \union {Wrapper}, BurnOver(from, n)
  PROVE  n \in Nat /\ n # 0 /\ n <= HolderBase /\ HolderBase' = HolderBase - n
<1>1. n <= balance[from] /\ Destroy(from, n) /\ UNCHANGED escrowed /\ UNCHANGED checkpoint
  BY DEF BurnOver
<1>2. n \in Nat /\ n # 0 /\ from \in Accounts /\ TokensInv
  BY BaseType, RedemptionAssumption, AccountTypes DEF TokensInv
<1>3. n <= supply /\ supply' = supply - n
  BY BaseType, <1>1, <1>2, DestroyTokens DEF Destroy
<1>4. HolderBase' = supply' + escrowed'
  BY DEF HolderBase
<1> QED BY BaseType, <1>1, <1>2, <1>3, <1>4

\* A claim of the open batch leaves with the tokens of its entry.
LEMMA ClaimLeaves ==
  ASSUME Inv, NEW h \in Holders, ClaimOpen(h)
  PROVE  /\ Entry(h, open) \in Nat /\ Entry(h, open) # 0 /\ Entry(h, open) <= HolderBase
         /\ HolderBase' = HolderBase - Entry(h, open)
<1>1. TakeClaim(h, open) /\ escrowed' = escrowed - Entry(h, open) /\ UNCHANGED tokens
  BY DEF ClaimOpen
<1>2. /\ Entry(h, open) \in Nat /\ Entry(h, open) # 0 /\ open \in InUse
      /\ locator[h][open % 2].batch = open
  BY BaseType, <1>1, TakeFacts
<1>3. open % 2 \in Parities /\ Located /\ EscrowIsTheOpenBatch /\ IsFiniteSet(Units(OpenEntries))
  BY BaseType, LaneFacts DEF ClaimsInv
<1>4. PICK i \in DOMAIN queue[open % 2] : Entry(h, open) = queue[open % 2][i].tokens
  BY BaseType, <1>2, <1>3, EntryFacts, QueueTypes DEF Entry
<1>5. i \in DOMAIN OpenEntries /\ OpenEntries[i] = Entry(h, open)
  BY <1>4 DEF OpenEntries
<1>6. Entry(h, open) <= Total(OpenEntries) /\ Total(OpenEntries) \in Nat
  BY <1>2, <1>3, <1>5, TotalBounds
<1>7. Entry(h, open) <= escrowed
  BY <1>3, <1>6 DEF EscrowIsTheOpenBatch
<1>8. HolderBase' = supply' + escrowed' /\ supply' = supply
  BY <1>1 DEF HolderBase, tokens
<1> QED BY BaseType, <1>1, <1>2, <1>7, <1>8

\* Differences floored at zero.
LEMMA AboveType == \A x, p \in Nat : Above(x, p) \in Nat
  BY DEF Above

LEMMA AboveRoom ==
  ASSUME NEW x \in Nat, NEW p \in Nat, NEW v \in Nat, v <= Above(x, p)
  PROVE  v <= x /\ (p <= x => v + p <= x) /\ (x <= p => v = 0)
  BY DEF Above

LEMMA AboveOut ==
  ASSUME NEW x \in Nat, NEW p \in Nat, NEW v \in Nat, v + p <= x
  PROVE  Above(x - v, p) = Above(x, p) - v /\ p <= x - v
  BY DEF Above

LEMMA AboveBoth ==
  ASSUME NEW x \in Nat, NEW p \in Nat, NEW v \in Nat, v <= x, v <= p
  PROVE  Above(x - v, p - v) = Above(x, p)
  BY DEF Above

LEMMA AboveShort ==
  ASSUME NEW x \in Nat, NEW p \in Nat, NEW v \in Nat, x < v, v <= p
  PROVE  Above(x, p) = 0 /\ Above(p - v, 0) + (v - x) = Above(p, x)
  BY DEF Above

LEMMA AboveOrder ==
  ASSUME NEW x \in Nat, NEW p \in Nat, NEW q \in Nat, q <= p
  PROVE  Above(x, q) >= Above(x, p) /\ Above(q, x) <= Above(p, x)
  BY DEF Above

\* The money a state holds, and after a step.
LEMMA MoneyIs ==
  ASSUME MoneyType, MoneyType'
  PROVE  \E x, y, c, d, p \in Nat :
           /\ x = Winnings + custody /\ y = Winnings' + custody' /\ c = custody /\ d = custody' /\ p = pending
           /\ Free = Above(x, p) /\ Free' = Above(y, pending') /\ pending' \in Nat
           /\ short \in Nat /\ short' \in Nat
<1>1. custody \in Nat /\ custody' \in Nat /\ pending \in Nat /\ pending' \in Nat /\ short \in Nat /\ short' \in Nat
  BY DEF MoneyType
<1>2. Winnings \in Nat
  BY WinningsType
<1>3. Winnings' \in Nat
  <2>1. PICK c \in Nat, r \in Nat : c = claimable' /\ r = reserve'
    BY DEF MoneyType
  <2>2. Winnings' = Above(c, 1) + r
    BY <2>1 DEF Winnings, Above
  <2>3. PICK z \in Nat : z = Above(c, 1)
    BY AboveType
  <2>4. z + r \in Nat
    OBVIOUS
  <2> QED BY <2>2, <2>3, <2>4, Zenon
<1>4. Winnings + custody \in Nat /\ Winnings' + custody' \in Nat
  <2>1. \A a, b \in Nat : a + b \in Nat
    OBVIOUS
  <2> QED BY <1>1, <1>2, <1>3, <2>1, Zenon
<1>5. Free = Above(Winnings + custody, pending) /\ Free' = Above(Winnings' + custody', pending')
  BY DEF Free
<1> QED BY <1>1, <1>4, <1>5

\* A payment out of the free money takes that much of it and nothing is short.
LEMMA PayOut ==
  ASSUME MoneyType, MoneyType', phase \in Phases, Backed, Over, UNCHANGED <<phase, pending>>,
         NEW value \in Nat, value <= Free, Pay(value, pending)
  PROVE  Backed' /\ Free' = Free - value
<1>1. PICK x, y, c, d, p \in Nat :
           /\ x = Winnings + custody /\ y = Winnings' + custody' /\ c = custody /\ d = custody' /\ p = pending
           /\ Free = Above(x, p) /\ Free' = Above(y, pending') /\ pending' \in Nat
           /\ short \in Nat /\ short' \in Nat
  BY MoneyIs
<1>2. CASE phase = "over"
  <2>1. p <= x /\ short = 0 /\ (reserve # 0 => claimable # 0)
    BY <1>1, <1>2 DEF Backed
  <2>2. value + p <= x
    BY <1>1, <2>1, AboveRoom
  <2>3. short' = short /\ y = x - value /\ (reserve' # 0 => claimable' # 0)
    <3>1. value + pending <= Winnings + custody /\ pending \in Nat /\ (reserve # 0 => claimable # 0)
      BY <1>1, <2>1, <2>2
    <3>2. /\ short' = short /\ Winnings' + custody' = (Winnings + custody) - value
          /\ reserve' # 0 => claimable' # 0
      BY <3>1, PayWhole
    <3>3. y = Winnings' + custody' /\ x = Winnings + custody
      BY <1>1
    <3>4. y = x - value
      BY <3>2, <3>3, Zenon
    <3> QED BY <3>2, <3>4, Zenon
  <2>4. p <= y /\ Above(y, p) = Above(x, p) - value
    BY <2>2, <2>3, AboveOut
  <2>5. Backed'
    BY <1>1, <1>2, <2>1, <2>3, <2>4 DEF Backed, Over
  <2> QED BY <1>1, <2>4, <2>5
<1>3. CASE phase = "swept"
  <2>1. claimable = 0 /\ reserve = 0 /\ short + Above(p, c) <= 2
    BY <1>1, <1>3 DEF Backed
  <2>2. Winnings = 0
    BY <2>1, WinningsType
  <2>3. x = c /\ value <= c /\ (c <= p => value = 0)
    BY <1>1, <2>2, AboveRoom
  <2>4. claimable' = 0 /\ reserve' = 0 /\ d = c - value /\ short' = short
    BY <1>1, <2>1, <2>3, PaySwept
  <2>5. Winnings' = 0
    BY <2>4 DEF Winnings, Above
  <2>6. y = x - value /\ y = d
    BY <1>1, <2>3, <2>4, <2>5
  <2>7. CASE p < c
    <3>1. value + p <= x
      BY <1>1, <2>3, <2>7, AboveRoom
    <3>2. p <= y /\ Above(y, p) = Above(x, p) - value
      BY <2>6, <3>1, AboveOut
    <3>3. Above(p, c) = 0 /\ Above(p, d) = 0
      BY <2>6, <2>7, <3>2 DEF Above
    <3> QED BY <1>1, <1>3, <2>1, <2>4, <3>2, <3>3 DEF Backed, Over
  <2>8. CASE c <= p
    <3>1. value = 0 /\ d = c /\ y = x
      BY <2>3, <2>4, <2>6, <2>8
    <3>2. Free \in Nat /\ Free' = Free
      BY <1>1, <3>1, AboveType
    <3>3. Free' = Free - value
      BY <3>1, <3>2
    <3> QED BY <1>1, <1>3, <2>1, <2>4, <3>1, <3>3 DEF Backed, Over
  <2> QED BY <2>7, <2>8
<1> QED BY <1>2, <1>3 DEF Over

\* A payment of what is pending leaves the free money.
LEMMA PayOff ==
  ASSUME MoneyType, MoneyType', phase \in Phases, Backed, Over, UNCHANGED phase,
         NEW value \in Nat, value <= pending, pending' = pending - value,
         Pay(value, pending - value)
  PROVE  Backed' /\ Free' >= Free
<1>1. PICK x, y, c, d, p \in Nat :
           /\ x = Winnings + custody /\ y = Winnings' + custody' /\ c = custody /\ d = custody' /\ p = pending
           /\ Free = Above(x, p) /\ Free' = Above(y, pending') /\ pending' \in Nat
           /\ short \in Nat /\ short' \in Nat
  BY MoneyIs
<1>0. pending' = p - value /\ value <= p /\ Free \in Nat
  BY <1>1, AboveType
<1>2. CASE phase = "over"
  <2>1. p <= x /\ short = 0 /\ (reserve # 0 => claimable # 0)
    BY <1>1, <1>2 DEF Backed
  <2>2. value + (p - value) <= x /\ p - value \in Nat
    BY <1>0, <2>1
  <2>3. short' = short /\ y = x - value /\ (reserve' # 0 => claimable' # 0)
    <3>1. /\ value + (pending - value) <= Winnings + custody /\ pending - value \in Nat
          /\ reserve # 0 => claimable # 0
      BY <1>1, <2>1, <2>2
    <3>2. /\ short' = short /\ Winnings' + custody' = (Winnings + custody) - value
          /\ reserve' # 0 => claimable' # 0
      BY <3>1, PayWhole
    <3>3. y = Winnings' + custody' /\ x = Winnings + custody
      BY <1>1
    <3>4. y = x - value
      BY <3>2, <3>3, Zenon
    <3> QED BY <3>2, <3>4, Zenon
  <2>4. p - value <= y /\ value <= x
    BY <1>0, <2>1, <2>3
  <2>5. Backed'
    BY <1>0, <1>1, <1>2, <2>1, <2>3, <2>4 DEF Backed, Over
  <2>6. Free' = Free
    BY <1>0, <1>1, <2>3, <2>4, AboveBoth
  <2> QED BY <1>0, <2>5, <2>6
<1>3. CASE phase = "swept"
  <2>1. claimable = 0 /\ reserve = 0 /\ short + Above(p, c) <= 2
    BY <1>1, <1>3 DEF Backed
  <2>2. Winnings = 0
    BY <2>1, WinningsType
  <2>3. /\ claimable' = 0 /\ reserve' = 0
        /\ value <= c => d = c - value /\ short' = short
        /\ value > c => d = 0 /\ short' = short + (value - c)
    BY <1>1, <2>1, PaySwept
  <2>4. Winnings' = 0
    BY <2>3 DEF Winnings, Above
  <2>5. x = c /\ y = d
    <3>1. 0 + c = c /\ 0 + d = d
      OBVIOUS
    <3> QED BY <1>1, <2>2, <2>4, <3>1, Zenon
  <2>6. CASE value <= c
    <3>1. Above(d, p - value) = Above(c, p) /\ Above(p - value, d) = Above(p, c)
      BY <1>0, <2>3, <2>6, AboveBoth
    <3> QED BY <1>0, <1>1, <1>3, <2>1, <2>3, <2>5, <2>6, <3>1 DEF Backed, Over
  <2>7. CASE value > c
    <3>1. d = 0 /\ short' = short + (value - c)
      BY <2>3, <2>7
    <3>2. Free = 0 /\ Above(p - value, 0) + (value - c) = Above(p, c)
      BY <1>0, <1>1, <2>5, <2>7, AboveShort
    <3>3. Free' \in Nat /\ Above(p - value, 0) \in Nat /\ Above(p, c) \in Nat
      BY <1>0, <1>1, AboveType
    <3>4. short' + Above(p - value, 0) <= 2
      BY <1>1, <2>1, <2>7, <3>1, <3>2, <3>3
    <3> QED BY <1>0, <1>1, <1>3, <2>3, <3>1, <3>2, <3>3, <3>4 DEF Backed, Over
  <2> QED BY <1>1, <2>6, <2>7
<1> QED BY <1>2, <1>3 DEF Over

\* A step that moves no money, or only lowers what is pending.
LEMMA PayStays ==
  ASSUME MoneyType, MoneyType', Backed, UNCHANGED <<phase, claimable, reserve, custody, short>>, pending' <= pending
  PROVE  Backed' /\ Free' >= Free /\ (pending' = pending => Free' = Free)
<1>1. PICK x, y, c, d, p \in Nat :
           /\ x = Winnings + custody /\ y = Winnings' + custody' /\ c = custody /\ d = custody' /\ p = pending
           /\ Free = Above(x, p) /\ Free' = Above(y, pending') /\ pending' \in Nat
           /\ short \in Nat /\ short' \in Nat
  BY MoneyIs
<1>2. x = y /\ c = d /\ Winnings' = Winnings
  BY <1>1 DEF Winnings
<1>3. PICK q \in Nat : q = pending' /\ q <= p
  BY <1>1
<1>4. Above(x, q) >= Above(x, p) /\ Above(q, c) <= Above(p, c) /\ Above(q, c) \in Nat /\ Above(p, c) \in Nat
  BY <1>3, AboveType, AboveOrder
<1>5. Free' >= Free /\ (pending' = pending => Free' = Free)
  BY <1>1, <1>2, <1>3, <1>4
<1>6. phase = "over" => short' = 0 /\ pending' <= Winnings' + custody'
  <2> SUFFICES ASSUME phase = "over" PROVE short' = 0 /\ q <= y
    BY <1>1, <1>3
  <2>1. short = 0 /\ p <= x
    BY <1>1 DEF Backed
  <2> QED BY <1>2, <1>3, <2>1
<1>7. phase = "swept" => short' + Above(q, d) <= 2
  <2> SUFFICES ASSUME phase = "swept" PROVE short + Above(q, c) <= 2
    BY <1>2
  <2>1. short + Above(p, c) <= 2
    BY <1>1 DEF Backed
  <2> QED BY <1>1, <1>4, <2>1
<1>8. Backed'
  BY <1>1, <1>2, <1>3, <1>6, <1>7 DEF Backed, Over
<1> QED BY <1>5, <1>8

\* Whoever leaves after game over is paid; a token left behind keeps its worth.
LEMMA LeaverPaid ==
  ASSUME Inv, MoneyType', Backed, UNCHANGED <<phase, pending>>, Over, NEW n \in Nat, n # 0, n <= HolderBase,
         HolderBase' = HolderBase - n,
         \/ Pay(HolderValue(n, TRUE), pending)
         \/ UNCHANGED <<claimable, reserve, custody, short>>
  PROVE  Backed' /\ Free' * HolderBase >= Free * HolderBase'
<1>1. MoneyType /\ phase \in Phases /\ HolderBase \in Nat /\ Free \in Nat /\ pending \in Nat
  BY BaseType, WinningsType, InvParts DEF MoneyType
<1>2. PICK b \in Nat : b = HolderBase
  BY <1>1
<1>3. PICK f \in Nat : f = Free
  BY <1>1
<1>4. b - n \in Nat /\ f * (b - n) = f * b - f * n /\ f * n \in Nat /\ f * b \in Nat
  BY <1>2, <1>3
<1>5. CASE Pay(HolderValue(n, TRUE), pending)
  <2>1. PICK v \in Nat : v = HolderValue(n, TRUE) /\ v <= f /\ b * v <= f * n
    BY <1>1, <1>2, <1>3, HolderValueBound
  <2>2. Backed' /\ Free' = f - v
    BY <1>1, <1>3, <1>5, <2>1, PayOut
  <2>3. (f - v) * b = f * b - b * v /\ b * v \in Nat
    OBVIOUS
  <2>4. (f - v) * b >= f * (b - n)
    <3>1. \A x, y, z \in Nat : y <= z => x - y >= x - z
      OBVIOUS
    <3>2. f * b - b * v >= f * b - f * n
      BY <1>4, <2>1, <2>3, <3>1
    <3> QED BY <1>4, <2>3, <3>2
  <2> QED BY <1>2, <1>3, <2>2, <2>4
<1>6. CASE UNCHANGED <<claimable, reserve, custody, short>>
  <2>1. Backed' /\ Free' = f
    BY <1>1, <1>3, <1>6, PayStays
  <2>2. f * b >= f * (b - n)
    BY <1>4
  <2> QED BY <1>2, <1>3, <2>1, <2>2
<1> QED BY <1>5, <1>6

Undiluted == Over /\ phase' = phase => Free' * HolderBase >= Free * HolderBase'

\* More free money over the same base.
LEMMA BaseKept ==
  ASSUME Inv, MoneyType', HolderBase' = HolderBase, Free' >= Free
  PROVE  Undiluted
<1>1. PICK f, b \in Nat : f = Free /\ b = HolderBase
  BY BaseType, WinningsType
<1>2. Free' \in Nat
  BY BaseType, MoneyIs, AboveType
<1>3. PICK g \in Nat : g = Free' /\ g >= f
  BY <1>1, <1>2
<1>4. PICK e \in Nat : g = f + e
  <2>1. \A m, n \in Nat : m >= n => m - n \in Nat /\ m = n + (m - n)
    OBVIOUS
  <2> QED BY <1>3, <2>1
<1>5. g * b = f * b + e * b /\ e * b \in Nat /\ f * b \in Nat
  BY <1>4
<1>6. g * b >= f * b
  <2>1. \A m, n \in Nat : m + n >= m
    OBVIOUS
  <2> QED BY <1>5, <2>1
<1> QED BY <1>1, <1>3, <1>6 DEF Undiluted

\* Before game over nothing is short yet and only the sentinel matters.
LEMMA BackedBefore ==
  ASSUME Backed, ~Over, phase' \in Phases \ {"over", "swept"}, short' = short, reserve' # 0 => claimable' # 0
  PROVE  Backed' /\ Undiluted
  BY DEF Backed, Over, Undiluted

\* Steps that move no money.
LEMMA BackedQuiet ==
  ASSUME Inv, MoneyType', Backed,
         \/ \E n \in Amounts : \/ \E to \in Holders \union {Pools} : Award(to, n)
                               \/ \E h \in Holders : Unwrap(h, n) \/ BurnLive(h, h, n) \/ BurnLive(h, Wrapper, n)
         \/ \E h \in Holders : BurnForLiquidation(h)
         \/ RecycleCentury
         \/ UNCHANGED vars
  PROVE  Backed' /\ Undiluted
<1>1. MoneyType /\ pending \in Nat
  BY BaseType DEF MoneyType
<1>2. UNCHANGED <<phase, claimable, reserve, custody, pending, short>>
  BY DEF Award, Unwrap, BurnLive, BurnForLiquidation, RecycleCentury, TokensOnly, vars, money
<1>3. Backed' /\ Free' = Free /\ Free \in Nat
  BY <1>1, <1>2, PayStays, WinningsType
<1>4. Undiluted
  <2>1. CASE ~Over
    BY <2>1 DEF Undiluted
  <2>2. CASE Over
    <3>1. (\E n \in Amounts : \E h \in Holders : Unwrap(h, n)) \/ UNCHANGED vars
      BY <2>2 DEF Award, BurnLive, BurnForLiquidation, RecycleCentury, Over
    <3>2. UNCHANGED <<supply, escrowed>>
      BY <3>1 DEF Unwrap, TokensOnly, vars, tokens
    <3>3. HolderBase' = HolderBase
      BY <3>2 DEF HolderBase
    <3> QED BY <1>3, <3>3, BaseKept
  <2> QED BY <2>1, <2>2
<1> QED BY <1>3, <1>4

\* Credits and spends of the account.
LEMMA BackedEarn ==
  ASSUME Inv, MoneyType', Backed, NEW g \in Gains, Earn(g) \/ Spend(g)
  PROVE  Backed' /\ Undiluted
<1>1. MoneyType /\ g \in Nat /\ claimable \in Nat /\ reserve \in Nat
  BY BaseType, RedemptionAssumption DEF MoneyType
<1>2. CASE Spend(g)
  <2>1. phase = "live" /\ phase' = "live" /\ claimable > g /\ claimable' = claimable - g /\ short' = short
    BY <1>2 DEF Spend
  <2>2. claimable' # 0
    BY <1>1, <2>1
  <2> QED BY <2>1, <2>2, BackedBefore DEF Over, Phases
<1>3. CASE Earn(g)
  <2>1. /\ phase # "swept" /\ claimable' = claimable + g
        /\ UNCHANGED <<phase, reserve, custody, pending, supply, escrowed, short>>
    BY <1>3 DEF Earn, tokens
  <2>2. PICK x, y, c, d, p \in Nat :
           /\ x = Winnings + custody /\ y = Winnings' + custody' /\ c = custody /\ d = custody' /\ p = pending
           /\ Free = Above(x, p) /\ Free' = Above(y, pending') /\ pending' \in Nat
           /\ short \in Nat /\ short' \in Nat
    BY <1>1, MoneyIs
  <2>3. x <= y
    <3>1. \A n \in Nat : Above(n + g, 1) \in Nat /\ Above(n, 1) \in Nat /\ Above(n, 1) <= Above(n + g, 1)
      BY <1>1 DEF Above
    <3>2. PICK v, w \in Nat : v = Above(claimable, 1) /\ w = Above(claimable + g, 1) /\ v <= w
      BY <1>1, <3>1
    <3>3. PICK r \in Nat : r = reserve
      BY <1>1
    <3>4. Winnings = v + r /\ Winnings' = w + r
      BY <2>1, <3>2, <3>3 DEF Winnings
    <3>5. x = v + r + c /\ y = w + r + c
      BY <2>1, <2>2, <3>4
    <3> QED BY <3>2, <3>3, <3>5
  <2>4. Above(y, p) >= Above(x, p)
    BY <2>3 DEF Above
  <2>5. Free' >= Free
    BY <2>1, <2>2, <2>4
  <2>6. claimable' # 0
    BY <1>1, <2>1, RedemptionAssumption
  <2>7. ASSUME phase = "over" PROVE short' = 0 /\ pending' <= Winnings' + custody'
    <3>1. short = 0 /\ p <= x
      BY <2>2, <2>7 DEF Backed
    <3>2. p <= y
      BY <2>3, <3>1
    <3> QED BY <2>1, <2>2, <3>1, <3>2
  <2>8. Backed'
    BY <2>1, <2>6, <2>7 DEF Backed, Over
  <2>9. HolderBase' = HolderBase
    BY <2>1 DEF HolderBase
  <2> QED BY <2>5, <2>8, <2>9, BaseKept
<1> QED BY <1>2, <1>3

\* Requests, rolls and live settlement.
LEMMA BackedLive ==
  ASSUME Inv, Inv', Backed, RequestEmpty \/ CloseBatch \/ ResolveLive \/ SettleClaim \/ TriggerEnding \/ ApplyTerminalWord
  PROVE  Backed' /\ Undiluted
<1>1. MoneyType /\ MoneyType' /\ claimable \in Nat /\ reserve \in Nat /\ claimable' \in Nat /\ reserve' \in Nat
      /\ (reserve # 0 => claimable # 0)
  BY BaseType, InvParts DEF MoneyType, Backed
<1>2. ~Over /\ phase' \in Phases \ {"over", "swept"} /\ short' = short
  BY DEF RequestEmpty, CloseBatch, ResolveLive, SettleClaim, TriggerEnding, ApplyTerminalWord, Over, Phases
<1>3. CASE RequestEmpty
  BY <1>2, <1>3, BackedBefore DEF RequestEmpty
<1>4. CASE ResolveLive \/ TriggerEnding \/ ApplyTerminalWord
  <2>1. claimable' = claimable /\ reserve' = reserve
    BY <1>4 DEF ResolveLive, TriggerEnding, ApplyTerminalWord, money
  <2> QED BY <1>1, <1>2, <2>1, BackedBefore
<1>5. CASE CloseBatch
  <2> DEFINE backing == Above(Above(Released, 1), pending)
             payout == LargestPayout(ClosePrice(backing), backing)
  <2>1. claimable' = Released - payout /\ reserve' = payout
    BY <1>5 DEF CloseBatch
  <2>2. PICK r, p \in Nat : r = Released /\ p = pending
    BY <1>1 DEF Released, MoneyType
  <2>3. backing \in Nat /\ (backing # 0 => backing <= r - 1)
    BY <2>2 DEF Above
  <2> HIDE DEF backing
  <2>4. payout <= backing \/ payout = 0
    <3>1. \A a, b : Least(a, b) = b \/ (Least(a, b) = a /\ a < b)
      BY DEF Least
    <3> QED BY <1>1, <2>1, <2>3, <3>1 DEF LargestPayout
  <2> HIDE DEF payout
  <2>5. payout \in Nat
    BY <1>1, <2>1
  <2>6. payout # 0 => r - payout # 0
    BY <2>2, <2>3, <2>4, <2>5
  <2> QED BY <1>2, <2>1, <2>2, <2>6, BackedBefore
<1>6. CASE SettleClaim
  <2>1. PICK s : s = Share(queue[Lane][cursor + 1].tokens)
    OBVIOUS
  <2>2. s <= reserve /\ reserve' = reserve - s /\ claimable' = claimable + Forfeited(s)
    BY <1>6, <2>1 DEF SettleClaim
  <2>3. ClaimsType /\ ClaimsInv /\ Lanes /\ settling # 0
    BY <1>6, InvParts DEF ClaimsInv, SettleClaim
  <2>4. s \in Nat
    BY <2>1, <2>3, NextClaim, ShareType
  <2>5. Forfeited(s) \in Nat
    <3>1. s - s \div 2 \in Nat
      BY <2>4
    <3> QED BY <3>1 DEF Forfeited
  <2>6. reserve' # 0 => claimable' # 0
    BY <1>1, <2>2, <2>4, <2>5
  <2> QED BY <1>2, <2>6, BackedBefore
<1> QED BY <1>3, <1>4, <1>5, <1>6

\* Rolling an unrolled batch at the end never raises what is pending.
LEMMA PendingFalls ==
  ASSUME Inv, GameOver
  PROVE  pending' <= pending /\ pending <= reserve
<1>1. MoneyType /\ Reserves /\ ~Over /\ pending \in Nat /\ reserve \in Nat
  BY InvParts DEF GameOver, Over, MoneyType
<1>2. UNCHANGED <<open, settling, cursor, escrowed, queue, locator, due>>
  BY DEF GameOver
<1>3. ResolveTerminal \/ UNCHANGED <<pending, batch>>
  BY DEF GameOver
<1>4. pending' <= pending
  BY <1>1, <1>2, <1>3, ResolveTerminalClaims
<1> QED BY <1>1, <1>4 DEF Reserves, ReserveBacksPending

\* Game over finds what is pending in the reserve; the sweep takes it along but for two wei.
LEMMA BackedEnding ==
  ASSUME Inv, MoneyType', Backed, GameOver \/ FinalSweep
  PROVE  Backed' /\ Undiluted
<1>0. Undiluted
  BY DEF Undiluted, GameOver, FinalSweep, Over
<1>1. MoneyType /\ claimable \in Nat /\ reserve \in Nat /\ custody \in Nat /\ pending \in Nat /\ pending' \in Nat
      /\ Winnings \in Nat /\ reserve <= Winnings
  BY BaseType, WinningsType DEF MoneyType
<1>2. CASE GameOver
  <2>1. phase' = "over" /\ UNCHANGED <<claimable, reserve, custody, short>> /\ ~Over
    BY <1>2 DEF GameOver, money, Over
  <2>2. Winnings' = Winnings
    BY <2>1 DEF Winnings
  <2>3. PICK w, c, p, q \in Nat : w = Winnings /\ c = custody /\ p = pending /\ q = pending' /\ q <= p /\ p <= w
    BY <1>1, <1>2, PendingFalls
  <2>4. q <= w + c
    BY <2>3
  <2>5. pending' <= Winnings' + custody'
    BY <2>1, <2>2, <2>3, <2>4
  <2> QED BY <1>0, <2>1, <2>5 DEF Backed, Over
<1>3. CASE FinalSweep
  <2>1. PICK lost \in 0..2, third \in Gains \union {0} :
          custody' = custody + Above(Winnings, lost) + third
    BY <1>3 DEF FinalSweep
  <2>2. phase = "over" /\ phase' = "swept" /\ claimable' = 0 /\ reserve' = 0 /\ UNCHANGED <<pending, short>>
    BY <1>3 DEF FinalSweep
  <2>3. short = 0 /\ pending <= Winnings + custody
    BY <2>2 DEF Backed
  <2>4. PICK w, c, p, t \in Nat : w = Winnings /\ c = custody /\ p = pending /\ t = third
    BY <1>1, RedemptionAssumption
  <2>5. PICK d \in Nat : d = c + Above(w, lost) + t /\ d = custody'
    BY <2>1, <2>4 DEF Above
  <2>6. Above(p, d) <= 2
    BY <2>3, <2>4, <2>5 DEF Above
  <2>7. short' + Above(pending', custody') <= 2
    BY <2>2, <2>3, <2>4, <2>5, <2>6, AboveType
  <2> QED BY <1>0, <2>2, <2>7 DEF Backed, Over
<1> QED BY <1>2, <1>3

\* Burns and claims after game over.
LEMMA BackedLeave ==
  ASSUME Inv, MoneyType', Backed,
         \/ \E n \in Amounts : \E from \in Holders \union {Wrapper} : BurnOver(from, n)
         \/ \E h \in Holders : ClaimSettling(h) \/ ClaimOpen(h)
  PROVE  Backed' /\ Undiluted
<1>1. MoneyType /\ phase \in Phases /\ ClaimsType /\ ClaimsInv /\ Lanes /\ pending \in Nat
  BY InvParts DEF ClaimsInv, MoneyType
<1>2. ASSUME NEW n \in Amounts, NEW from \in Holders \union {Wrapper}, BurnOver(from, n) PROVE Backed' /\ Undiluted
  <2>1. Over /\ UNCHANGED <<phase, pending>> /\ Pay(HolderValue(n, TRUE), pending)
    BY <1>2 DEF BurnOver
  <2>2. n \in Nat /\ n # 0 /\ n <= HolderBase /\ HolderBase' = HolderBase - n
    BY <1>2, BurnLeaves
  <2> QED BY <2>1, <2>2, LeaverPaid DEF Undiluted
<1>3. ASSUME NEW h \in Holders, ClaimOpen(h) PROVE Backed' /\ Undiluted
  <2>1. PICK n : n = Entry(h, open)
    OBVIOUS
  <2>2. Over /\ UNCHANGED <<phase, pending>> /\ PayClaim(h, HolderValue(n, TRUE), pending)
    BY <1>3, <2>1 DEF ClaimOpen, TakeClaim
  <2>3. n \in Nat /\ n # 0 /\ n <= HolderBase /\ HolderBase' = HolderBase - n
    BY <1>3, <2>1, ClaimLeaves
  <2>4. Pay(HolderValue(n, TRUE), pending) \/ UNCHANGED <<claimable, reserve, custody, short>>
    BY <2>2 DEF PayClaim, money
  <2> QED BY <2>2, <2>3, <2>4, LeaverPaid DEF Undiluted
<1>4. ASSUME NEW h \in Holders, ClaimSettling(h) PROVE Backed' /\ Undiluted
  <2>1. PICK v : v = Share(Entry(h, settling))
    OBVIOUS
  <2>2. /\ TakeClaim(h, settling) /\ v <= pending /\ pending' = pending - v /\ PayClaim(h, v, pending - v)
        /\ UNCHANGED <<phase, supply, escrowed>> /\ Over
    BY <1>4, <2>1 DEF ClaimSettling, TakeClaim, tokens
  <2>3. v \in Nat
    <3>1. Entry(h, settling) \in Nat /\ settling # 0
      BY <1>1, <2>2, TakeFacts DEF Live
    <3> QED BY <1>1, <2>1, <3>1, ShareType
  <2>4. Backed' /\ Free' >= Free
    <3>1. CASE h \in Acquired
      <4>1. UNCHANGED <<claimable, reserve, custody, short>>
        BY <2>2, <3>1 DEF PayClaim, money
      <4>2. pending' <= pending
        BY <1>1, <2>2, <2>3
      <4> QED BY <1>1, <2>2, <4>1, <4>2, PayStays
    <3>2. CASE h \notin Acquired
      <4>1. Pay(v, pending - v)
        BY <2>2, <3>2 DEF PayClaim
      <4> QED BY <1>1, <2>2, <2>3, <4>1, PayOff
    <3> QED BY <3>1, <3>2
  <2>5. HolderBase' = HolderBase
    BY <2>2 DEF HolderBase
  <2> QED BY <2>4, <2>5, BaseKept
<1> QED BY <1>2, <1>3, <1>4

\* Every step keeps the money backed and after game over nobody diluted.
LEMMA BackedStep ==
  ASSUME Inv, Inv', Backed, [Next]_vars
  PROVE  Backed' /\ Undiluted
<1>1. MoneyType'
  BY InvParts
<1>2. \/ \/ \E n \in Amounts : \/ \E to \in Holders \union {Pools} : Award(to, n)
                               \/ \E h \in Holders : Unwrap(h, n) \/ BurnLive(h, h, n) \/ BurnLive(h, Wrapper, n)
         \/ \E h \in Holders : BurnForLiquidation(h)
         \/ RecycleCentury
         \/ UNCHANGED vars
      \/ \E g \in Gains : Earn(g) \/ Spend(g)
      \/ RequestEmpty \/ CloseBatch \/ ResolveLive \/ SettleClaim \/ TriggerEnding \/ ApplyTerminalWord
      \/ GameOver \/ FinalSweep
      \/ \E n \in Amounts : \E from \in Holders \union {Wrapper} : BurnOver(from, n)
      \/ \E h \in Holders : ClaimSettling(h) \/ ClaimOpen(h)
  BY DEF Next
<1> QED BY <1>1, <1>2, BackedQuiet, BackedEarn, BackedLive, BackedEnding, BackedLeave

\* Shares of the settling batch and the entries they are taken of.
LEMMA CoveredIs ==
  /\ SharesAreCovered <=>
       (settling # 0 /\ batch[Lane].roll # 0 =>
          Total(Unpaid) <= pending /\ (phase = "live" => Total(Unpaid) <= left))
  /\ SharesAreCovered' <=>
       (settling' # 0 /\ batch'[Lane'].roll # 0 =>
          Total(Unpaid') <= pending' /\ (phase' = "live" => Total(Unpaid') <= left'))
  BY DEF SharesAreCovered, Unpaid

LEMMA UnpaidType ==
  ASSUME ClaimsType, ClaimsInv, settling # 0
  PROVE  LET D == cursor + 1..Len(queue[Lane]) IN
           /\ IsFiniteSet(D) /\ cursor + 1 \in D /\ cursor \in Nat /\ Len(queue[Lane]) \in Nat
           /\ Waiting \in [D -> Nat] /\ Unpaid \in [D -> Nat]
           /\ \A i \in D : /\ Waiting[i] = queue[Lane][i].tokens /\ i \in DOMAIN queue[Lane]
                           /\ Unpaid[i] = Portion(batch[Lane].payout, Waiting[i], batch[Lane].tokens)
                           /\ Unpaid[i] = Share(queue[Lane][i].tokens)
           /\ batch[Lane].tokens \in Nat \ {0} /\ batch[Lane].payout \in Nat
<1> DEFINE D == cursor + 1..Len(queue[Lane])
<1>1. Lanes /\ Lane \in Parities /\ cursor \in Nat
  BY LaneFacts DEF ClaimsInv, ClaimsType
<1>2. Len(queue[Lane]) \in Nat /\ DOMAIN queue[Lane] = 1..Len(queue[Lane])
      /\ \A i \in DOMAIN queue[Lane] : queue[Lane][i].tokens \in Nat
  BY <1>1, QueueTypes
<1>3. D \subseteq DOMAIN queue[Lane] /\ cursor + 1 \in D
  BY <1>1, <1>2 DEF Lanes
<1>4. IsFiniteSet(D)
  BY <1>1, <1>2, FS_Interval
<1>5. batch[Lane].tokens \in Nat \ {0} /\ batch[Lane].payout \in Nat
  BY <1>1 DEF ClaimsType, BatchType, Lanes
<1>6. Waiting \in [D -> Nat] /\ \A i \in D : Waiting[i] = queue[Lane][i].tokens
  BY <1>2, <1>3 DEF Waiting
<1>7. \A i \in D : Unpaid[i] = Share(queue[Lane][i].tokens) /\ Share(queue[Lane][i].tokens) \in Nat
  BY <1>1, <1>2, <1>3, ShareType DEF Unpaid
<1>8. Unpaid \in [D -> Nat]
  BY <1>7 DEF Unpaid
<1>9. \A i \in D : Share(queue[Lane][i].tokens) = Portion(batch[Lane].payout, Waiting[i], batch[Lane].tokens)
  BY <1>6 DEF Share, Portion
<1> HIDE DEF D
<1> QED BY <1>1, <1>2, <1>3, <1>4, <1>5, <1>6, <1>7, <1>8, <1>9 DEF D

\* A step that leaves the settling batch, its queue and what is assigned to it.
LEMMA SharesStay ==
  ASSUME Filled, SharesAreCovered, settling' = settling,
         settling # 0 => cursor' = cursor /\ queue'[Lane] = queue[Lane] /\ batch'[Lane] = batch[Lane],
         pending' = pending, left' = left, phase' = "live" => phase = "live"
  PROVE  Filled' /\ SharesAreCovered'
<1>1. CASE settling = 0
  BY <1>1 DEF Filled, SharesAreCovered
<1>2. CASE settling # 0
  <2>1. Lane' = Lane /\ cursor' = cursor /\ queue'[Lane] = queue[Lane] /\ batch'[Lane] = batch[Lane]
    BY <1>2 DEF Lane
  <2>2. Waiting' = Waiting
    BY <2>1 DEF Waiting
  <2>3. Unpaid' = Unpaid
    BY <2>1 DEF Unpaid, Share
  <2>4. Filled'
    BY <1>2, <2>1, <2>2 DEF Filled
  <2>5. SharesAreCovered'
    BY <1>2, <2>1, <2>3, CoveredIs
  <2> QED BY <2>4, <2>5
<1> QED BY <1>1, <1>2

\* Rolling writes the payout and the roll, not the tokens.
LEMMA RollTouches ==
  ASSUME ClaimsType, Lanes, NEW roll \in 0..MAX_ROLL, ResolveBatch(roll)
  PROVE  batch'[Lane].payout = Rolled(roll) /\ batch'[Lane].roll = roll /\ batch'[Lane].tokens = batch[Lane].tokens
<1>1. batch' = [batch EXCEPT ![Lane].payout = Rolled(roll), ![Lane].roll = roll]
  BY DEF ResolveBatch
<1>2. Rolled(roll) \in Nat /\ Lane \in Parities
  BY RolledType, LaneFacts
<1>3. /\ batch' \in [Parities -> BatchType]
      /\ batch'[Lane].payout = Rolled(roll) /\ batch'[Lane].roll = roll
      /\ batch'[Lane].id = batch[Lane].id /\ batch'[Lane].tokens = batch[Lane].tokens
      /\ \A q \in Parities \ {Lane} : batch'[q] = batch[q]
  BY <1>1, <1>2, BatchRolled DEF ClaimsType
<1> QED BY <1>3

\* Rolling sets aside the rolled payout; its floored shares by the batch's tokens fit into it.
LEMMA SharesRolled ==
  ASSUME Inv, Filled, settling # 0, batch[Lane].roll = 0, ~Over, NEW roll \in 0..MAX_ROLL, roll # 0,
         ResolveBatch(roll), UNCHANGED <<open, settling, cursor, escrowed, queue, locator, due>>
  PROVE  /\ Rolled(roll) \in Nat /\ Total(Unpaid') <= Rolled(roll) /\ pending' = Rolled(roll)
         /\ batch'[Lane'].roll # 0
<1>1. ClaimsType /\ ClaimsInv /\ Lanes /\ MoneyType /\ Reserves
  BY InvParts DEF ClaimsInv
<1>2. Lane' = Lane /\ Lane \in Parities
  BY <1>1, LaneFacts DEF Lane
<1>3. Rolled(roll) \in Nat
  BY <1>1, RolledType
<1>5. batch'[Lane].payout = Rolled(roll) /\ batch'[Lane].roll = roll /\ batch'[Lane].tokens = batch[Lane].tokens
  BY <1>1, RollTouches
<1>6. pending' = Rolled(roll)
  BY <1>1, PendingType DEF Reserves
<1> DEFINE D == cursor + 1..Len(queue[Lane])
<1>7. IsFiniteSet(D) /\ Waiting \in [D -> Nat] /\ batch[Lane].tokens \in Nat \ {0}
      /\ \A i \in D : Waiting[i] = queue[Lane][i].tokens
  BY <1>1, UnpaidType
<1>8. Total(Waiting) <= batch[Lane].tokens
  BY DEF Filled
<1>9. Unpaid' = [i \in D |-> Portion(Rolled(roll), Waiting[i], batch[Lane].tokens)]
  <2>1. Unpaid' = [i \in D |-> (batch'[Lane'].payout * queue'[Lane'][i].tokens) \div batch'[Lane'].tokens]
    BY <1>2 DEF Unpaid, Share
  <2>2. \A i \in D : (batch'[Lane'].payout * queue'[Lane'][i].tokens) \div batch'[Lane'].tokens
                       = Portion(Rolled(roll), Waiting[i], batch[Lane].tokens)
    BY <1>2, <1>5, <1>7 DEF Portion
  <2> HIDE DEF D
  <2> QED BY <2>1, <2>2
<1>10. Total(Unpaid') <= Rolled(roll)
  <2> HIDE DEF D
  <2>1. PICK m \in Nat : m = Rolled(roll)
    BY <1>3
  <2>2. Total([i \in D |-> Portion(m, Waiting[i], batch[Lane].tokens)]) <= m
    BY <1>7, <1>8, PortionsFit
  <2> QED BY <1>9, <2>1, <2>2
<1> QED BY <1>2, <1>3, <1>5, <1>6, <1>10

\* The first settlement call and the ending's flat roll.
LEMMA SharesResolved ==
  ASSUME Inv, Inv', Filled, SharesAreCovered, ResolveLive \/ ApplyTerminalWord \/ GameOver
  PROVE  Filled' /\ SharesAreCovered'
<1>1. UNCHANGED <<open, settling, cursor, escrowed, queue, locator, due>> /\ ~Over
  BY DEF ResolveLive, ApplyTerminalWord, GameOver, Over
<1>2. ASSUME NEW roll \in 0..MAX_ROLL, roll # 0, ResolveBatch(roll), settling # 0, batch[Lane].roll = 0,
             phase' = "live" => left' = Rolled(roll)
      PROVE  Filled' /\ SharesAreCovered'
  <2>1. /\ Rolled(roll) \in Nat /\ Total(Unpaid') <= Rolled(roll) /\ pending' = Rolled(roll)
        /\ batch'[Lane'].roll # 0
    BY <1>1, <1>2, SharesRolled
  <2>2. SharesAreCovered'
    BY <1>2, <2>1, CoveredIs
  <2> QED BY <2>1, <2>2 DEF Filled
<1>3. CASE ResolveLive
  <2>1. PICK roll \in Rolls : ResolveBatch(roll) /\ left' = Rolled(roll)
    BY <1>3 DEF ResolveLive
  <2>2. roll \in 0..MAX_ROLL /\ roll # 0
    BY RedemptionAssumption DEF MAX_ROLL
  <2> QED BY <1>2, <1>3, <2>1, <2>2 DEF ResolveLive
<1>4. CASE ApplyTerminalWord \/ GameOver
  <2>1. phase' # "live" /\ left' = left /\ (ResolveTerminal \/ UNCHANGED <<pending, batch>>)
    BY <1>4 DEF ApplyTerminalWord, GameOver
  <2>2. CASE settling # 0 /\ batch[Lane].roll = 0 /\ ResolveTerminal
    <3>1. ENDING_ROLL \in 0..MAX_ROLL /\ ENDING_ROLL # 0 /\ ResolveBatch(ENDING_ROLL)
      BY <2>2 DEF ENDING_ROLL, MAX_ROLL, ResolveTerminal
    <3> QED BY <1>2, <2>1, <2>2, <3>1
  <2>3. CASE UNCHANGED <<pending, batch>>
    BY <1>1, <2>1, <2>3, SharesStay
  <2>4. UNCHANGED <<pending, batch>> \/ (settling # 0 /\ batch[Lane].roll = 0 /\ ResolveTerminal)
    BY <2>1 DEF ResolveTerminal
  <2> QED BY <2>2, <2>3, <2>4
<1> QED BY <1>3, <1>4

\* A closed batch holds the tokens of its entries.
LEMMA SharesClosed ==
  ASSUME Inv, CloseBatch
  PROVE  Filled' /\ SharesAreCovered'
<1> DEFINE p == open % 2
<1>1. ClaimsType /\ ClaimsInv /\ Lanes /\ EscrowIsTheOpenBatch /\ batch \in [Parities -> BatchType]
      /\ p \in Parities /\ cursor = 0 /\ OpenTokens # 0
  BY InvParts, LaneFacts DEF ClaimsInv, CloseBatch, Lanes, ClaimsType
<1>2. batch[p].id = open /\ batch[p].roll = 0 /\ batch[p].tokens = Total(OpenEntries)
  <2>1. batch[p].id = open
    BY <1>1 DEF OpenTokens
  <2> QED BY <1>1, <2>1 DEF OpenTokens, Lanes, EscrowIsTheOpenBatch
<1>3. PICK x, y : batch' = [batch EXCEPT ![p].payout = x, ![p].base = y]
  BY DEF CloseBatch
<1>4. batch'[p].roll = 0 /\ batch'[p].tokens = Total(OpenEntries)
  <2> DEFINE b == [batch[p] EXCEPT !.payout = x, !.base = y]
  <2>1. batch[p] \in BatchType
    BY <1>1
  <2>2. b.roll = batch[p].roll /\ b.tokens = batch[p].tokens
    BY <2>1 DEF BatchType
  <2>3. batch' = [batch EXCEPT ![p] = b]
    BY <1>1, <1>3, <2>1 DEF BatchType
  <2> HIDE DEF b, p
  <2> QED BY <1>1, <1>2, <2>2, <2>3
<1>5. Lane' = p /\ cursor' = 0 /\ queue' = queue
  BY <1>1 DEF CloseBatch, Lane
<1>6. Waiting' = [i \in 1..Len(queue[p]) |-> queue[p][i].tokens]
  <2>1. 0 + 1 = 1
    OBVIOUS
  <2> QED BY <1>5, <2>1 DEF Waiting
<1>7. Waiting' = OpenEntries
  <2>1. DOMAIN queue[p] = 1..Len(queue[p])
    BY <1>1, QueueTypes
  <2> QED BY <1>6, <2>1 DEF OpenEntries
<1>8. Total(OpenEntries) <= Total(OpenEntries)
  <2>1. Total(OpenEntries) \in Nat
    BY <1>1, TotalBounds DEF ClaimsInv
  <2> QED BY <2>1
<1>9. Filled'
  <2> HIDE DEF p
  <2> QED BY <1>4, <1>5, <1>7, <1>8 DEF Filled
<1>10. SharesAreCovered'
  BY <1>4, <1>5, CoveredIs
<1> QED BY <1>9, <1>10

\* Paying the entry under the cursor takes its share from the sum and from what covers it.
LEMMA SharesPaid ==
  ASSUME Inv, Inv', SharesAreCovered, SettleClaim
  PROVE  Filled' /\ SharesAreCovered'
<1> DEFINE D == cursor + 1..Len(queue[Lane])
<1>1. ClaimsType /\ ClaimsInv /\ settling # 0 /\ phase = "live" /\ batch[Lane].roll # 0 /\ MoneyType
      /\ UNCHANGED batch
  BY InvParts DEF SettleClaim
<1>2. IsFiniteSet(D) /\ cursor + 1 \in D /\ cursor \in Nat /\ Len(queue[Lane]) \in Nat
      /\ Unpaid \in [D -> Nat] /\ \A i \in D : Unpaid[i] = Share(queue[Lane][i].tokens)
  BY <1>1, UnpaidType
<1>3. CASE cursor + 1 = Len(queue[Lane])
  <2>1. settling' = 0
    BY <1>3 DEF SettleClaim
  <2> QED BY <2>1 DEF Filled, SharesAreCovered
<1>4. CASE cursor + 1 # Len(queue[Lane])
  <2>1. PICK s : s = Unpaid[cursor + 1]
    OBVIOUS
  <2>2. /\ pending' = pending - s /\ left' = left - s
        /\ cursor' = cursor + 1 /\ UNCHANGED <<settling, queue>>
    BY <1>2, <1>4, <2>1 DEF SettleClaim
  <2>3. Lane' = Lane
    BY <2>2 DEF Lane
  <2> DEFINE E == cursor + 1 + 1..Len(queue[Lane])
  <2>4. Unpaid' = [i \in E |-> Share(queue[Lane][i].tokens)]
    BY <1>1, <2>2, <2>3 DEF Unpaid, Share
  <2>5. D = E \cup {cursor + 1} /\ cursor + 1 \notin E
    BY <1>2
  <2> HIDE DEF D, E
  <2>6. PICK g : g = Unpaid'
    OBVIOUS
  <2>7. DOMAIN g = E /\ IsFiniteSet(E) /\ g \in [E -> Nat] /\ \A i \in E : Unpaid[i] = g[i]
    <3>1. IsFiniteSet(E)
      BY <1>2, <2>5, FS_Subset
    <3>2. \A i \in E : g[i] = Unpaid[i] /\ Unpaid[i] \in Nat
      BY <1>2, <2>4, <2>5, <2>6
    <3> QED BY <2>4, <2>6, <3>1, <3>2
  <2>8. IsFiniteSet(Units(g)) /\ Total(g) \in Nat
    BY <2>7, TotalFinite
  <2>9. s \in Nat /\ DOMAIN Unpaid = DOMAIN g \cup {cursor + 1}
    BY <1>2, <2>1, <2>5, <2>7
  <2>10. Total(Unpaid) = Total(g) + s
    BY <2>1, <2>5, <2>7, <2>8, <2>9, TotalExtend
  <2>11. Total(Unpaid) <= pending /\ Total(Unpaid) <= left
    BY <1>1, CoveredIs
  <2>12. Total(g) <= pending' /\ Total(g) <= left'
    <3>1. PICK p, l, t \in Nat : p = pending /\ l = left /\ t = Total(g)
      BY <1>1, <2>8 DEF MoneyType
    <3>2. t <= p - s /\ t <= l - s
      BY <2>9, <2>10, <2>11, <3>1
    <3> QED BY <2>2, <3>1, <3>2
  <2>13. SharesAreCovered'
    BY <2>6, <2>12, CoveredIs
  <2>14. Filled'
    BY <1>1, <2>2, <2>3 DEF Filled
  <2> QED BY <2>13, <2>14
<1> QED BY <1>3, <1>4

\* A claim of the settling batch after game over zeroes its entry, past the cursor.
LEMMA SharesClaimed ==
  ASSUME Inv, Inv', SharesAreCovered, NEW h \in Holders, ClaimSettling(h)
  PROVE  Filled' /\ SharesAreCovered'
<1> DEFINE D == cursor + 1..Len(queue[Lane])
<1>1. ClaimsType /\ ClaimsInv /\ Located /\ MoneyType
  BY InvParts DEF ClaimsInv
<1>2. /\ TakeClaim(h, settling) /\ batch[Lane].roll # 0
      /\ pending' = pending - Share(Entry(h, settling))
      /\ UNCHANGED <<phase, settling, cursor, batch, open>>
  BY DEF ClaimSettling
<1>3. /\ settling \in InUse /\ Over /\ Live(h, settling) /\ locator[h][Lane].batch = settling /\ settling # 0
      /\ SetEntry(Lane, locator[h][Lane].index, 0)
  <2>1. Live(h, settling) => settling # 0
    BY DEF Live
  <2> QED BY <1>1, <1>2, <2>1, TakeFacts DEF Lane
<1>4. IsFiniteSet(D) /\ cursor \in Nat /\ Len(queue[Lane]) \in Nat
      /\ Unpaid \in [D -> Nat] /\ batch[Lane].tokens \in Nat \ {0} /\ batch[Lane].payout \in Nat
      /\ \A i \in D : Unpaid[i] = Share(queue[Lane][i].tokens) /\ i \in DOMAIN queue[Lane]
  BY <1>1, <1>3, UnpaidType
<1>5. PICK k \in D : k = locator[h][Lane].index /\ Entry(h, settling) = queue[Lane][k].tokens
  <2>1. locator[h][Lane].index \in 1..Len(queue[Lane])
    BY <1>1, <1>3, EntryFacts DEF Lane
  <2>2. locator[h][Lane].index > cursor
    BY <1>3 DEF Live, Lane
  <2>3. locator[h][Lane].index \in D
    BY <1>4, <2>1, <2>2
  <2> QED BY <2>3 DEF Entry, Lane
<1>6. Lane \in Parities /\ Lane' = Lane
  BY <1>1, <1>2, LaneFacts DEF ClaimsInv, Lane
<1>7. Len(queue'[Lane]) = Len(queue[Lane]) /\ queue'[Lane][k].tokens = 0
      /\ \A j \in DOMAIN queue[Lane] \ {k} : queue'[Lane][j] = queue[Lane][j]
  BY <1>1, <1>3, <1>4, <1>5, <1>6, EntrySet
<1>8. PICK g : g = Unpaid'
  OBVIOUS
<1>9. g = [i \in D |-> Share(queue'[Lane][i].tokens)]
  BY <1>2, <1>6, <1>7, <1>8 DEF Unpaid, Share
<1> HIDE DEF D
<1>10. Share(0) = 0
  <2>1. batch[Lane].payout * 0 = 0 /\ 0 \div batch[Lane].tokens = 0
    BY <1>4
  <2> QED BY <2>1 DEF Share
<1>11. DOMAIN g = DOMAIN Unpaid /\ k \in DOMAIN Unpaid /\ g[k] = 0 /\ \A j \in DOMAIN Unpaid \ {k} : g[j] = Unpaid[j]
  BY <1>4, <1>5, <1>7, <1>9, <1>10
<1>12. IsFiniteSet(Units(Unpaid)) /\ Total(Unpaid) \in Nat
  BY <1>4, TotalFinite
<1>13. PICK s \in Nat : s = Unpaid[k] /\ pending' = pending - s
  BY <1>2, <1>4, <1>5
<1>14. Total(g) = Total(Unpaid) - s + 0 /\ s <= Total(Unpaid)
  BY <1>11, <1>12, <1>13, TotalUpdate, TotalBounds
<1>15. Total(Unpaid) <= pending
  BY <1>2, <1>3, CoveredIs
<1>16. Total(g) <= pending'
  <2>1. PICK p, t \in Nat : p = pending /\ t = Total(Unpaid)
    BY <1>1, <1>12 DEF MoneyType
  <2>2. t - s + 0 <= p - s
    BY <1>15, <2>1
  <2> QED BY <1>13, <1>14, <2>1, <2>2
<1>17. phase' # "live"
  BY <1>2, <1>3 DEF Over
<1> QED BY <1>2, <1>6, <1>8, <1>16, <1>17, CoveredIs DEF Filled

\* Every step keeps the shares covered.
LEMMA SharesStep ==
  ASSUME Inv, Inv', Filled, SharesAreCovered, [Next]_vars
  PROVE  Filled' /\ SharesAreCovered'
<1>1. ClaimsType /\ Lanes /\ ClaimsInv
  BY InvParts DEF ClaimsInv
<1>2. Lane \in Parities /\ open % 2 \in Parities /\ (settling # 0 => Lane # open % 2)
  BY <1>1, LaneFacts
<1>3. ASSUME \/ \E n \in Amounts : \/ \E to \in Holders \union {Pools} : Award(to, n)
                                   \/ \E h \in Holders : Unwrap(h, n)
                                   \/ \E from \in Holders \union {Wrapper} : BurnOver(from, n)
             \/ \E h \in Holders : BurnForLiquidation(h)
             \/ \E g \in Gains : Earn(g) \/ Spend(g)
             \/ RecycleCentury \/ RequestEmpty \/ TriggerEnding \/ FinalSweep \/ UNCHANGED vars
      PROVE  Filled' /\ SharesAreCovered'
  <2>1. UNCHANGED <<pending, settling, cursor, left, batch, queue>> /\ (phase' = "live" => phase = "live")
    BY <1>3 DEF Award, Unwrap, BurnOver, BurnForLiquidation, Earn, Spend, RecycleCentury, RequestEmpty,
                TriggerEnding, FinalSweep, TokensOnly, claims, vars
  <2> QED BY <2>1, SharesStay
<1>4. ASSUME NEW n \in Amounts, NEW h \in Holders, BurnLive(h, h, n) \/ BurnLive(h, Wrapper, n)
      PROVE  Filled' /\ SharesAreCovered'
  <2>1. JoinOpenBatch(h, n) /\ UNCHANGED <<phase, pending, settling, cursor, left>> /\ n \in Nat
    BY <1>4, RedemptionAssumption DEF BurnLive
  <2>2. settling # 0 => batch'[Lane] = batch[Lane]
    BY <1>1, <1>2, <2>1, BatchJoined
  <2>3. settling # 0 => queue'[Lane] = queue[Lane]
    <3>1. \E s : queue' = [queue EXCEPT ![open % 2] = s]
      <4>1. CASE InOpenBatch(h)
        BY <2>1, <4>1 DEF JoinOpenBatch
      <4>2. CASE ~InOpenBatch(h)
        BY <2>1, <4>2 DEF JoinOpenBatch
      <4> QED BY <4>1, <4>2
    <3> QED BY <1>1, <1>2, <3>1 DEF ClaimsType
  <2> QED BY <2>1, <2>2, <2>3, SharesStay
<1>5. ASSUME NEW h \in Holders, ClaimOpen(h) PROVE Filled' /\ SharesAreCovered'
  <2>1. /\ UNCHANGED <<phase, pending, settling, cursor, left>>
        /\ batch' = [batch EXCEPT ![open % 2].tokens = @ - Entry(h, open)]
        /\ queue' = [queue EXCEPT ![open % 2][locator[h][open % 2].index].tokens = 0]
    BY <1>5 DEF ClaimOpen, TakeClaim
  <2>2. settling # 0 => batch'[Lane] = batch[Lane] /\ queue'[Lane] = queue[Lane]
    BY <1>1, <1>2, <2>1 DEF ClaimsType
  <2> QED BY <2>1, <2>2, SharesStay
<1> QED BY <1>3, <1>4, <1>5, SharesResolved, SharesClosed, SharesPaid, SharesClaimed DEF Next

\* The invariant behind both.
LEMMA Covering == Spec => [](Inv /\ Filled /\ SharesAreCovered /\ Backed)
<1>1. Init => Inv /\ Filled /\ SharesAreCovered /\ Backed
  <2>1. Init => Filled /\ SharesAreCovered
    BY DEF Init, Filled, SharesAreCovered
  <2>2. Init => Backed
    BY DEF Init, Backed, Over
  <2> QED BY <2>1, <2>2, InitInv
<1>2. (Inv /\ Filled /\ SharesAreCovered /\ Backed) /\ [Next]_vars => (Inv /\ Filled /\ SharesAreCovered /\ Backed)'
  BY StepInv, SharesStep, BackedStep
<1> QED BY <1>1, <1>2, PTL DEF Spec

\* Settlement never reverts for want of a reservation, and after game over no payment falls short:
\* whoever burns or claims, in whatever order, is paid what the code promised.
THEOREM ClaimsAreCovered == Spec => []ClaimsCovered
<1>1. Filled /\ SharesAreCovered /\ Backed /\ Inv => ClaimsCovered
  <2> SUFFICES ASSUME SharesAreCovered, Backed, Inv PROVE ClaimsCovered
    OBVIOUS
  <2>1. short \in Nat /\ pending \in Nat /\ custody \in Nat /\ phase \in Phases
    BY InvParts DEF MoneyType
  <2>2. Above(pending, custody) \in Nat
    BY <2>1, AboveType
  <2>3. NobodyShorted
    BY <2>1, <2>2 DEF NobodyShorted, Backed, Over, Phases
  <2> QED BY <2>3 DEF ClaimsCovered
<1> QED BY Covering, <1>1, PTL

\* Nobody who leaves after game over takes from those who stay.
THEOREM StayersKeepWorth == Spec => LeaversDoNotDilute
<1>1. /\ (Inv /\ Filled /\ SharesAreCovered /\ Backed)
      /\ (Inv /\ Filled /\ SharesAreCovered /\ Backed)'
      /\ [Next]_vars
      => [Over /\ phase' = phase => Free' * (supply + escrowed) >= Free * (supply + escrowed)']_vars
  BY BackedStep DEF Undiluted, HolderBase
<1> QED BY Covering, <1>1, PTL DEF Spec, LeaversDoNotDilute
===============================================================================

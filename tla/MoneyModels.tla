----------------------------- MODULE MoneyModels -----------------------------
(***************************************************************************)
(* Two arithmetic models the scripts check: check-split-arithmetic.py, how  *)
(* a jackpot pool is split into four buckets, and check-eth-loan-           *)
(* bootstrap.py, how much could be borrowed at once against the tickets of  *)
(* a newly bought whale pass.  Loan amounts are in units of 10^12 wei.      *)
(***************************************************************************)
EXTENDS Integers, Sequences, FiniteSets, Rounds

CONSTANTS
  BPS,                       \* the whole, in basis points
  Pools,                     \* bound: pools that are split
  Quantities                 \* bound: whale passes bought at once (1000 at most in the script)

ASSUME MoneyAssumption == BPS \in Nat \ {0} /\ Pools \subseteq Nat /\ Quantities \subseteq Nat \ {0}

VARIABLES
  split,   \* a pool, the four shares in basis points, the winners of each bucket, and the remainder bucket
  loan     \* a pass level, the active level and a quantity

Buckets == 0..3

SplitIdle == [pool |-> 0, bps |-> [i \in Buckets |-> 0], winners |-> [i \in Buckets |-> 0],
              remainder |-> 0, chosen |-> 0]
LoanIdle == [start |-> 0, active |-> 0, quantity |-> 0]
MoneyIdle == split = SplitIdle /\ loan = LoanIdle

\* Amounts added up, in turn.
Added(s) == Scanned(+, 0, s)[Len(s)]

-----------------------------------------------------------------------------
(* The split.                                                              *)

OverBuckets(of(_)) == of(0) + of(1) + of(2) + of(3)

\* Mutant: shares are rounded up.
RoundedUp(pool, b) == (pool * b + BPS - 1) \div BPS

Rounded(pool, b) == (pool * b) \div BPS

Share(s, i) == Rounded(s.pool, s.bps[i])
Ordinary(s) == Buckets \ {s.remainder}

\* Empty ordinary buckets count as distributed, and what they are not paid stays with the caller.
Distributed(s) ==
  LET ordinary(i) == IF i \in Ordinary(s) THEN Share(s, i) ELSE 0 IN OverBuckets(ordinary)
Paid(s, i) ==
  IF i = s.remainder THEN s.pool - Distributed(s) ELSE IF s.winners[i] # 0 THEN Share(s, i) ELSE 0
Omitted(s) ==
  LET empty(i) == IF i \in Ordinary(s) /\ s.winners[i] = 0 THEN Share(s, i) ELSE 0 IN OverBuckets(empty)

TotalBps(s) == LET bps(i) == s.bps[i] IN OverBuckets(bps)

ChoosePool(pool, remainder) ==
  /\ loan = LoanIdle /\ split = SplitIdle
  /\ split' = [SplitIdle EXCEPT !.pool = pool, !.remainder = remainder, !.chosen = 1]
  /\ UNCHANGED loan

\* Mutant: nothing keeps the basis points within the whole.
WithinAny(s, b) == TRUE

Within(s, b) == TotalBps(s) + b <= BPS

ChooseBucket(b, winners) ==
  /\ split.chosen \in 1..4 /\ Within(split, b)
  /\ split' = [split EXCEPT !.bps[split.chosen - 1] = b, !.winners[split.chosen - 1] = winners,
                            !.chosen = @ + 1]
  /\ UNCHANGED loan

-----------------------------------------------------------------------------
(* The loan.                                                               *)

\* Mutant: only the first century level costs what a century level does.
PriceOfFirstCentury(level) ==
  IF level < 5 THEN 1 ELSE IF level < 10 THEN 2
  ELSE IF level = 100 THEN 24
  ELSE LET r == level % 100 IN IF r < 30 THEN 4 ELSE IF r < 60 THEN 8 ELSE IF r < 90 THEN 12 ELSE 16

\* In hundredths of an ETH.
Price(level) ==
  IF level < 5 THEN 1 ELSE IF level < 10 THEN 2
  ELSE LET r == level % 100
       IN IF r = 0 THEN 24 ELSE IF r < 30 THEN 4 ELSE IF r < 60 THEN 8 ELSE IF r < 90 THEN 12 ELSE 16

\* What may be borrowed on a ticket so many levels away, in basis points.
Rate(distance) ==
  IF distance <= 20 THEN 1000 - ((distance - 2) * 500) \div 18 ELSE 500 - ((distance - 20) * 300) \div 80

Unit(target, active) == Price(target) * Rate(target - active)

\* The levels of a pass: start + 2 up to start + 99.
OverPass(start, of(_)) == Added([k \in 1..98 |-> of(start + 1 + k)])

Bonus(start) == IF start < 10 THEN 10 - start ELSE 0

\* Mutant: every level of the pass carries five tickets.
EarlyAlways(target) == TRUE

\* Levels that carry five tickets a pass, not half a one.
Early(target) == target < 10
Odd(start, target) == (target - start - Bonus(start)) % 2 = 0

\* The aggregate sums of a pass: five-ticket levels, half-ticket levels, and those of them that round up.
Sums(start, active) ==
  LET early(target) == IF Early(target) THEN 5 * Unit(target, active) ELSE 0
      base(target) == IF ~Early(target) THEN Unit(target, active) ELSE 0
      odd(target) == IF ~Early(target) /\ Odd(start, target) THEN Unit(target, active) ELSE 0
  IN [early |-> OverPass(start, early), base |-> OverPass(start, base), odd |-> OverPass(start, odd)]

\* One pass more for every five.
Award(quantity) == quantity + quantity \div 5

Principal(start, active, quantity) ==
  LET sums == Sums(start, active)
      award == Award(quantity)
  IN award * sums.early + (award \div 2) * sums.base + (award % 2) * sums.odd

\* In units of 10^15 wei; 35% of one pass is free.
PassCost(start, quantity) == (IF start <= 4 THEN 24 ELSE 40) * (100 * quantity - 35)

Borrow(start, active, quantity) ==
  /\ split = SplitIdle /\ loan = LoanIdle
  /\ loan' = [start |-> start, active |-> active, quantity |-> quantity]
  /\ UNCHANGED split

Starts == 1..109

MoneyNext ==
  \/ \E pool \in Pools, remainder \in Buckets : ChoosePool(pool, remainder)
  \/ \E b \in 0..BPS, winners \in {0, 1} : ChooseBucket(b, winners)
  \/ \E start \in Starts, quantity \in Quantities : \E active \in {start, start - 1} :
       Borrow(start, active, quantity)

-----------------------------------------------------------------------------
(* Properties.                                                              *)

(* The checks of the split: four floored shares and a remainder never pay more than the pool, the remainder
   does not go below zero, and what is paid and what empty buckets are refunded is the pool to the last wei. *)
SplitConserves ==
  LET each(i) == Paid(split, i)
      paid == OverBuckets(each)
  IN /\ Distributed(split) \in 0..split.pool
     /\ paid <= split.pool
     /\ paid + Omitted(split) = split.pool

\* The same tickets one by one: an odd award gives its half ticket to every other level.
TicketsAt(start, target, award) ==
  IF Early(target) THEN 5 * award
  ELSE (award + (IF Odd(start, target) THEN 1 ELSE 0)) \div 2

(* "assert principal < cost": what can be borrowed on a newly bought pass is below its price, with the
   aggregate sums worth exactly the tickets taken one by one. *)
LoanBelowCost ==
  loan # LoanIdle =>
    LET principal == Principal(loan.start, loan.active, loan.quantity)
        worth(target) == TicketsAt(loan.start, target, Award(loan.quantity)) * Unit(target, loan.active)
    IN /\ principal \div 1000 < PassCost(loan.start, loan.quantity)
       /\ principal = OverPass(loan.start, worth)

(* "Starts 10..109 cover each repeating price position once": a pass a hundred levels later is worth the
   same and costs the same. *)
OnePeriodCovers ==
  loan # LoanIdle /\ loan.start >= 10 =>
    /\ Sums(loan.start + 100, loan.active + 100) = Sums(loan.start, loan.active)
    /\ PassCost(loan.start + 100, loan.quantity) = PassCost(loan.start, loan.quantity)
=============================================================================

----------------------------- MODULE Degenerette -----------------------------
(***************************************************************************)
(* The two scripts behind the Degenerette tables.                           *)
(* data/degenerette_single_symbol_math.py derives the exact score and wild  *)
(* distribution twice, by generating functions and by enumerating lane      *)
(* flags; data/degenerette_wild_vectors.py rolls concrete reels for the     *)
(* fixture the contract tests replay.  Distributions are integer counts;    *)
(* the payout tables and units are constants, small enough for integers.    *)
(***************************************************************************)
EXTENDS Integers, Sequences, FiniteSets, FiniteSetsExt, TLC

CONSTANTS
  SymbolSides, WildSides,  \* one in so many symbols or colors match, and house lanes are wild
  PlayerLanes,             \* bound: ordinary lanes of a player's ticket
  Symbols, Colors,
  Base, EthAdd, WwxrpTop,  \* centix tables: scores 3.., and the WWXRP prizes of scores 8 and 9
  Knees, FlipCurve, WwxrpCurve, WwxrpFloor, WwxrpFactor,
  CentixUnit, BpsUnit, Scale,
  Stakes, Activities       \* bound: stakes and activity scores met

ASSUME DegeneretteAssumption ==
  /\ SymbolSides \in Nat \ {0, 1} /\ WildSides \in Nat \ {0, 1}
  /\ PlayerLanes \subseteq [wild : {FALSE}, color : Colors, symbol : Symbols] /\ 0 \in Colors
  /\ Len(Knees) = Len(FlipCurve) /\ Len(Knees) = Len(WwxrpCurve)

VARIABLES
  joint,   \* the convolution's distribution and how many lane functions it has taken in
  reel     \* a spin: its hero lane, both tickets as far as drawn, and what it scored and paid

Lanes == 0..3

-----------------------------------------------------------------------------
(* The distribution by generating functions.                               *)

Convolve(a, b) ==
  [k \in {<<x[1] + y[1], x[2] + y[2]>> : x \in DOMAIN a, y \in DOMAIN b} |->
     MapThenSumSet(LAMBDA xy : a[xy[1]] * b[xy[2]],
       {xy \in (DOMAIN a) \X (DOMAIN b) : k = <<xy[1][1] + xy[2][1], xy[1][2] + xy[2][2]>>})]

\* Mutant: the hero color's house wild raises the score but is not counted as a wild.
HeroColorUncounted == (<<1, 0>> :> (WildSides - 1)) @@ (<<2, 0>> :> 1)

\* Score and house wilds of one lane function, with the number of equally likely ways.
HeroColor == (<<1, 0>> :> (WildSides - 1)) @@ (<<2, 1>> :> 1)
Symbol == (<<0, 0>> :> (SymbolSides - 1)) @@ (<<1, 0>> :> 1)
Color ==
  (<<0, 0>> :> (WildSides - 1) * (SymbolSides - 1)) @@ (<<1, 0>> :> (WildSides - 1))
  @@ (<<1, 1>> :> SymbolSides)

LaneFunction(k) == IF k <= 4 THEN Symbol ELSE Color

-----------------------------------------------------------------------------
(* The distribution by enumeration of lane flags; lane 0 is the hero's.     *)

LaneScore(hits, wild, same) ==
  Cardinality(hits) + (IF 0 \in wild THEN 2 ELSE 1) + Cardinality((wild \cup same) \ {0})

Flags == [hits : SUBSET Lanes, wild : SUBSET Lanes, same : SUBSET (1..3)]

Ways(f) ==
  (SymbolSides - 1) ^ (7 - Cardinality(f.hits) - Cardinality(f.same))
  * (WildSides - 1) ^ (4 - Cardinality(f.wild))

Outcome(f) == <<LaneScore(f.hits, f.wild, f.same), Cardinality(f.wild)>>

\* Mutant: a miss of the last axis is helped as well.
HelpableToTheEnd(score, matches) == score >= 3 /\ matches <= 7

Helpable(score, matches) == score >= 3 /\ matches <= 6

Axes(f) ==
  {<<"symbol", q>> : q \in (1..3) \ f.hits} \cup {<<"color", q>> : q \in (1..3) \ (f.wild \cup f.same)}

HelpedFlags(f, axis) ==
  IF axis[1] = "symbol" THEN [f EXCEPT !.hits = @ \cup {axis[2]}]
  ELSE [f EXCEPT !.same = @ \cup {axis[2]}]

Matches(f) == LaneScore(f.hits, f.wild, f.same) - (IF 0 \in f.wild THEN 1 ELSE 0)

Helps(f) == Helpable(LaneScore(f.hits, f.wild, f.same), Matches(f))

OverFlags(Amount(_)) ==
  MapThenSumSet(LAMBDA hits : MapThenSumSet(LAMBDA wild : MapThenSumSet(LAMBDA same :
    Amount([hits |-> hits, wild |-> wild, same |-> same]), SUBSET (1..3)), SUBSET Lanes), SUBSET Lanes)

Plain(k) == OverFlags(LAMBDA f : IF Outcome(f) = k THEN Ways(f) ELSE 0)

\* A helped count is a multiple of one sixtieth: six axes at most.
Sixty == 60

HelpedWays(f, score) ==
  IF ~Helps(f) THEN IF Outcome(f)[1] = score THEN Sixty * Ways(f) ELSE 0
  ELSE ((Sixty * Ways(f)) \div Cardinality(Axes(f)))
       * Cardinality({axis \in Axes(f) : Outcome(HelpedFlags(f, axis))[1] = score})

Helped(score) == OverFlags(LAMBDA f : HelpedWays(f, score))
PlainScore(score) == OverFlags(LAMBDA f : IF Outcome(f)[1] = score THEN Ways(f) ELSE 0)

-----------------------------------------------------------------------------
(* The reels of the fixture.                                               *)

OrdinaryLane(color, symbol) == [wild |-> FALSE, color |-> color, symbol |-> symbol]

\* A wild nibble of 0 leaves no color.
HouseLane(wild, color, symbol) ==
  IF wild THEN [wild |-> TRUE, color |-> 0, symbol |-> symbol] ELSE OrdinaryLane(color, symbol)

HeroLane(symbol) == [wild |-> TRUE, color |-> 0, symbol |-> symbol]

LanePoints(a, b) ==
  (IF a.symbol = b.symbol THEN 1 ELSE 0)
  + (IF a.wild /\ b.wild THEN 2 ELSE IF a.wild \/ b.wild \/ a.color = b.color THEN 1 ELSE 0)

Score(p, r) == MapThenSumSet(LAMBDA q : LanePoints(p[q], r[q]), Lanes)
Wilds(r) == Cardinality({q \in Lanes : r[q].wild})

\* Mutant: the hero lane's symbol may be copied too.
EligibleHero(p, r, hero) ==
  {<<"color", q>> : q \in {q \in Lanes : ~p[q].wild /\ ~r[q].wild /\ p[q].color # r[q].color}}
  \cup {<<"symbol", q>> : q \in {q \in Lanes : p[q].symbol # r[q].symbol}}

Eligible(p, r, hero) ==
  {<<"color", q>> : q \in {q \in Lanes : ~p[q].wild /\ ~r[q].wild /\ p[q].color # r[q].color}}
  \cup {<<"symbol", q>> : q \in {q \in Lanes \ {hero} : p[q].symbol # r[q].symbol}}

Copied(p, r, axis) ==
  IF axis[1] = "color" THEN [r EXCEPT ![axis[2]].color = p[axis[2]].color]
  ELSE [r EXCEPT ![axis[2]].symbol = p[axis[2]].symbol]

\* One WWXRP spin in twenty is helped on one eligible axis, if its score allows it.
Rigged(p, r, hero) ==
  LET matches == Score(p, r) - (IF r[hero].wild THEN 1 ELSE 0)
  IN IF Helpable(Score(p, r), matches) THEN {Copied(p, r, axis) : axis \in Eligible(p, r, hero)}
     ELSE {r}

Currencies == {"eth", "flip", "wwxrp"}

\* Linear between the knees and flat after the last, rounded down.
Curve(points, activity) ==
  LET beyond == activity > Knees[Len(Knees)]
      i == Min({j \in 2..Len(Knees) : activity <= Knees[j]})
  IN IF beyond THEN points[Len(points)]
     ELSE points[i - 1] + ((activity - Knees[i - 1]) * (points[i] - points[i - 1]))
                          \div (Knees[i] - Knees[i - 1])

\* What a currency pays per stake, in units of 4 * CentixUnit * BpsUnit.
EthRate(s, activity) == Base[s] * Curve(FlipCurve, activity) + EthAdd[s] * BpsUnit
FlipRate(s, activity) == Base[s] * Curve(FlipCurve, activity)
WwxrpBase(s) == IF s \in {8, 9} THEN WwxrpTop[s] ELSE Base[s]
WwxrpScaled(s, activity) ==
  WwxrpFloor + (IF s >= 6 THEN (Curve(WwxrpCurve, activity) - WwxrpCurve[1]) * WwxrpFactor[s] ELSE 0)

\* Mutant: the wilds multiply what was rounded already.
RoundedEarly(s, w, currency, stake, activity) ==
  IF s < 3 THEN 0
  ELSE IF currency = "wwxrp"
    THEN ((stake * WwxrpBase(s) * WwxrpScaled(s, activity)) \div (4 * Scale)) * (4 + w)
  ELSE ((stake * (IF currency = "eth" THEN EthRate(s, activity) ELSE FlipRate(s, activity)))
        \div (4 * CentixUnit * BpsUnit)) * (4 + w)

Payout(s, w, currency, stake, activity) ==
  IF s < 3 THEN 0
  ELSE IF currency = "wwxrp"
    THEN (stake * WwxrpBase(s) * (4 + w) * WwxrpScaled(s, activity)) \div (4 * Scale)
  ELSE (stake * (IF currency = "eth" THEN EthRate(s, activity) ELSE FlipRate(s, activity)) * (4 + w))
       \div (4 * CentixUnit * BpsUnit)

-----------------------------------------------------------------------------
(* Steps.                                                                  *)

JointIdle == [taken |-> 0, out |-> HeroColor]
NoReel == [hero |-> 0, player |-> <<>>, house |-> <<>>, stage |-> "idle", score |-> 0, wilds |-> 0,
           currency |-> "eth", stake |-> 0, activity |-> 0, paid |-> 0]

DegeneretteIdle == joint = JointIdle /\ reel = NoReel

\* convolution_joint takes in four symbols and three colors.
TakeIn ==
  /\ reel = NoReel /\ joint.taken < 7
  /\ joint' = [taken |-> joint.taken + 1, out |-> Convolve(joint.out, LaneFunction(joint.taken + 1))]
  /\ UNCHANGED reel

ChooseHero(hero) ==
  /\ joint = JointIdle /\ reel.stage = "idle"
  /\ reel' = [reel EXCEPT !.stage = "drawing", !.hero = hero] /\ UNCHANGED joint

\* The next lane of both tickets.
DrawLane(player, wild, color, symbol) ==
  /\ reel.stage = "drawing" /\ Len(reel.house) < 4
  /\ reel' = [reel EXCEPT
       !.player = Append(@, IF Len(@) = reel.hero THEN HeroLane(player.symbol) ELSE player),
       !.house = Append(@, HouseLane(wild, color, symbol))]
  /\ UNCHANGED joint

Ticket(lanes) == [q \in Lanes |-> lanes[q + 1]]
Player == Ticket(reel.player)
House == Ticket(reel.house)

\* roll: only WWXRP is ever helped, and what counts is the house ticket after it.
Roll(currency, help) ==
  /\ reel.stage = "drawing" /\ Len(reel.house) = 4
  /\ help => currency = "wwxrp"
  /\ \E r \in IF help THEN Rigged(Player, House, reel.hero) ELSE {House} :
       reel' = [NoReel EXCEPT !.stage = "rolled", !.currency = currency,
                              !.score = Score(Player, r), !.wilds = Wilds(r)]
  /\ UNCHANGED joint

Pay(stake, activity) ==
  /\ reel.stage = "rolled"
  /\ reel' = [reel EXCEPT !.stage = "paid", !.stake = stake, !.activity = activity,
       !.paid = Payout(reel.score, reel.wilds, reel.currency, stake, activity)]
  /\ UNCHANGED joint

DegeneretteNext ==
  \/ TakeIn
  \/ \E hero \in Lanes : ChooseHero(hero)
  \/ \E player \in PlayerLanes, wild \in BOOLEAN, color \in Colors, symbol \in Symbols :
       DrawLane(player, wild, color, symbol)
  \/ \E currency \in Currencies, help \in BOOLEAN : Roll(currency, help)
  \/ \E stake \in Stakes, activity \in Activities : Pay(stake, activity)

-----------------------------------------------------------------------------
(* Properties.                                                              *)

(* The docstring's "independent convolution": the generating functions give, for every score and
   number of wilds, exactly as many ways as the enumeration of lane flags. *)
ConvolutionIsEnumeration ==
  joint.taken = 7 =>
    /\ DOMAIN joint.out = {Outcome(f) : f \in Flags}
    /\ \A k \in DOMAIN joint.out : joint.out[k] = Plain(k)

(* What the math script asserts of the WWXRP help: an eligible axis exists whenever help applies, it
   adds exactly one point and no wild, it makes neither a winner of a loser nor a nine, and no score is
   reached less often with it. *)
HelpIsFair ==
  joint.taken = 7 =>
    /\ \A f \in Flags : Helps(f) =>
         /\ Axes(f) # {}
         /\ \A axis \in Axes(f) : Outcome(HelpedFlags(f, axis)) = <<Outcome(f)[1] + 1, Outcome(f)[2]>>
    /\ LET plain == [s \in 0..9 |-> Sixty * PlainScore(s)]
           helped == [s \in 0..9 |-> Helped(s)]
           Tail3(d, s) == MapThenSumSet(LAMBDA t : d[t], s..9)
       IN /\ plain[9] = helped[9] /\ Tail3(plain, 3) = Tail3(helped, 3)
          /\ Tail3(plain, 0) = Tail3(helped, 0)
          /\ \A s \in 0..9 : Tail3(helped, s) >= Tail3(plain, s)

\* The lane flags of a concrete reel, the hero's lane counted as lane 0.
Numbered(q) == IF q = reel.hero THEN 0 ELSE IF q = 0 THEN reel.hero ELSE q
FlagsOf(p, r) ==
  [hits |-> {Numbered(q) : q \in {q \in Lanes : p[q].symbol = r[q].symbol}},
   wild |-> {Numbered(q) : q \in {q \in Lanes : r[q].wild}},
   same |-> {Numbered(q) : q \in {q \in Lanes : ~p[q].wild /\ ~r[q].wild /\ p[q].color = r[q].color}}]

(* The fixture's reels follow the math model whichever lane is the hero's: score and wilds of every
   reel, the axes that may be helped, and what each of them leads to. *)
ReelsFollowTheModel ==
  reel.stage = "drawing" /\ Len(reel.house) = 4 =>
    LET f == FlagsOf(Player, House)
    IN /\ <<Score(Player, House), Wilds(House)>> = Outcome(f)
       /\ {<<axis[1], Numbered(axis[2])>> : axis \in Eligible(Player, House, reel.hero)} = Axes(f)
       /\ {<<Score(Player, r), Wilds(r)>> : r \in Rigged(Player, House, reel.hero)}
          = IF Helps(f) THEN {Outcome(HelpedFlags(f, axis)) : axis \in Axes(f)} ELSE {Outcome(f)}

\* eth_payout, the gross multiple of the math script: (base * roi + add) * (1 + wilds / 4).
ExactEth(s, w, activity) ==
  (Base[s] * Curve(FlipCurve, activity) + EthAdd[s] * BpsUnit) * (4 + w)

(* A payout is rounded once: it is the exact product of stake, table, activity curve and wilds, less
   than one unit of it lost, in each currency; and more activity never pays less. *)
PaidIsExact ==
  reel.stage = "paid" /\ reel.score >= 3 =>
    LET unit == 4 * (IF reel.currency = "wwxrp" THEN Scale ELSE CentixUnit * BpsUnit)
        exact == reel.stake *
          CASE reel.currency = "eth" -> ExactEth(reel.score, reel.wilds, reel.activity)
            [] reel.currency = "flip" -> Base[reel.score] * Curve(FlipCurve, reel.activity) * (4 + reel.wilds)
            [] OTHER -> WwxrpBase(reel.score) * WwxrpScaled(reel.score, reel.activity) * (4 + reel.wilds)
    IN /\ reel.paid * unit <= exact /\ exact < (reel.paid + 1) * unit
       /\ \A a \in Activities : a <= reel.activity =>
            Payout(reel.score, reel.wilds, reel.currency, reel.stake, a) <= reel.paid
=============================================================================

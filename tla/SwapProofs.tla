----------------------------- MODULE SwapProofs -----------------------------
(***************************************************************************)
(* DegenerusAdmin: one executed swap per epoch, in the outage it was filed *)
(* for, one open proposal per proposer, and tallies of tokens that each    *)
(* voted once, for any voters, supply, timeouts and number of proposals.   *)
(***************************************************************************)
EXTENDS VrfGovernance, TotalProofs

\* The part of the state the theorems are about: tallies only need to be numbers.
Shape ==
  /\ stall \in Nat /\ stall <= CommunityStall
  /\ balance \in [Voters -> Nat] /\ supply \in Int
  /\ proposals \in [ProposalIds -> ProposalType]
  /\ records \in [ProposalIds -> [Voters -> RecordType]]
  /\ slot \in [Proposers -> 0..MaxProposals] /\ count \in 0..MaxProposals
  /\ validFrom \in Nat /\ swaps \in Nat
  /\ born \in [ProposalIds -> Nat] /\ word \in [ProposalIds -> Words]

\* Identifiers past proposalCount are blank.
Numbered ==
  \A p \in ProposalIds : p > count => proposals[p].state = "none" /\ word[p] = "none"

\* What is executed lies below the cut-off, and was filed before the last swap; what lies above it
\* was filed since.
Epochs ==
  /\ validFrom <= count + 1
  /\ \A p \in ProposalIds :
       /\ Executed(p) => p < validFrom /\ born[p] < swaps
       /\ p <= count /\ p >= validFrom => born[p] = swaps

\* A votable proposal holds its proposer's slot.
Slots == \A p \in ProposalIds : Votable(p) => slot[proposals[p].proposer] = p

\* A word later than a proposal's timestamp is younger than the proposal.
Recoveries ==
  \A p \in ProposalIds : word[p] = "later" /\ proposals[p].age < Lifetime => stall < proposals[p].age

Inv == Shape /\ Numbered /\ Epochs /\ OneSwapPerEpoch /\ Slots /\ Recoveries

------------------------------------------------------------------------------
(* What the operators return.                                               *)

LEMMA TallyType ==
  ASSUME Shape, NEW p \in ProposalIds, NEW v \in Voters, NEW side
  PROVE  /\ Voted(v, p, side) \in ProposalType
         /\ Voted(v, p, side).age = proposals[p].age
         /\ Voted(v, p, side).state = proposals[p].state
         /\ Voted(v, p, side).proposer = proposals[p].proposer
<1> USE GovernanceAssumption
<1>1. proposals[p] \in ProposalType /\ records[p][v] \in RecordType /\ balance[v] \in Nat
  BY DEF Shape
<1>2. CASE Weight(v) = 0
  BY <1>1, <1>2 DEF Voted
<1>3. CASE Weight(v) # 0
  <2> DEFINE old == records[p][v]
             w == Weight(v)
             x == proposals[p].approve - (IF old.side = "approve" THEN old.weight ELSE 0)
                    + (IF side = "approve" THEN w ELSE 0)
             y == proposals[p].reject - (IF old.side = "reject" THEN old.weight ELSE 0)
                    + (IF side = "reject" THEN w ELSE 0)
  <2>1. x \in Int /\ y \in Int
    <3>1. w \in Int
      BY <1>1 DEF Weight
    <3> HIDE DEF w
    <3> QED BY <1>1, <3>1 DEF ProposalType, RecordType
  <2>2. Voted(v, p, side) = [proposals[p] EXCEPT !.approve = x, !.reject = y]
    BY <1>1, <1>3 DEF Voted, Tally, ProposalType
  <2> HIDE DEF x, y
  <2> QED BY <1>1, <2>1, <2>2 DEF ProposalType
<1> QED BY <1>2, <1>3

LEMMA ResolvedType ==
  ASSUME NEW q
  PROVE  Resolved(q) \in {"active", "executed", "killed"}
  BY DEF Resolved

LEMMA StateType ==
  ASSUME NEW q \in ProposalType, NEW s \in States
  PROVE  /\ [q EXCEPT !.state = s] \in ProposalType
         /\ [q EXCEPT !.state = s].state = s /\ [q EXCEPT !.state = s].age = q.age
         /\ [q EXCEPT !.state = s].proposer = q.proposer
  BY DEF ProposalType

------------------------------------------------------------------------------
(* Every step.                                                              *)

LEMMA InitInv == Init => Inv
<1> SUFFICES ASSUME Init PROVE Inv
  OBVIOUS
<1> USE GovernanceAssumption
<1>1. Blank \in ProposalType /\ Blank.state = "none" /\ NoVote \in RecordType
  BY DEF Blank, NoVote, ProposalType, RecordType, States, Sides, Proposers
<1>2. Shape
  BY <1>1 DEF Init, Shape, Words
<1>3. \A p \in ProposalIds : proposals[p].state = "none" /\ word[p] = "none"
  BY <1>1 DEF Init
<1>4. Numbered /\ Recoveries
  BY <1>3 DEF Numbered, Recoveries
<1>c. count = 0 /\ validFrom = 0
  BY DEF Init
<1>5. Epochs
  <2>1. \A p \in ProposalIds : ~Executed(p)
    BY <1>3 DEF Executed
  <2>2. \A p \in ProposalIds : ~(p <= count)
    BY <1>c DEF ProposalIds
  <2> QED BY <2>1, <2>2, <1>c DEF Epochs
<1>6. OneSwapPerEpoch /\ Slots
  BY <1>3 DEF OneSwapPerEpoch, Executed, Slots, Votable
<1> QED BY <1>2, <1>4, <1>5, <1>6 DEF Inv

LEMMA ProposeInv ==
  ASSUME Inv, NEW a \in Proposers, Propose(a)
  PROVE  Inv'
<1> USE GovernanceAssumption
<1> DEFINE new == count + 1
           d == supply \div Token
           q == [state |-> "active", proposer |-> a, age |-> 0, snapshot |-> d,
                 approve |-> 0, reject |-> 0]
<1>1. /\ new \in ProposalIds /\ new \in 1..MaxProposals
      /\ count' = new /\ proposals' = [proposals EXCEPT ![new] = q]
      /\ slot' = [slot EXCEPT ![a] = new] /\ born' = [born EXCEPT ![new] = swaps]
      /\ UNCHANGED <<stall, balance, supply, records, validFrom, swaps, word>>
      /\ SlotFree(a)
  BY DEF Propose, Inv, Shape, ProposalIds, tokens
<1>2. q \in ProposalType /\ q.state = "active" /\ q.proposer = a /\ q.age = 0
  <2>1. d \in Int
    BY DEF Inv, Shape
  <2> HIDE DEF d
  <2> QED BY <2>1 DEF ProposalType, States
<1> HIDE DEF q
<1>3. Shape'
  BY <1>1, <1>2 DEF Inv, Shape
<1>4. Numbered'
  BY <1>1 DEF Inv, Shape, Numbered, ProposalIds
<1>5. Epochs' /\ OneSwapPerEpoch'
  BY <1>1, <1>2 DEF Inv, Shape, Epochs, OneSwapPerEpoch, Executed, Numbered, ProposalIds
<1>6. Slots'
  <2> SUFFICES ASSUME NEW p \in ProposalIds, Votable(p)' PROVE slot'[proposals'[p].proposer] = p
    BY DEF Slots
  <2>1. CASE p = new
    BY <1>1, <1>2, <2>1 DEF Inv, Shape
  <2>2. CASE p # new
    <3>1. Votable(p) /\ proposals'[p] = proposals[p] /\ proposals[p].proposer \in Proposers
      BY <1>1, <2>2 DEF Votable, Inv, Shape, ProposalType
    <3>2. slot[proposals[p].proposer] = p
      BY <3>1 DEF Inv, Slots
    <3>3. proposals[p].proposer # a
      BY <1>1, <3>1, <3>2 DEF SlotFree
    <3> QED BY <1>1, <3>1, <3>2, <3>3 DEF Inv, Shape
  <2> QED BY <2>1, <2>2
<1>7. Recoveries'
  BY <1>1, <1>2 DEF Inv, Shape, Recoveries, Numbered
<1> QED BY <1>3, <1>4, <1>5, <1>6, <1>7 DEF Inv

LEMMA KillInv ==
  ASSUME Inv, NEW p \in ProposalIds, KillMoot(p)
  PROVE  Inv'
<1> DEFINE q == [proposals[p] EXCEPT !.state = "killed"]
<1>1. /\ p <= count /\ proposals' = [proposals EXCEPT ![p] = q]
      /\ UNCHANGED <<stall, balance, supply, records, slot, count, validFrom, swaps, born, word>>
  BY DEF KillMoot, tokens, history
<1>2. q \in ProposalType /\ q.state = "killed" /\ q.age = proposals[p].age
      /\ q.proposer = proposals[p].proposer
  BY StateType DEF Inv, Shape, States
<1> HIDE DEF q
<1>3. Shape'
  BY <1>1, <1>2 DEF Inv, Shape
<1>4. Numbered' /\ Epochs' /\ OneSwapPerEpoch'
  BY <1>1, <1>2, GovernanceAssumption
     DEF Inv, Shape, Numbered, Epochs, OneSwapPerEpoch, Executed, ProposalIds
<1>5. Slots' /\ Recoveries'
  BY <1>1, <1>2 DEF Inv, Shape, Slots, Votable, Recoveries
<1> QED BY <1>3, <1>4, <1>5 DEF Inv

\* A vote changes only its proposal's state and tallies, its voter's record and the epoch.
LEMMA VoteInv ==
  ASSUME Inv, NEW v \in Voters, NEW p \in ProposalIds, NEW side \in {"approve", "reject"},
         Vote(v, p, side)
  PROVE  Inv'
<1> USE GovernanceAssumption
<1> DEFINE q == [Voted(v, p, side) EXCEPT !.state = Resolved(Voted(v, p, side))]
<1>1. /\ p <= count /\ p >= validFrom /\ proposals' = [proposals EXCEPT ![p] = q]
      /\ UNCHANGED <<stall, balance, supply, slot, count, born, word>>
  BY DEF Vote, Votable, tokens
<1>2. /\ q \in ProposalType /\ q.age = proposals[p].age /\ q.proposer = proposals[p].proposer
      /\ q.state = Resolved(Voted(v, p, side))
  <2>1. Resolved(Voted(v, p, side)) \in States
    BY ResolvedType DEF States
  <2>2. /\ Voted(v, p, side) \in ProposalType
        /\ Voted(v, p, side).age = proposals[p].age
        /\ Voted(v, p, side).proposer = proposals[p].proposer
    BY TallyType DEF Inv
  <2> QED BY <2>1, <2>2, StateType
<1>3. \/ q.state = "executed" /\ validFrom' = count + 1 /\ swaps' = swaps + 1
      \/ q.state \in {"active", "killed"} /\ validFrom' = validFrom /\ swaps' = swaps
  BY <1>2, ResolvedType DEF Vote, Cutoff
<1>4. records' \in [ProposalIds -> [Voters -> RecordType]]
  <2>1. Weight(v) \in Int
    BY DEF Weight, Inv, Shape
  <2>2. [side |-> side, weight |-> Weight(v)] \in RecordType
    BY <2>1 DEF RecordType, Sides
  <2> QED BY <2>2 DEF Vote, Inv, Shape
<1>5. proposals[p].state = "active"
  BY DEF Vote, Votable
<1> HIDE DEF q
<1>6. Shape'
  <2>1. validFrom' \in Nat /\ swaps' \in Nat
    BY <1>3 DEF Inv, Shape
  <2>2. proposals' \in [ProposalIds -> ProposalType]
    BY <1>1, <1>2 DEF Inv, Shape
  <2> QED BY <1>1, <1>4, <2>1, <2>2 DEF Inv, Shape
<1>7. Numbered'
  BY <1>1, <1>2 DEF Inv, Shape, Numbered, ProposalIds
<1>8. Epochs' /\ OneSwapPerEpoch'
  <2>1. born[p] = swaps
    BY <1>1 DEF Inv, Epochs
  <2>2. CASE q.state = "executed" /\ validFrom' = count + 1 /\ swaps' = swaps + 1
    BY <1>1, <1>2, <2>1, <2>2 DEF Inv, Shape, Epochs, OneSwapPerEpoch, Executed, ProposalIds
  <2>3. CASE q.state \in {"active", "killed"} /\ validFrom' = validFrom /\ swaps' = swaps
    BY <1>1, <1>2, <2>3 DEF Inv, Shape, Epochs, OneSwapPerEpoch, Executed, ProposalIds
  <2> QED BY <1>3, <2>2, <2>3
<1>9. Slots'
  <2>1. validFrom' >= validFrom /\ validFrom' \in Nat /\ validFrom \in Nat
    BY <1>3 DEF Inv, Shape, Epochs
  <2> SUFFICES ASSUME NEW r \in ProposalIds, Votable(r)' PROVE slot'[proposals'[r].proposer] = r
    BY DEF Slots
  <2>2. proposals'[r].age = proposals[r].age /\ proposals'[r].proposer = proposals[r].proposer
    BY <1>1, <1>2 DEF Inv, Shape
  <2>3. proposals[r].state = "active"
    BY <1>1, <1>2, <1>5 DEF Votable, Inv, Shape
  <2>4. Votable(r)
    <3>1. r >= validFrom' /\ proposals'[r].age < Lifetime /\ r \in Nat
      BY DEF Votable, ProposalIds
    <3> QED BY <2>1, <2>2, <2>3, <3>1 DEF Votable
  <2> QED BY <1>1, <2>2, <2>4 DEF Inv, Slots
<1>10. Recoveries'
  BY <1>1, <1>2 DEF Inv, Shape, Recoveries
<1> QED BY <1>6, <1>7, <1>8, <1>9, <1>10 DEF Inv

LEMMA WordInv ==
  ASSUME Inv, ProcessWord
  PROVE  Inv'
<1> USE GovernanceAssumption
<1>0. word' \in [ProposalIds -> Words]
  <2>1. \A p \in ProposalIds : word[p] \in Words
    BY DEF Inv, Shape
  <2> QED BY <2>1 DEF ProcessWord, Words
<1>1. /\ stall' = 0
      /\ \A p \in ProposalIds : /\ p > count => word'[p] = "none"
                                /\ word'[p] = "later" => proposals[p].age > 0 \/ word[p] = "later"
      /\ UNCHANGED <<balance, supply, proposals, records, slot, count, validFrom, swaps, born>>
  BY DEF ProcessWord, tokens, ballots, Words, Inv, Shape, Numbered, ProposalIds
<1>2. \A p \in ProposalIds : proposals[p].age \in Nat
  BY DEF Inv, Shape, ProposalType
<1>3. Shape'
  BY <1>1, <1>0 DEF Inv, Shape
<1>4. Recoveries'
  BY <1>1, <1>2 DEF Inv, Shape, Recoveries
<1> QED BY <1>1, <1>3, <1>4 DEF Inv, Numbered, Epochs, OneSwapPerEpoch, Executed, Slots, Votable

LEMMA TickInv ==
  ASSUME Inv, Tick
  PROVE  Inv'
<1> USE GovernanceAssumption
<1>1. /\ stall' \in Nat /\ stall' <= CommunityStall /\ stall' <= stall + 1
      /\ UNCHANGED <<balance, supply, records, slot, count, validFrom, swaps, born, word>>
  BY DEF Tick, Later, tokens, history, Inv, Shape
<1>2. ASSUME NEW p \in ProposalIds
      PROVE  /\ proposals'[p] \in ProposalType
             /\ proposals'[p].state = proposals[p].state
             /\ proposals'[p].proposer = proposals[p].proposer
             /\ proposals'[p].age >= proposals[p].age
             /\ p <= count /\ proposals'[p].age < Lifetime => proposals'[p].age = proposals[p].age + 1
             /\ p > count => proposals'[p] = proposals[p]
  <2> DEFINE e == Later(proposals[p].age, Lifetime)
  <2>1. proposals[p] \in ProposalType /\ proposals[p].age \in 0..Lifetime
    BY DEF Inv, Shape, ProposalType
  <2>2. /\ e \in 0..Lifetime /\ e >= proposals[p].age
        /\ e < Lifetime => e = proposals[p].age + 1
    BY <2>1 DEF Later
  <2>3. proposals'[p] = IF p > count THEN proposals[p] ELSE [proposals[p] EXCEPT !.age = e]
    BY DEF Tick
  <2> HIDE DEF e
  <2>4. CASE p > count
    BY <2>1, <2>3, <2>4 DEF Inv, Shape, ProposalIds
  <2>5. CASE ~(p > count)
    BY <2>1, <2>2, <2>3, <2>5 DEF ProposalType, Inv, Shape
  <2> QED BY <2>4, <2>5
<1>3. proposals' \in [ProposalIds -> ProposalType]
  BY <1>2 DEF Tick
<1>4. Shape'
  BY <1>1, <1>3 DEF Inv, Shape
<1>5. Numbered' /\ Epochs' /\ OneSwapPerEpoch'
  BY <1>1, <1>2 DEF Inv, Numbered, Epochs, OneSwapPerEpoch, Executed
<1>6. Slots'
  <2>1. \A p \in ProposalIds : proposals[p].age \in Nat /\ proposals'[p].age \in Nat
    BY <1>2 DEF Inv, Shape, ProposalType
  <2> QED BY <1>1, <1>2, <2>1 DEF Inv, Slots, Votable
<1>7. Recoveries'
  <2> SUFFICES ASSUME NEW p \in ProposalIds, word[p] = "later", proposals'[p].age < Lifetime
               PROVE  stall' < proposals'[p].age
    BY <1>1 DEF Recoveries
  <2>1. p <= count
    BY DEF Inv, Shape, Numbered, ProposalIds
  <2>2. proposals[p].age \in Nat /\ proposals'[p].age = proposals[p].age + 1
    BY <1>2, <2>1 DEF Inv, Shape, ProposalType
  <2>3. stall < proposals[p].age
    BY <2>2 DEF Inv, Recoveries
  <2> QED BY <1>1, <2>2, <2>3 DEF Inv, Shape
<1> QED BY <1>4, <1>5, <1>6, <1>7 DEF Inv

LEMMA NextInv == Inv /\ [Next]_vars => Inv'
<1> SUFFICES ASSUME Inv, [Next]_vars PROVE Inv'
  OBVIOUS
<1>1. ASSUME EndGame \/ UNCHANGED vars
      PROVE  Inv'
  BY <1>1 DEF EndGame, vars, tokens, ballots, history, Inv, Shape, Numbered, Epochs, OneSwapPerEpoch,
              Executed, Slots, Votable, Recoveries
<1>2. ASSUME NEW v \in Voters, NEW n \in 1..Pool, Award(v, n) \/ Burn(v, n)
      PROVE  Inv'
  <2>1. balance' \in [Voters -> Nat] /\ supply' \in Int
    BY <1>2, GovernanceAssumption DEF Award, Burn, Inv, Shape
  <2>2. UNCHANGED <<stall, proposals, records, slot, count, validFrom, swaps, born, word>>
    BY <1>2 DEF Award, Burn, ballots, history
  <2> QED BY <2>1, <2>2 DEF Inv, Shape, Numbered, Epochs, OneSwapPerEpoch, Executed, Slots, Votable,
                            Recoveries
<1> QED BY <1>1, <1>2, ProposeInv, KillInv, VoteInv, WordInv, TickInv DEF Next

------------------------------------------------------------------------------
(* The theorems.                                                            *)

THEOREM Invariant == Spec => []Inv
  BY InitInv, NextInv, PTL DEF Spec

\* An executed proposal was filed before the last swap and lies below the cut-off; what can still
\* execute was filed after it.
THEOREM OneSwap == Spec => []OneSwapPerEpoch
  BY Invariant, PTL DEF Inv

\* Votable proposals hold their proposer's slot, and a slot holds one.
THEOREM OneOpenProposal == Spec => []OneOpenProposalEach
<1>1. Inv => OneOpenProposalEach
  BY DEF Inv, Slots, OneOpenProposalEach
<1> QED BY <1>1, Invariant, PTL

\* Only a vote executes, and it has just found the stall standing and no younger word.
THEOREM SwapInItsOutage == Spec => SwapOnlyInItsOutage
<1> DEFINE Fine == \A p \in ProposalIds : Executes(p) => stall >= AdminStall /\ word[p] # "later"
<1>1. Inv /\ [Next]_vars => [Fine]_vars
  <2> SUFFICES ASSUME Inv, [Next]_vars, NEW p \in ProposalIds, Executes(p)
               PROVE  stall >= AdminStall /\ word[p] # "later"
    OBVIOUS
  <2> USE GovernanceAssumption
  <2>1. ASSUME NEW v \in Voters, NEW r \in ProposalIds, NEW side \in {"approve", "reject"},
               Vote(v, r, side)
        PROVE  stall >= AdminStall /\ word[p] # "later"
    <3>1. p = r
      BY <2>1 DEF Vote, Executes, Executed, Inv, Shape
    <3>2. /\ ~(stall < AdminStall) /\ ~(stall < proposals[p].age) /\ proposals[p].age < Lifetime
      BY <2>1, <3>1 DEF Vote, Moot, Votable
    <3> QED BY <3>2 DEF Inv, Shape, Recoveries
  <2>2. ASSUME NEW a \in Proposers, Propose(a)
        PROVE  FALSE
    BY <2>2 DEF Propose, Executes, Executed, Blank, Inv, Shape, ProposalIds
  <2>3. ASSUME NEW r \in ProposalIds, KillMoot(r)
        PROVE  FALSE
    BY <2>3 DEF KillMoot, Executes, Executed, Inv, Shape, ProposalType
  <2>4. ASSUME Tick
        PROVE  FALSE
    BY <2>4 DEF Tick, Executes, Executed, Inv, Shape, ProposalType
  <2>5. ASSUME NEW v \in Voters, NEW n \in 1..Pool, Award(v, n) \/ Burn(v, n)
        PROVE  FALSE
    BY <2>5 DEF Award, Burn, Executes, Executed, ballots
  <2>6. ASSUME ProcessWord \/ EndGame \/ UNCHANGED vars
        PROVE  FALSE
    BY <2>6 DEF ProcessWord, EndGame, Executes, Executed, ballots, vars
  <2> QED BY <2>1, <2>2, <2>3, <2>4, <2>5, <2>6 DEF Next
<1> QED BY <1>1, Invariant, PTL DEF Spec, SwapOnlyInItsOutage

------------------------------------------------------------------------------
(* Tallies. *)

\* A side's part of a standing vote.
Share(rec, side) == IF rec.side = side THEN rec.weight ELSE 0
Shares(p, side) == [v \in Voters |-> Share(records[p][v], side)]

\* The raw tokens a weight stands for.
Raw(w) == w * Token

\* What a voter's balance holds beyond the vote it has cast.
Left(cast, held) == IF cast < held THEN held - cast ELSE 0
Slack(p) == [v \in Voters |-> Left(Raw(records[p][v].weight), balance[v])]

VoteType == [side : Sides, weight : Nat]

\* Votes have weights, and no one has voted on a proposal to come.
Weighted ==
  /\ ceiling \in [ProposalIds -> Int]
  /\ \A p \in ProposalIds : /\ records[p] \in [Voters -> VoteType]
                            /\ p > count => ceiling[p] = 0
                            /\ \A v \in Voters : /\ records[p][v].side = "none" => records[p][v].weight = 0
                                                 /\ p > count => records[p][v].side = "none"

\* The votes cast, with what the voters hold beyond them, stay within what was ever handed out.
Budget(p) == Raw(proposals[p].approve + proposals[p].reject) + Total(Slack(p)) <= ceiling[p]
Budgeted == \A p \in ProposalIds : p <= count => Budget(p)

Ballots == Weighted /\ TalliesAreRecords /\ Budgeted

LEMMA RawFacts ==
  /\ \A w \in Int : Raw(w) \in Int
  /\ \A w \in Nat : Raw(w) \in Nat
  /\ Raw(0) = 0
<1>1. Token \in Nat
  BY GovernanceAssumption
<1>2. \A w \in Nat : w * Token \in Nat
  BY <1>1
<1>3. \A w \in Int : w * Token \in Int
  BY <1>1
<1>4. 0 * Token = 0
  BY <1>1
<1> QED BY <1>2, <1>3, <1>4 DEF Raw

LEMMA RawMoves ==
  ASSUME NEW a \in Int, NEW b \in Int, NEW c \in Int
  PROVE  Raw(a - b + c) = Raw(a) - Raw(b) + Raw(c)
<1>1. Token \in Int
  BY GovernanceAssumption
<1>2. (a - b + c) * Token = a * Token - b * Token + c * Token
  BY <1>1
<1> QED BY <1>2 DEF Raw

\* A voter's weight is tokens it holds.
LEMMA WeightHeld ==
  ASSUME NEW v \in Voters, balance[v] \in Nat
  PROVE  Weight(v) \in Nat /\ Raw(Weight(v)) <= balance[v]
<1>1. Token \in Nat /\ Token > 0
  BY GovernanceAssumption
<1>2. balance[v] \div Token \in Nat /\ (balance[v] \div Token) * Token <= balance[v]
  BY <1>1
<1> QED BY <1>2 DEF Weight, Raw

LEMMA StandingIs ==
  /\ \A p, side : Standing(p, side) = Total(Shares(p, side))
  /\ \A p, side : Standing(p, side)' = Total(Shares(p, side)')
  BY DEF Standing, Shares, Share

LEMMA ShareType == \A rec \in VoteType : \A side : Share(rec, side) \in Nat
  BY DEF Share, VoteType

LEMMA SlackType ==
  ASSUME Inv, Weighted, NEW p \in ProposalIds
  PROVE  /\ Slack(p) \in [Voters -> Nat] /\ IsFiniteSet(Units(Slack(p))) /\ Total(Slack(p)) \in Nat
         /\ \A v \in Voters : Slack(p)[v] <= balance[v]
<1>1. ASSUME NEW v \in Voters
      PROVE  LET s == Left(Raw(records[p][v].weight), balance[v]) IN s \in Nat /\ s <= balance[v]
  <2>1. records[p][v].weight \in Nat /\ balance[v] \in Nat
    BY DEF Weighted, VoteType, Inv, Shape
  <2>2. Raw(records[p][v].weight) \in Nat
    BY <2>1, RawFacts
  <2> QED BY <2>1, <2>2 DEF Left
<1>2. Slack(p) \in [Voters -> Nat] /\ \A v \in Voters : Slack(p)[v] <= balance[v]
  BY <1>1 DEF Slack
<1> QED BY <1>2, TotalFinite, GovernanceAssumption

\* Votes, balances and tallies stay.
LEMMA SameBallots ==
  ASSUME Ballots, records' = records, balance' = balance, supply' = supply, ceiling' = ceiling,
         count' = count,
         \A p \in ProposalIds : /\ proposals'[p].approve = proposals[p].approve
                                /\ proposals'[p].reject = proposals[p].reject
  PROVE  Ballots'
<1>1. \A p, side : Standing(p, side)' = Standing(p, side)
  BY DEF Standing
<1>2. \A p : Slack(p)' = Slack(p)
  BY DEF Slack
<1>3. ASSUME NEW p \in ProposalIds, Budget(p) PROVE Budget(p)'
  <2>1. Total(Slack(p))' = Total(Slack(p))
    BY <1>2
  <2> QED BY <1>3, <2>1 DEF Budget
<1>4. Weighted'
  BY DEF Ballots, Weighted
<1>5. TalliesAreRecords'
  <2>1. supply' = Total(balance)'
    BY DEF Ballots, TalliesAreRecords
  <2> QED BY <1>1, <2>1 DEF Ballots, TalliesAreRecords
<1> QED BY <1>3, <1>4, <1>5 DEF Ballots, Budgeted

\* A new proposal's voting supply is its ceiling.
LEMMA ProposeBallots ==
  ASSUME Inv, Ballots, NEW a \in Proposers, Propose(a)
  PROVE  Ballots'
<1>p. PICK new \in ProposalIds : new = count + 1
  BY GovernanceAssumption DEF Propose, Inv, Shape, ProposalIds
<1> DEFINE q == [state |-> "active", proposer |-> a, age |-> 0, snapshot |-> supply \div Token,
                 approve |-> 0, reject |-> 0]
<1>1. /\ count' = new /\ proposals' = [proposals EXCEPT ![new] = q]
      /\ ceiling' = [ceiling EXCEPT ![new] = supply]
      /\ records' = records /\ balance' = balance /\ supply' = supply
  BY <1>p DEF Propose, tokens
<1>t. /\ proposals \in [ProposalIds -> ProposalType] /\ ceiling \in [ProposalIds -> Int]
      /\ balance \in [Voters -> Nat] /\ supply \in Int /\ count \in Nat
  BY GovernanceAssumption DEF Inv, Shape, Ballots, Weighted
<1>2. q.approve = 0 /\ q.reject = 0
  OBVIOUS
<1> HIDE DEF q
<1>3. /\ \A p, side : Standing(p, side)' = Standing(p, side)
      /\ \A p : Slack(p)' = Slack(p)
  BY <1>1 DEF Standing, Slack
<1>4. \A p \in ProposalIds \ {new} : proposals'[p] = proposals[p] /\ ceiling'[p] = ceiling[p]
  BY <1>1, <1>t
<1>5. proposals'[new] = q /\ ceiling'[new] = supply
  BY <1>1, <1>t
<1>6. ASSUME NEW side \in {"approve", "reject"} PROVE Standing(new, side) = 0
  <2>1. \A v \in Voters : records[new][v].side = "none"
    BY <1>p, <1>t DEF Ballots, Weighted
  <2>2. \A v \in Voters : Shares(new, side)[v] = 0
    BY <2>1 DEF Shares, Share
  <2>3. DOMAIN Shares(new, side) = Voters
    BY DEF Shares
  <2> QED BY <2>2, <2>3, TotalOfNone, StandingIs
<1>7. Budget(new)'
  <2>2. /\ IsFiniteSet(Units(balance)) /\ Total(balance) \in Nat
    BY <1>t, TotalFinite, GovernanceAssumption
  <2>3. /\ Slack(new) \in [Voters -> Nat] /\ Total(Slack(new)) \in Nat
        /\ \A v \in Voters : Slack(new)[v] <= balance[v]
    BY SlackType DEF Ballots
  <2>4. /\ DOMAIN Slack(new) \subseteq DOMAIN balance
        /\ \A v \in DOMAIN Slack(new) : Slack(new)[v] \in Nat /\ balance[v] \in Nat /\ Slack(new)[v] <= balance[v]
    BY <1>t, <2>3
  <2>5. Total(Slack(new)) <= Total(balance)
    BY <2>2, <2>4, TotalMonotone
  <2>6. Total(Slack(new))' = Total(Slack(new))
    BY <1>3
  <2>7. proposals'[new].approve + proposals'[new].reject = 0 /\ ceiling'[new] = Total(balance)
    BY <1>2, <1>5 DEF Ballots, TalliesAreRecords
  <2> QED BY <2>3, <2>5, <2>6, <2>7, RawFacts DEF Budget
<1>8. Weighted'
  <2>1. ceiling' \in [ProposalIds -> Int]
    BY <1>1, <1>t
  <2>2. \A p \in ProposalIds : p > count' => p > count /\ p # new
    BY <1>1, <1>p, <1>t DEF ProposalIds
  <2> QED BY <1>1, <1>4, <2>1, <2>2 DEF Ballots, Weighted
<1>9. TalliesAreRecords'
  <2>1. supply' = Total(balance)'
    BY <1>1 DEF Ballots, TalliesAreRecords
  <2>2. ASSUME NEW p \in ProposalIds
        PROVE  proposals'[p].approve = Standing(p, "approve")' /\ proposals'[p].reject = Standing(p, "reject")'
    <3>1. CASE p = new
      <4>1. Standing(p, "approve")' = Standing(new, "approve") /\ Standing(p, "reject")' = Standing(new, "reject")
        BY <1>3, <3>1
      <4> QED BY <1>2, <1>5, <1>6, <3>1, <4>1
    <3>2. CASE p # new
      BY <1>3, <1>4, <3>2 DEF Ballots, TalliesAreRecords
    <3> QED BY <3>1, <3>2
  <2> QED BY <2>1, <2>2 DEF TalliesAreRecords
<1>10. ASSUME NEW p \in ProposalIds, p <= count', p # new PROVE Budget(p)'
  <2>1. p <= count
    BY <1>1, <1>p, <1>t, <1>10 DEF ProposalIds
  <2>2. Total(Slack(p))' = Total(Slack(p))
    BY <1>3
  <2> QED BY <1>4, <1>10, <2>1, <2>2 DEF Ballots, Budgeted, Budget
<1>11. Budgeted'
  BY <1>7, <1>10 DEF Budgeted
<1> QED BY <1>8, <1>9, <1>11 DEF Ballots

\* Replacing one voter's record on p.
Recorded(v, p, rec) ==
  /\ v \in Voters /\ p \in ProposalIds /\ rec \in VoteType
  /\ \A r \in ProposalIds : records[r] \in [Voters -> VoteType]
  /\ records \in [ProposalIds -> [Voters -> RecordType]]
  /\ records' = [records EXCEPT ![p][v] = rec]

\* Moves each side of p by the voter's share, and no other proposal's.
LEMMA StandingMoves ==
  ASSUME NEW v, NEW p, NEW rec, Recorded(v, p, rec), NEW side
  PROVE  /\ Standing(p, side) \in Nat
         /\ Standing(p, side)' = Standing(p, side) - Share(records[p][v], side) + Share(rec, side)
         /\ \A r \in ProposalIds \ {p} : Standing(r, side)' = Standing(r, side)
<1> DEFINE f == Shares(p, side)
           g == [u \in Voters |-> Share(records'[p][u], side)]
<1>1. /\ records'[p] = [records[p] EXCEPT ![v] = rec]
      /\ \A r \in ProposalIds \ {p} : records'[r] = records[r]
  BY DEF Recorded
<1>2. /\ \A u \in Voters : records[p][u] \in VoteType /\ records'[p][u] \in VoteType
      /\ records'[p][v] = rec /\ \A u \in Voters \ {v} : records'[p][u] = records[p][u]
  BY <1>1 DEF Recorded
<1>3. v \in Voters /\ p \in ProposalIds
  BY DEF Recorded
<1>4. f \in [Voters -> Nat] /\ g \in [Voters -> Nat]
  BY <1>2, ShareType DEF Shares
<1>5. /\ f[v] = Share(records[p][v], side) /\ g[v] = Share(rec, side)
      /\ \A u \in Voters \ {v} : g[u] = f[u]
  BY <1>2, <1>3 DEF Shares
<1>6. /\ DOMAIN f = Voters /\ DOMAIN g = Voters /\ f[v] \in Nat /\ g[v] \in Nat
  BY <1>3, <1>4
<1>7. Standing(p, side) = Total(f) /\ Standing(p, side)' = Total(g)
  BY StandingIs DEF Shares
<1>8. \A r \in ProposalIds \ {p} : Standing(r, side)' = Standing(r, side)
  <2>1. ASSUME NEW r \in ProposalIds \ {p} PROVE Standing(r, side)' = Standing(r, side)
    BY <1>1 DEF Standing
  <2> QED BY <2>1
<1> HIDE DEF f, g
<1>9. IsFiniteSet(Units(f)) /\ Total(f) \in Nat
  BY <1>4, TotalFinite, GovernanceAssumption
<1>10. Total(g) = Total(f) - f[v] + g[v]
  BY <1>3, <1>5, <1>6, <1>9, TotalUpdate
<1> QED BY <1>5, <1>7, <1>8, <1>9, <1>10

LEMMA SlackMoves ==
  ASSUME NEW v, NEW p, NEW rec, Recorded(v, p, rec), Inv, Weighted, balance' = balance
  PROVE  /\ Total(Slack(p))' = Total(Slack(p)) - Left(Raw(records[p][v].weight), balance[v])
                                 + Left(Raw(rec.weight), balance[v])
         /\ \A r \in ProposalIds \ {p} : Total(Slack(r))' = Total(Slack(r))
<1> DEFINE f == Slack(p)
           g == [u \in Voters |-> Left(Raw(records'[p][u].weight), balance[u])]
<1>1. /\ records'[p] = [records[p] EXCEPT ![v] = rec]
      /\ \A r \in ProposalIds \ {p} : records'[r] = records[r]
  BY DEF Recorded
<1>2. /\ \A u \in Voters : records[p][u] \in VoteType /\ records'[p][u] \in VoteType
      /\ records'[p][v] = rec /\ \A u \in Voters \ {v} : records'[p][u] = records[p][u]
  BY <1>1 DEF Recorded
<1>3. v \in Voters /\ p \in ProposalIds
  BY DEF Recorded
<1>4. \A c \in Nat, b \in Nat : Left(c, b) \in Nat
  BY DEF Left
<1>5. \A u \in Voters : balance[u] \in Nat
  BY DEF Inv, Shape
<1>6. \A u \in Voters : Raw(records[p][u].weight) \in Nat /\ Raw(records'[p][u].weight) \in Nat
  BY <1>2, RawFacts DEF VoteType
<1>7. f \in [Voters -> Nat] /\ g \in [Voters -> Nat]
  BY <1>4, <1>5, <1>6 DEF Slack
<1>8. /\ f[v] = Left(Raw(records[p][v].weight), balance[v]) /\ g[v] = Left(Raw(rec.weight), balance[v])
      /\ \A u \in Voters \ {v} : g[u] = f[u]
  BY <1>2, <1>3 DEF Slack
<1>9. DOMAIN f = Voters /\ DOMAIN g = Voters /\ f[v] \in Nat /\ g[v] \in Nat
  BY <1>3, <1>7
<1>10. Total(Slack(p))' = Total(g)
  BY DEF Slack
<1>11. \A r \in ProposalIds \ {p} : Total(Slack(r))' = Total(Slack(r))
  <2>1. ASSUME NEW r \in ProposalIds \ {p} PROVE Total(Slack(r))' = Total(Slack(r))
    BY <1>1 DEF Slack
  <2> QED BY <2>1
<1> HIDE DEF f, g
<1>12. IsFiniteSet(Units(f))
  BY <1>7, TotalFinite, GovernanceAssumption
<1>13. Total(g) = Total(f) - f[v] + g[v]
  BY <1>3, <1>8, <1>9, <1>12, TotalUpdate
<1> QED BY <1>8, <1>10, <1>11, <1>13 DEF f

LEMMA VotedFields ==
  ASSUME Inv, Weighted, NEW v \in Voters, NEW p \in ProposalIds, NEW side \in {"approve", "reject"},
         Weight(v) # 0
  PROVE  /\ Voted(v, p, side).approve = proposals[p].approve - Share(records[p][v], "approve")
              + (IF side = "approve" THEN Weight(v) ELSE 0)
         /\ Voted(v, p, side).reject = proposals[p].reject - Share(records[p][v], "reject")
              + (IF side = "reject" THEN Weight(v) ELSE 0)
<1>1. proposals[p] \in ProposalType
  BY DEF Inv, Shape
<1> QED BY <1>1 DEF Voted, Tally, Share, ProposalType

\* A vote takes from its voter's slack what it adds to the tallies, at the weight of today; undoing
\* the former vote gives back no more than it took.
LEMMA VoteBallots ==
  ASSUME Inv, Ballots, NEW v \in Voters, NEW p \in ProposalIds, NEW side \in {"approve", "reject"},
         Vote(v, p, side)
  PROVE  Ballots'
<1> DEFINE q == Voted(v, p, side)
<1>1. /\ proposals' = [proposals EXCEPT ![p] = [q EXCEPT !.state = Resolved(q)]]
      /\ balance' = balance /\ supply' = supply /\ ceiling' = ceiling /\ count' = count
      /\ p <= count
  BY DEF Vote, tokens
<1>t. /\ proposals \in [ProposalIds -> ProposalType] /\ balance[v] \in Nat /\ count \in Nat
      /\ records \in [ProposalIds -> [Voters -> RecordType]]
      /\ \A r \in ProposalIds : records[r] \in [Voters -> VoteType]
      /\ \A r \in ProposalIds : ceiling[r] \in Int
  BY GovernanceAssumption DEF Inv, Shape, Ballots, Weighted
<1>2. q \in ProposalType
  BY TallyType DEF Inv
<1> HIDE DEF q
<1>3. /\ proposals'[p].approve = q.approve /\ proposals'[p].reject = q.reject
      /\ \A r \in ProposalIds \ {p} : proposals'[r] = proposals[r]
  BY <1>1, <1>2, <1>t DEF ProposalType
<1>4. CASE Weight(v) = 0
  <2>1. q = proposals[p] /\ records' = records
    BY <1>4 DEF q, Voted, Vote
  <2> QED BY <1>1, <1>3, <2>1, SameBallots
<1>5. CASE Weight(v) # 0
  <2> DEFINE old == records[p][v]
  <2>w. PICK w \in Nat : w = Weight(v)
    BY <1>t, WeightHeld
  <2>r. PICK rec \in VoteType : rec = [side |-> side, weight |-> w]
    BY DEF VoteType, Sides
  <2>f. rec.side = side /\ rec.weight = w
    BY <2>r
  <2>1. Recorded(v, p, rec)
    BY <1>t, <1>5, <2>w, <2>r DEF Vote, Recorded
  <2>2. /\ q.approve = proposals[p].approve - Share(old, "approve") + Share(rec, "approve")
        /\ q.reject = proposals[p].reject - Share(old, "reject") + Share(rec, "reject")
    BY <1>5, <2>w, <2>f, VotedFields DEF q, Share, Ballots
  <2>3. old \in VoteType /\ (old.side = "none" => old.weight = 0)
    BY <1>t DEF Ballots, Weighted
  <2>4. Weighted'
    <3>1. records'[p] = [records[p] EXCEPT ![v] = rec]
          /\ \A r \in ProposalIds \ {p} : records'[r] = records[r]
      BY <2>1 DEF Recorded
    <3>2. records'[p] \in [Voters -> VoteType]
      BY <1>t, <3>1
    <3>3. \A u \in Voters : records'[p][u].side = "none" => records'[p][u].weight = 0
      BY <1>t, <2>f, <3>1 DEF Ballots, Weighted
    <3>4. ~(p > count)
      BY <1>1, <1>t DEF ProposalIds
    <3> QED BY <1>1, <3>1, <3>2, <3>3, <3>4 DEF Ballots, Weighted
  <2>5. TalliesAreRecords'
    <3>1. supply' = Total(balance)'
      BY <1>1 DEF Ballots, TalliesAreRecords
    <3>2. /\ proposals'[p].approve = Standing(p, "approve")'
          /\ proposals'[p].reject = Standing(p, "reject")'
      BY <1>3, <2>1, <2>2, StandingMoves DEF Ballots, TalliesAreRecords
    <3>3. \A r \in ProposalIds \ {p} : /\ proposals'[r].approve = Standing(r, "approve")'
                                       /\ proposals'[r].reject = Standing(r, "reject")'
      BY <1>3, <2>1, StandingMoves DEF Ballots, TalliesAreRecords
    <3> QED BY <3>1, <3>2, <3>3 DEF TalliesAreRecords
  <2>6. Budget(p)'
    <3>1. Budget(p)
      BY <1>1 DEF Ballots, Budgeted
    <3>2. PICK a \in Int, b \in Int : a = proposals[p].approve /\ b = proposals[p].reject
      BY <1>t DEF ProposalType
    <3>3. PICK o \in Nat : o = old.weight
      BY <2>3 DEF VoteType
    <3>4. proposals'[p].approve + proposals'[p].reject = a + b - o + w
      <4>1. \/ Share(old, "approve") = o /\ Share(old, "reject") = 0
            \/ Share(old, "approve") = 0 /\ Share(old, "reject") = o
        BY <2>3, <3>3 DEF Share, VoteType, Sides
      <4>2. \/ Share(rec, "approve") = w /\ Share(rec, "reject") = 0
            \/ Share(rec, "approve") = 0 /\ Share(rec, "reject") = w
        BY <2>f DEF Share
      <4> QED BY <1>3, <2>2, <3>2, <4>1, <4>2
    <3>5. Raw(a + b - o + w) = Raw(a + b) - Raw(o) + Raw(w)
      <4>1. a + b \in Int
        OBVIOUS
      <4> QED BY <4>1, RawMoves
    <3>6. Total(Slack(p))' = Total(Slack(p)) - Left(Raw(o), balance[v]) + Left(Raw(w), balance[v])
      BY <1>1, <2>1, <2>f, <3>3, SlackMoves DEF Ballots
    <3>7. Raw(w) <= balance[v] /\ Raw(w) \in Nat /\ Raw(o) \in Nat /\ Raw(a + b) \in Int
      BY <1>t, <2>w, WeightHeld, RawFacts
    <3>8. Total(Slack(p)) \in Nat
      BY SlackType DEF Ballots
    <3>9. Left(Raw(w), balance[v]) = balance[v] - Raw(w) /\ Left(Raw(o), balance[v]) >= balance[v] - Raw(o)
          /\ Left(Raw(o), balance[v]) \in Nat
      BY <1>t, <3>7 DEF Left
    <3>10. Raw(a + b) + Total(Slack(p)) <= ceiling[p] /\ ceiling'[p] = ceiling[p] /\ ceiling[p] \in Int
      BY <1>1, <1>t, <3>1, <3>2 DEF Budget
    <3>11. Raw(a + b - o + w) + Total(Slack(p))' <= ceiling'[p]
      BY <1>t, <3>5, <3>6, <3>7, <3>8, <3>9, <3>10
    <3> QED BY <3>4, <3>11 DEF Budget
  <2>7. ASSUME NEW r \in ProposalIds, r <= count', r # p PROVE Budget(r)'
    <3>1. Total(Slack(r))' = Total(Slack(r))
      BY <1>1, <2>1, <2>7, SlackMoves DEF Ballots
    <3>2. Budget(r)
      BY <1>1, <2>7 DEF Ballots, Budgeted
    <3> QED BY <1>1, <1>3, <2>7, <3>1, <3>2 DEF Budget
  <2>8. Budgeted'
    BY <2>6, <2>7 DEF Budgeted
  <2> QED BY <2>4, <2>5, <2>8 DEF Ballots
<1> QED BY <1>4, <1>5

\* What one voter holds changes by n, which is at most what the ceilings rise by.
LEMMA HoldingBallots ==
  ASSUME Inv, Ballots, NEW v \in Voters, NEW n \in Int, NEW m \in Nat, n <= m, balance[v] + n \in Nat,
         balance' = [balance EXCEPT ![v] = @ + n], supply' = supply + n,
         ceiling' = [p \in ProposalIds |-> IF p > count THEN 0 ELSE ceiling[p] + m],
         proposals' = proposals, records' = records, count' = count
  PROVE  Ballots'
<1>t. /\ balance \in [Voters -> Nat] /\ count \in Nat /\ \A p \in ProposalIds : ceiling[p] \in Int
      /\ proposals \in [ProposalIds -> ProposalType]
  BY GovernanceAssumption DEF Inv, Shape, Ballots, Weighted
<1>1. \A p, side : Standing(p, side)' = Standing(p, side)
  BY DEF Standing
<1>2. /\ balance' \in [Voters -> Nat] /\ balance'[v] = balance[v] + n
      /\ \A u \in Voters \ {v} : balance'[u] = balance[u]
  BY <1>t
<1>3. TalliesAreRecords'
  <2>1. IsFiniteSet(Units(balance)) /\ Total(balance) \in Nat
    BY <1>t, TotalFinite, GovernanceAssumption
  <2>2. /\ DOMAIN balance = Voters /\ DOMAIN balance' = Voters
        /\ balance[v] \in Nat /\ balance'[v] \in Nat
    BY <1>t, <1>2
  <2>3. Total(balance') = Total(balance) - balance[v] + balance'[v]
    BY <1>2, <2>1, <2>2, TotalUpdate
  <2>4. supply' = Total(balance)'
    BY <1>2, <2>1, <2>2, <2>3 DEF Ballots, TalliesAreRecords
  <2> QED BY <1>1, <2>4 DEF Ballots, TalliesAreRecords
<1>4. Weighted'
  BY <1>t DEF Ballots, Weighted
<1>5. ASSUME NEW p \in ProposalIds, p <= count PROVE Budget(p)'
  <2> DEFINE f == Slack(p)
             g == [u \in Voters |-> Left(Raw(records[p][u].weight), balance'[u])]
             c == Raw(records[p][v].weight)
  <2>1. \A u \in Voters : Raw(records[p][u].weight) \in Nat
    BY RawFacts DEF Ballots, Weighted, VoteType
  <2>2. \A x \in Nat, b \in Nat : Left(x, b) \in Nat
    BY DEF Left
  <2>3. g \in [Voters -> Nat]
    BY <1>2, <2>1, <2>2
  <2>4. f \in [Voters -> Nat] /\ IsFiniteSet(Units(f)) /\ Total(f) \in Nat
    BY SlackType DEF Ballots
  <2>5. f[v] = Left(c, balance[v]) /\ g[v] = Left(c, balance'[v]) /\ \A u \in Voters \ {v} : g[u] = f[u]
    BY <1>2 DEF Slack
  <2>6. DOMAIN f = Voters /\ DOMAIN g = Voters /\ f[v] \in Nat /\ g[v] \in Nat
    BY <2>3, <2>4
  <2>7. Total(Slack(p))' = Total(g)
    BY DEF Slack
  <2>8. c \in Nat
    BY <2>1
  <2> HIDE DEF f, g, c
  <2>9. Total(g) = Total(f) - f[v] + g[v]
    BY <2>4, <2>5, <2>6, TotalUpdate
  <2>10. g[v] <= f[v] + m
    BY <1>t, <1>2, <2>5, <2>8 DEF Left
  <2>11. Raw(proposals[p].approve + proposals[p].reject) + Total(f) <= ceiling[p]
    BY <1>5 DEF Ballots, Budgeted, Budget, f
  <2>12. Raw(proposals[p].approve + proposals[p].reject) \in Int
    BY <1>t, RawFacts DEF ProposalType
  <2>13. ceiling'[p] = ceiling[p] + m
    BY <1>t, <1>5 DEF ProposalIds
  <2>14. Raw(proposals[p].approve + proposals[p].reject) + Total(g) <= ceiling'[p]
    BY <1>t, <2>4, <2>6, <2>9, <2>10, <2>11, <2>12, <2>13
  <2> QED BY <2>7, <2>14 DEF Budget
<1>6. Budgeted'
  BY <1>5 DEF Budgeted
<1> QED BY <1>3, <1>4, <1>6 DEF Ballots

LEMMA InitBallots == Init => Ballots
<1> SUFFICES ASSUME Init PROVE Ballots
  OBVIOUS
<1>1. /\ DOMAIN balance = Voters /\ \A v \in Voters : balance[v] = 0
      /\ supply = 0 /\ count = 0
      /\ \A p \in ProposalIds : /\ proposals[p] = Blank /\ records[p] = [v \in Voters |-> NoVote]
                                /\ ceiling[p] = 0
      /\ ceiling \in [ProposalIds -> Int]
  BY DEF Init
<1>2. Blank.approve = 0 /\ Blank.reject = 0 /\ NoVote \in VoteType /\ NoVote.side = "none" /\ NoVote.weight = 0
  BY DEF Blank, NoVote, VoteType, Sides
<1>3. Weighted
  BY <1>1, <1>2 DEF Weighted
<1>4. TalliesAreRecords
  <2>1. Total(balance) = 0
    BY <1>1, TotalOfNone
  <2>2. ASSUME NEW p \in ProposalIds, NEW side \in {"approve", "reject"} PROVE Standing(p, side) = 0
    <3>1. \A v \in DOMAIN Shares(p, side) : Shares(p, side)[v] = 0
      BY <1>1, <1>2 DEF Shares, Share
    <3> QED BY <3>1, TotalOfNone, StandingIs
  <2> QED BY <1>1, <1>2, <2>1, <2>2 DEF TalliesAreRecords
<1>5. Budgeted
  BY <1>1 DEF Budgeted, ProposalIds
<1> QED BY <1>3, <1>4, <1>5 DEF Ballots

LEMMA BallotsNext == Inv /\ Ballots /\ [Next]_vars => Ballots'
<1> SUFFICES ASSUME Inv, Ballots, [Next]_vars PROVE Ballots'
  OBVIOUS
<1>t. proposals \in [ProposalIds -> ProposalType]
  BY DEF Inv, Shape
<1>1. ASSUME NEW p \in ProposalIds, KillMoot(p)
      PROVE  Ballots'
  <2>1. /\ records' = records /\ balance' = balance /\ supply' = supply /\ ceiling' = ceiling
        /\ count' = count /\ proposals' = [proposals EXCEPT ![p].state = "killed"]
    BY <1>1 DEF KillMoot, tokens, history
  <2>2. \A r \in ProposalIds : /\ proposals'[r].approve = proposals[r].approve
                               /\ proposals'[r].reject = proposals[r].reject
    BY <1>t, <2>1 DEF ProposalType
  <2> QED BY <2>1, <2>2, SameBallots
<1>2. ASSUME Tick
      PROVE  Ballots'
  <2>1. /\ records' = records /\ balance' = balance /\ supply' = supply /\ ceiling' = ceiling
        /\ count' = count
    BY <1>2 DEF Tick, tokens, history
  <2>2. \A r \in ProposalIds : /\ proposals'[r].approve = proposals[r].approve
                               /\ proposals'[r].reject = proposals[r].reject
    BY <1>2, <1>t DEF Tick, ProposalType
  <2> QED BY <2>1, <2>2, SameBallots
<1>3. ASSUME ProcessWord \/ EndGame \/ UNCHANGED vars
      PROVE  Ballots'
  <2>1. /\ records' = records /\ balance' = balance /\ supply' = supply /\ ceiling' = ceiling
        /\ count' = count /\ proposals' = proposals
    BY <1>3 DEF ProcessWord, EndGame, vars, tokens, ballots, history
  <2> QED BY <2>1, SameBallots
<1>4. ASSUME NEW v \in Voters, NEW n \in 1..Pool, Award(v, n)
      PROVE  Ballots'
  <2>1. n \in Nat
    BY GovernanceAssumption
  <2>2. balance[v] + n \in Nat
    BY <2>1 DEF Inv, Shape
  <2>3. /\ balance' = [balance EXCEPT ![v] = @ + n] /\ supply' = supply + n
        /\ ceiling' = [p \in ProposalIds |-> IF p > count THEN 0 ELSE ceiling[p] + n]
        /\ proposals' = proposals /\ records' = records /\ count' = count
    BY <1>4 DEF Award, ballots
  <2>4. PICK m \in Nat : m = n
    BY <2>1
  <2>5. ceiling' = [p \in ProposalIds |-> IF p > count THEN 0 ELSE ceiling[p] + m]
    BY <2>3, <2>4
  <2>6. n <= m /\ n \in Int
    BY <2>4
  <2> QED BY <2>2, <2>3, <2>5, <2>6, HoldingBallots
<1>5. ASSUME NEW v \in Voters, NEW n \in 1..Pool, Burn(v, n)
      PROVE  Ballots'
  <2>1. PICK m \in Int : m = 0 - n
    BY GovernanceAssumption
  <2>2. balance[v] + m \in Nat /\ balance[v] - n = balance[v] + m /\ supply - n = supply + m
        /\ m <= 0
    BY <1>5, <2>1 DEF Inv, Shape, Burn
  <2>3. /\ balance' = [balance EXCEPT ![v] = @ + m] /\ supply' = supply + m
        /\ proposals' = proposals /\ records' = records /\ count' = count /\ ceiling' = ceiling
    BY <1>5, <2>2 DEF Burn, ballots, history
  <2>4. ceiling = [p \in ProposalIds |-> IF p > count THEN 0 ELSE ceiling[p] + 0]
    BY DEF Ballots, Weighted
  <2>5. ceiling' = [p \in ProposalIds |-> IF p > count THEN 0 ELSE ceiling[p] + 0]
    BY <2>3, <2>4
  <2> QED BY <2>2, <2>3, <2>5, HoldingBallots
<1> QED BY <1>1, <1>2, <1>3, <1>4, <1>5, ProposeBallots, VoteBallots DEF Next

LEMMA BallotsSound == Inv /\ Ballots => TalliesAreVotes
<1> SUFFICES ASSUME Inv, Ballots PROVE TalliesAreVotes
  OBVIOUS
<1>1. ASSUME NEW p \in ProposalIds
      PROVE  (proposals[p].approve + proposals[p].reject) * Token <= ceiling[p]
  <2>t. count \in Nat /\ ceiling[p] \in Int /\ proposals[p] \in ProposalType
    BY GovernanceAssumption DEF Inv, Shape, Ballots, Weighted
  <2>1. CASE p <= count
    <3>1. Raw(proposals[p].approve + proposals[p].reject) \in Int
      BY <2>t, RawFacts DEF ProposalType
    <3>2. Total(Slack(p)) \in Nat
      BY SlackType DEF Ballots
    <3>3. Raw(proposals[p].approve + proposals[p].reject) <= ceiling[p]
      BY <2>1, <2>t, <3>1, <3>2 DEF Ballots, Budgeted, Budget
    <3> QED BY <3>3 DEF Raw
  <2>2. CASE ~(p <= count)
    <3>1. p > count
      BY <2>2, <2>t DEF ProposalIds
    <3>2. ASSUME NEW side \in {"approve", "reject"} PROVE Standing(p, side) = 0
      <4>1. \A v \in DOMAIN Shares(p, side) : Shares(p, side)[v] = 0
        BY <3>1 DEF Shares, Share, Ballots, Weighted
      <4> QED BY <4>1, TotalOfNone, StandingIs
    <3>3. proposals[p].approve = 0 /\ proposals[p].reject = 0
      BY <3>2 DEF Ballots, TalliesAreRecords
    <3>4. ceiling[p] = 0
      BY <3>1 DEF Ballots, Weighted
    <3> QED BY <3>3, <3>4, RawFacts DEF Raw
  <2> QED BY <2>1, <2>2
<1> QED BY <1>1 DEF TalliesAreVotes, OneTokenOneVote, Ballots

\* A tally is its standing votes (_applyVote), and with what the voters still hold it stays within
\* what was ever handed out: a vote takes from its voter's holdings what it adds, a burn leaves the
\* votes cast, and only handing out raises the ceiling.
THEOREM TalliesAreTokens == Spec => []TalliesAreVotes
<1>1. Init => Inv /\ Ballots
  BY InitInv, InitBallots
<1>2. Inv /\ Ballots /\ [Next]_vars => (Inv /\ Ballots)'
  BY NextInv, BallotsNext
<1>3. Inv /\ Ballots => TalliesAreVotes
  BY BallotsSound
<1> QED BY <1>1, <1>2, <1>3, PTL DEF Spec
==============================================================================

--------------------------- MODULE OwnershipProofs ---------------------------
(***************************************************************************)
(* DegenerusOwnerGovernance: whoever cast a standing vote still controls   *)
(* the deposit behind it, and a decision rests on a majority of escrow     *)
(* that its block began with, for any wallets, supply and history.         *)
(***************************************************************************)
EXTENDS OwnerGovernance, TotalProofs

Inv == TypeOK /\ VoteIsControlled

\* ProposalType with its Boolean out of the SMT solver's sight.
Flag == BOOLEAN
QType == [locked : Int, recent : Int, recentBlock : Nat, expiresAt : Nat, executed : Flag]

LEMMA FlagType == ProposalType = QType /\ TRUE \in Flag /\ FALSE \in Flag
  BY DEF ProposalType, QType, Flag

\* Updates of a proposal and a position, whatever the new weights are.
LEMMA QUpdate ==
  ASSUME NEW q \in QType, NEW x \in Int, NEW y \in Int, NEW b \in Nat
  PROVE  /\ [q EXCEPT !.locked = x, !.recentBlock = b, !.recent = y] \in QType
         /\ [q EXCEPT !.locked = x, !.recent = y] \in QType
         /\ [q EXCEPT !.expiresAt = b] \in QType
  BY DEF QType

LEMMA CountedType ==
  ASSUME NEW q \in QType, NEW n \in Nat, block \in Nat
  PROVE  Counted(q, n) \in QType
<1> DEFINE x == q.locked + n
           y == (IF q.recentBlock = block THEN q.recent ELSE 0) + n
<1>1. x \in Int /\ y \in Int
  BY DEF QType
<1>2. Counted(q, n) = [q EXCEPT !.locked = x, !.recentBlock = block, !.recent = y]
  BY DEF Counted, QType
<1> HIDE DEF x, y
<1> QED BY <1>1, <1>2 DEF QType

LEMMA UncountedType ==
  ASSUME NEW q \in QType, NEW pos \in PositionType
  PROVE  Uncounted(q, pos) \in QType
<1> DEFINE x == q.locked - pos.amount
           y == IF q.recentBlock = pos.assignedBlock THEN q.recent - pos.amount ELSE q.recent
<1>1. x \in Int /\ y \in Int
  BY DEF QType, PositionType
<1>2. Uncounted(q, pos) = [q EXCEPT !.locked = x, !.recent = y]
  BY DEF Uncounted, QType
<1> HIDE DEF x, y
<1> QED BY <1>1, <1>2 DEF QType

LEMMA Blank == NoPosition \in PositionType /\ NoPosition.proposalId = 0 /\ NoProposal \in QType
<1>1. Nobody \in Wallets /\ 0 \in Votes /\ FALSE \in Flag
  BY OwnershipAssumption DEF Wallets, Votes, Flag
<1>2. NoPosition \in PositionType /\ NoPosition.proposalId = 0
  BY <1>1 DEF NoPosition, PositionType
<1>3. NoProposal \in QType
  <2> DEFINE no == FALSE
  <2>1. NoProposal = [locked |-> 0, recent |-> 0, recentBlock |-> 0, expiresAt |-> 0, executed |-> no]
    BY DEF NoProposal
  <2>2. no \in Flag
    BY <1>1
  <2> HIDE DEF no
  <2> QED BY <2>1, <2>2 DEF QType
<1> QED BY <1>2, <1>3

LEMMA VoteIds == 0 \in Votes /\ ProposalIds \subseteq Votes /\ Votes \ {0} \subseteq ProposalIds
                 /\ Nobody \in Wallets /\ Actors \subseteq Wallets
  BY OwnershipAssumption DEF Votes, ProposalIds, Wallets

\* _prepare leaves the token typed, and its actor in control of a deposit.
LEMMA PrepareType ==
  ASSUME TypeOK, NEW actor \in Actors, NEW o \in Owners, NEW n \in 0..Refill, Prepare(actor, o, n)
  PROVE  /\ held' \in Int /\ escrowed' \in Int /\ wallet' \in [Owners -> Nat]
         /\ n = 0 => positions[o].amount # 0 /\ actor \in {o, positions[o].delegate}
         /\ n # 0 => actor = o
  BY OwnershipAssumption DEF TypeOK, Prepare, Escrow, token, Controls

\* _assign records a vote of the actor, on a deposit it controls.
LEMMA AssignInv ==
  ASSUME Inv, NEW actor \in Actors, NEW o \in Owners, NEW n \in 0..Refill,
         NEW p \in ProposalIds, NEW q \in QType,
         n = 0 => positions[o].amount # 0 /\ actor \in {o, positions[o].delegate},
         n # 0 => actor = o,
         Assign(actor, o, n, p, q)
  PROVE  /\ positions' \in [Owners -> PositionType] /\ proposals' \in [ProposalIds -> QType]
         /\ voter' \in [Owners -> Wallets]
         /\ VoteIsControlled'
<1> USE OwnershipAssumption
<1> DEFINE pos == IF n = 0 THEN positions[o] ELSE Fresh(n, Nobody)
<1>1. /\ positions' = [positions EXCEPT ![o] = Assigned(pos, p)]
      /\ proposals' = [proposals EXCEPT ![p] = Counted(q, pos.amount)]
      /\ voter' = [voter EXCEPT ![o] = actor]
  BY DEF Assign
<1>2. /\ positions \in [Owners -> PositionType] /\ proposals \in [ProposalIds -> QType]
      /\ voter \in [Owners -> Wallets] /\ block \in Nat
  BY FlagType DEF Inv, TypeOK
<1>3. pos \in PositionType /\ pos.amount # 0 /\ actor \in {o, pos.delegate}
  <2>1. CASE n = 0
    BY <1>2, <2>1
  <2>2. CASE n # 0
    BY <1>2, <2>2, VoteIds DEF Fresh, PositionType
  <2> QED BY <2>1, <2>2
<1> HIDE DEF pos
<1>4. /\ Assigned(pos, p) \in PositionType
      /\ Assigned(pos, p).amount = pos.amount /\ Assigned(pos, p).delegate = pos.delegate
  BY <1>2, <1>3, VoteIds DEF PositionType, Assigned
<1>5. Counted(q, pos.amount) \in QType
  BY <1>2, <1>3, CountedType DEF PositionType
<1>6. /\ positions' \in [Owners -> PositionType]
      /\ voter' \in [Owners -> Wallets]
  BY <1>1, <1>2, <1>4, VoteIds
<1>7. proposals' \in [ProposalIds -> QType]
  BY <1>1, <1>2, <1>5
<1>8. VoteIsControlled'
  BY <1>1, <1>2, <1>3, <1>4 DEF Inv, VoteIsControlled
<1> QED BY <1>6, <1>7, <1>8

\* Clearing a vote: the proposals keep their shape, the position its owner's deposit.
LEMMA ClearType ==
  ASSUME TypeOK, NEW o \in Owners
  PROVE  /\ Cleared(o) \in [ProposalIds -> QType]
         /\ Unassigned(o) \in PositionType /\ Unassigned(o).proposalId = 0
<1> USE OwnershipAssumption
<1>1. proposals \in [ProposalIds -> QType] /\ positions[o] \in PositionType
  BY FlagType DEF TypeOK
<1>2. Unassigned(o) \in PositionType /\ Unassigned(o).proposalId = 0
  BY <1>1, VoteIds DEF Unassigned, PositionType
<1>3. Cleared(o) \in [ProposalIds -> QType]
  <2>1. CASE positions[o].proposalId = 0
    BY <1>1, <2>1 DEF Cleared
  <2>2. CASE positions[o].proposalId # 0
    <3>1. positions[o].proposalId \in ProposalIds
      BY <1>1, <2>2, VoteIds DEF PositionType
    <3>2. Uncounted(proposals[positions[o].proposalId], positions[o]) \in QType
      BY <1>1, <3>1, UncountedType
    <3> QED BY <1>1, <2>2, <3>1, <3>2 DEF Cleared
  <2> QED BY <2>1, <2>2
<1> QED BY <1>2, <1>3

\* A step that takes owner o's vote away, whatever else it does to o's position.
LEMMA ClearInv ==
  ASSUME Inv, NEW o \in Owners, NEW pos \in PositionType, pos.proposalId = 0,
         positions' = [positions EXCEPT ![o] = pos], proposals' = Cleared(o),
         voter' = [voter EXCEPT ![o] = Nobody]
  PROVE  /\ positions' \in [Owners -> PositionType] /\ proposals' \in [ProposalIds -> QType]
         /\ voter' \in [Owners -> Wallets]
         /\ VoteIsControlled'
<1>1. positions \in [Owners -> PositionType] /\ voter \in [Owners -> Wallets]
  BY DEF Inv, TypeOK
<1>2. positions' \in [Owners -> PositionType] /\ voter' \in [Owners -> Wallets]
  BY <1>1, VoteIds
<1>3. proposals' \in [ProposalIds -> QType]
  BY ClearType DEF Inv
<1>4. VoteIsControlled'
  BY <1>1 DEF Inv, VoteIsControlled
<1> QED BY <1>2, <1>3, <1>4

LEMMA InitInv == Init => Inv
  BY OwnershipAssumption, Blank, FlagType, VoteIds DEF Init, Inv, TypeOK, VoteIsControlled

LEMMA NextInv == Inv /\ [Next]_vars => Inv'
<1> SUFFICES ASSUME Inv, [Next]_vars PROVE Inv'
  OBVIOUS
<1> USE OwnershipAssumption
<1>t. /\ positions \in [Owners -> PositionType] /\ proposals \in [ProposalIds -> QType]
      /\ voter \in [Owners -> Wallets] /\ wallet \in [Owners -> Nat]
      /\ block \in Nat \ {0} /\ held \in Int /\ escrowed \in Int /\ count \in 0..MaxProposals
      /\ TypeOK
  BY FlagType DEF Inv, TypeOK
<1>1. ASSUME NEW o \in Owners, NEW n \in 1..Refill, NEW d \in Wallets, Deposit(o, n, d)
      PROVE  Inv'
  <2>1. Fresh(n, d) \in PositionType /\ Fresh(n, d).proposalId = 0
    BY <1>t, VoteIds DEF Fresh, PositionType
  <2>2. /\ positions' = [positions EXCEPT ![o] = Fresh(n, d)]
        /\ wallet' \in [Owners -> Nat] /\ held' \in Int /\ escrowed' \in Int
        /\ UNCHANGED <<proposals, voter, count, block>>
    BY <1>1, <1>t DEF Deposit, Escrow, history
  <2> QED BY <1>t, <2>1, <2>2, FlagType DEF Inv, TypeOK, VoteIsControlled
<1>2. ASSUME NEW a \in Actors, NEW o \in Owners, NEW n \in 0..Refill, Propose(a, o, n)
      PROVE  Inv'
  <2> DEFINE q == [NoProposal EXCEPT !.expiresAt = block + Lifetime]
  <2>1. /\ count + 1 \in ProposalIds /\ count' = count + 1 /\ block' = block
        /\ Prepare(a, o, n) /\ Assign(a, o, n, count + 1, q)
    BY <1>2, <1>t DEF Propose, ProposalIds, history
  <2>2. q \in QType
    <3> DEFINE e == block + Lifetime
    <3>1. e \in Nat
      BY <1>t
    <3>2. q = [NoProposal EXCEPT !.expiresAt = e]
      OBVIOUS
    <3> HIDE DEF e, q
    <3> QED BY <3>1, <3>2, Blank DEF QType
  <2> HIDE DEF q
  <2>3. /\ positions' \in [Owners -> PositionType] /\ proposals' \in [ProposalIds -> QType]
        /\ voter' \in [Owners -> Wallets] /\ VoteIsControlled'
    BY <2>1, <2>2, <1>t, PrepareType, AssignInv
  <2> QED BY <2>1, <2>3, <1>t, PrepareType, FlagType DEF Inv, TypeOK, ProposalIds
<1>3. ASSUME NEW a \in Actors, NEW o \in Owners, NEW p \in ProposalIds, NEW n \in 0..Refill,
             Support(a, o, p, n)
      PROVE  Inv'
  <2>1. /\ proposals[p] \in QType /\ count' = count /\ block' = block
        /\ Prepare(a, o, n) /\ Assign(a, o, n, p, proposals[p])
    BY <1>3, <1>t DEF Support, history
  <2>2. /\ positions' \in [Owners -> PositionType] /\ proposals' \in [ProposalIds -> QType]
        /\ voter' \in [Owners -> Wallets] /\ VoteIsControlled'
    BY <2>1, <1>t, PrepareType, AssignInv
  <2> QED BY <2>1, <2>2, <1>t, PrepareType, FlagType DEF Inv, TypeOK
<1>4. ASSUME NEW o \in Owners, NEW d \in Wallets, SetVotingDelegate(o, d)
      PROVE  Inv'
  <2> DEFINE pos == [Unassigned(o) EXCEPT !.delegate = d]
  <2>1. pos \in PositionType /\ pos.proposalId = 0
    BY <1>t, ClearType DEF PositionType
  <2> HIDE DEF pos
  <2>2. /\ positions' = [positions EXCEPT ![o] = pos] /\ proposals' = Cleared(o)
        /\ voter' = [voter EXCEPT ![o] = Nobody] /\ UNCHANGED <<wallet, held, escrowed, count, block>>
    BY <1>4 DEF SetVotingDelegate, token, history, pos
  <2> QED BY <2>1, <2>2, <1>t, ClearInv, FlagType DEF Inv, TypeOK
<1>5. ASSUME NEW a \in Actors, NEW o \in Owners, ClearVote(a, o)
      PROVE  Inv'
  <2>1. /\ positions' = [positions EXCEPT ![o] = Unassigned(o)] /\ proposals' = Cleared(o)
        /\ voter' = [voter EXCEPT ![o] = Nobody] /\ UNCHANGED <<wallet, held, escrowed, count, block>>
    BY <1>5 DEF ClearVote, token, history
  <2> QED BY <2>1, <1>t, ClearType, ClearInv, FlagType DEF Inv, TypeOK
<1>6. ASSUME NEW o \in Owners, Withdraw(o)
      PROVE  Inv'
  <2>1. /\ positions' = [positions EXCEPT ![o] = NoPosition] /\ proposals' = Cleared(o)
        /\ voter' = [voter EXCEPT ![o] = Nobody] /\ UNCHANGED <<count, block>>
        /\ escrowed' = escrowed - positions[o].amount /\ held' = held - positions[o].amount
        /\ wallet' = [wallet EXCEPT ![o] = @ + positions[o].amount]
    BY <1>6 DEF Withdraw, history
  <2>2. NoPosition \in PositionType /\ NoPosition.proposalId = 0 /\ positions[o].amount \in Nat
    BY <1>t, Blank DEF PositionType
  <2>3. wallet' \in [Owners -> Nat] /\ held' \in Int /\ escrowed' \in Int
    BY <2>1, <2>2, <1>t
  <2> QED BY <2>1, <2>2, <2>3, <1>t, ClearInv, FlagType DEF Inv, TypeOK
<1>7. ASSUME NEW p \in ProposalIds, Execute(p)
      PROVE  Inv'
  <2> DEFINE yes == TRUE
  <2>1. /\ proposals' = [proposals EXCEPT ![p] = [proposals[p] EXCEPT !.executed = yes]]
        /\ UNCHANGED <<wallet, held, escrowed, positions, count, voter, block>>
    BY <1>7 DEF Execute, token, history
  <2>2. yes \in Flag /\ proposals[p] \in QType
    BY <1>t, FlagType
  <2> HIDE DEF yes
  <2>3. [proposals[p] EXCEPT !.executed = yes] \in QType
    BY <2>2 DEF QType
  <2>4. proposals' \in [ProposalIds -> QType]
    BY <1>t, <2>1, <2>3
  <2> QED BY <2>1, <2>4, <1>t, FlagType DEF Inv, TypeOK, VoteIsControlled
<1>8. ASSUME NEW o \in Owners, NEW n \in 1..Refill, Transfer(o, n) \/ Burn(o, n)
      PROVE  Inv'
  <2>1. wallet' \in [Owners -> Nat] /\ held' \in Int
    BY <1>8, <1>t DEF Transfer, Burn
  <2>2. UNCHANGED <<escrowed, positions, proposals, count, voter, block>>
    BY <1>8 DEF Transfer, Burn, history
  <2> QED BY <2>1, <2>2, <1>t DEF Inv, TypeOK, VoteIsControlled
<1>9. ASSUME NextBlock
      PROVE  Inv'
  <2>1. block' \in Nat \ {0}
    BY <1>9, <1>t DEF NextBlock
  <2>2. UNCHANGED <<wallet, held, escrowed, positions, proposals, count, voter>>
    BY <1>9 DEF NextBlock, token
  <2> QED BY <2>1, <2>2, <1>t DEF Inv, TypeOK, VoteIsControlled
<1>10. ASSUME UNCHANGED vars
       PROVE  Inv'
  BY <1>10 DEF vars, Inv, TypeOK, VoteIsControlled
<1> QED BY <1>1, <1>2, <1>3, <1>4, <1>5, <1>6, <1>7, <1>8, <1>9, <1>10 DEF Next

\* The inductive invariant holds throughout: _prepare lets only a controller assign, and every step
\* that changes who controls a deposit takes its vote away.
THEOREM VotesAreControlled == Spec => [](TypeOK /\ VoteIsControlled)
  BY InitInv, NextInv, PTL DEF Spec, Inv

-----------------------------------------------------------------------------
(* What a proposal weighs. *)

Amounts == [o \in Owners |-> positions[o].amount]

\* The voters for p whose votes date from block c.
Since(p, c) == {o \in VotersFor(p) : positions[o].assignedBlock = c}

\* When the votes were cast: none after its proposal's last vote, none for a proposal to come.
Dated ==
  /\ opening \in [Owners -> [amount : Nat, vote : Votes]]
  /\ \A p \in ProposalIds : proposals[p].recentBlock <= block /\ (p > count => proposals[p].expiresAt = 0)
  /\ \A o \in Owners : positions[o].proposalId # 0 =>
       /\ positions[o].proposalId <= count
       /\ positions[o].assignedBlock <= proposals[positions[o].proposalId].recentBlock

\* A vote or a deposit of an earlier block stood when the current one began.
Remembered == \A o \in Owners :
  /\ positions[o].proposalId # 0 /\ positions[o].assignedBlock < block =>
       opening[o].amount = positions[o].amount /\ opening[o].vote = positions[o].proposalId
  /\ positions[o].depositBlock < block => positions[o].amount \in {0, opening[o].amount}

Books == WeightsAreDeposits /\ Dated /\ Remembered

LEMMA EscrowParts ==
  ASSUME NEW p, NEW c
  PROVE  /\ VotersFor(p) \in SUBSET Owners /\ Since(p, c) \in SUBSET Owners
         /\ Escrows(VotersFor(p)) = Total(Part(Amounts, VotersFor(p)))
         /\ Escrows(Since(p, c)) = Total(Part(Amounts, Since(p, c)))
         /\ Escrows(Owners) = Total(Part(Amounts, Owners))
         /\ VotersFor(p)' \in SUBSET Owners /\ Since(p, c)' \in SUBSET Owners
         /\ Escrows(VotersFor(p))' = Total(Part(Amounts', VotersFor(p)'))
         /\ Escrows(Since(p, c))' = Total(Part(Amounts', Since(p, c)'))
         /\ Escrows(Owners)' = Total(Part(Amounts', Owners))
  BY DEF VotersFor, Since, Escrows, Part, Amounts

\* One owner's position becomes pos.
Repositioned(o, pos) ==
  /\ positions \in [Owners -> PositionType] /\ o \in Owners /\ pos \in PositionType
  /\ positions' = [positions EXCEPT ![o] = pos]

\* Then each weight changes by what it holds of the old position and of the new one.
LEMMA Moved ==
  ASSUME NEW o, NEW pos, Repositioned(o, pos), NEW r, NEW c
  PROVE  /\ Escrows(VotersFor(r)) \in Nat /\ Escrows(Since(r, c)) \in Nat /\ Escrows(Owners) \in Nat
         /\ Escrows(VotersFor(r))' = Escrows(VotersFor(r)) - (IF positions[o].proposalId = r THEN positions[o].amount ELSE 0)
                                       + (IF pos.proposalId = r THEN pos.amount ELSE 0)
         /\ Escrows(Since(r, c))' =
              Escrows(Since(r, c)) - (IF positions[o].proposalId = r /\ positions[o].assignedBlock = c THEN positions[o].amount ELSE 0)
                                   + (IF pos.proposalId = r /\ pos.assignedBlock = c THEN pos.amount ELSE 0)
         /\ Escrows(Owners)' = Escrows(Owners) - positions[o].amount + pos.amount
<1> USE DEF Repositioned
<1>1. /\ Amounts \in [Owners -> Nat] /\ Amounts' \in [Owners -> Nat]
      /\ Amounts[o] = positions[o].amount /\ Amounts'[o] = pos.amount
      /\ \A x \in Owners \ {o} : Amounts'[x] = Amounts[x]
  BY DEF Amounts, PositionType
<1>2. /\ o \in VotersFor(r) <=> positions[o].proposalId = r
      /\ o \in VotersFor(r)' <=> pos.proposalId = r
      /\ \A x \in Owners \ {o} : x \in VotersFor(r)' <=> x \in VotersFor(r)
  BY DEF VotersFor
<1>3. /\ o \in Since(r, c) <=> positions[o].proposalId = r /\ positions[o].assignedBlock = c
      /\ o \in Since(r, c)' <=> pos.proposalId = r /\ pos.assignedBlock = c
      /\ \A x \in Owners \ {o} : x \in Since(r, c)' <=> x \in Since(r, c)
  BY <1>2 DEF Since
<1>4. \A S, T \in SUBSET Owners : (\A x \in Owners \ {o} : x \in T <=> x \in S) =>
        Total(Part(Amounts', T)) = Total(Part(Amounts, S)) - (IF o \in S THEN Amounts[o] ELSE 0)
                                     + (IF o \in T THEN Amounts'[o] ELSE 0)
  <2>1. ASSUME NEW S \in SUBSET Owners, NEW T \in SUBSET Owners, \A x \in Owners \ {o} : x \in T <=> x \in S
        PROVE  Total(Part(Amounts', T)) = Total(Part(Amounts, S)) - (IF o \in S THEN Amounts[o] ELSE 0)
                                            + (IF o \in T THEN Amounts'[o] ELSE 0)
    <3>1. OneApart(Owners, Amounts, S, Amounts', T, o)
      BY <1>1, <2>1 DEF OneApart
    <3>2. IsFiniteSet(Owners)
      BY OwnershipAssumption
    <3>3. Total(Part(Amounts', T)) = Total(Part(Amounts, S)) - InPart(Amounts, S, o) + InPart(Amounts', T, o)
      BY <3>1, <3>2, PartUpdate
    <3> QED BY <3>3 DEF InPart
  <2> QED BY <2>1
<1>5. \A S \in SUBSET Owners : Total(Part(Amounts, S)) \in Nat
  BY <1>1, PartBounds, OwnershipAssumption
<1>6. Escrows(VotersFor(r))' = Escrows(VotersFor(r)) - (IF o \in VotersFor(r) THEN Amounts[o] ELSE 0)
                                 + (IF o \in VotersFor(r)' THEN Amounts'[o] ELSE 0)
  <2>1. VotersFor(r) \in SUBSET Owners /\ VotersFor(r)' \in SUBSET Owners
    BY EscrowParts
  <2>2. Total(Part(Amounts', VotersFor(r)'))
          = Total(Part(Amounts, VotersFor(r))) - (IF o \in VotersFor(r) THEN Amounts[o] ELSE 0)
              + (IF o \in VotersFor(r)' THEN Amounts'[o] ELSE 0)
    BY <1>2, <1>4, <2>1
  <2>3. /\ Escrows(VotersFor(r)) = Total(Part(Amounts, VotersFor(r)))
        /\ Escrows(VotersFor(r))' = Total(Part(Amounts', VotersFor(r)'))
    BY EscrowParts
  <2> QED BY <2>2, <2>3
<1>7. Escrows(Since(r, c))' = Escrows(Since(r, c)) - (IF o \in Since(r, c) THEN Amounts[o] ELSE 0)
                                 + (IF o \in Since(r, c)' THEN Amounts'[o] ELSE 0)
  BY <1>3, <1>4, EscrowParts
<1>8. Escrows(Owners)' = Escrows(Owners) - Amounts[o] + Amounts'[o]
  BY <1>4, EscrowParts
<1>9. Escrows(VotersFor(r)) \in Nat /\ Escrows(Since(r, c)) \in Nat /\ Escrows(Owners) \in Nat
  BY <1>5, EscrowParts
<1> QED BY <1>1, <1>2, <1>3, <1>6, <1>7, <1>8, <1>9

\* The running weights of one proposal are the deposits behind it.
Weighed(p) ==
  /\ proposals[p].locked = Escrows(VotersFor(p))
  /\ proposals[p].recent = Escrows(Since(p, proposals[p].recentBlock))

LEMMA WeightParts ==
  WeightsAreDeposits <=> /\ escrowed = Escrows(Owners) /\ held >= escrowed
                         /\ \A p \in ProposalIds : Weighed(p)
  BY DEF WeightsAreDeposits, Weighed, Since

LEMMA WeightPartsNext ==
  WeightsAreDeposits' <=> /\ escrowed' = Escrows(Owners)' /\ held' >= escrowed'
                          /\ \A p \in ProposalIds : Weighed(p)'
  BY DEF WeightsAreDeposits, Weighed, Since

LEMMA CountedFields ==
  ASSUME NEW q \in QType, NEW n \in Nat
  PROVE  /\ Counted(q, n).locked = q.locked + n /\ Counted(q, n).recentBlock = block
         /\ Counted(q, n).recent = (IF q.recentBlock = block THEN q.recent ELSE 0) + n
  BY DEF Counted, QType

\* Neither touches when a proposal ends.
LEMMA ExpiryKept ==
  ASSUME NEW q \in QType, NEW n, NEW pos
  PROVE  Counted(q, n).expiresAt = q.expiresAt /\ Uncounted(q, pos).expiresAt = q.expiresAt
  BY DEF Counted, Uncounted, QType

LEMMA UncountedFields ==
  ASSUME NEW q \in QType, NEW pos \in PositionType
  PROVE  /\ Uncounted(q, pos).locked = q.locked - pos.amount
         /\ Uncounted(q, pos).recentBlock = q.recentBlock
         /\ Uncounted(q, pos).recent = q.recent - (IF q.recentBlock = pos.assignedBlock THEN pos.amount ELSE 0)
<1>1. q.recent \in Int /\ pos.amount \in Int
  BY DEF QType, PositionType
<1> QED BY <1>1 DEF Uncounted, QType

\* A deposit without a vote votes for p.
LEMMA AssignBooks ==
  ASSUME Inv, Books, NEW o \in Owners, NEW pos \in PositionType, NEW p \in ProposalIds, NEW q \in QType,
         positions[o].proposalId = 0,
         positions' = [positions EXCEPT ![o] = Assigned(pos, p)],
         proposals' = [proposals EXCEPT ![p] = Counted(q, pos.amount)],
         block' = block, opening' = opening, count' \in Nat, count <= count', p <= count',
         q.locked = Escrows(VotersFor(p)), q.recent = Escrows(Since(p, q.recentBlock)),
         q.recentBlock <= block, \A x \in VotersFor(p) : positions[x].assignedBlock <= q.recentBlock,
         pos.depositBlock < block => pos.amount \in {0, opening[o].amount}
  PROVE  /\ \A r \in ProposalIds : Weighed(r)'
         /\ Escrows(Owners)' = Escrows(Owners) - positions[o].amount + pos.amount
         /\ Dated' /\ Remembered'
<1>1. /\ positions \in [Owners -> PositionType] /\ proposals \in [ProposalIds -> QType] /\ block \in Nat
      /\ count \in Nat
  BY FlagType, OwnershipAssumption DEF Inv, TypeOK
<1>2. /\ Assigned(pos, p) \in PositionType /\ Assigned(pos, p).amount = pos.amount
      /\ Assigned(pos, p).proposalId = p /\ Assigned(pos, p).assignedBlock = block
      /\ Assigned(pos, p).depositBlock = pos.depositBlock
  BY <1>1, VoteIds DEF Assigned, PositionType
<1>moved. Repositioned(o, Assigned(pos, p))
  BY <1>1, <1>2 DEF Repositioned
<1>3. \A r \in ProposalIds : r # 0
  BY DEF ProposalIds
<1>4. pos.amount \in Nat
  BY DEF PositionType
<1>5. ASSUME NEW r \in ProposalIds
      PROVE  Weighed(r)'
  <2>1. CASE r # p
    <3>1. proposals'[r] = proposals[r]
      BY <1>1, <2>1
    <3>2. PICK c : c = proposals[r].recentBlock
      OBVIOUS
    <3>3. /\ Escrows(VotersFor(r))' = Escrows(VotersFor(r)) /\ Escrows(Since(r, c))' = Escrows(Since(r, c))
      BY <1>2, <1>3, <1>moved, <2>1, Moved
    <3>4. Weighed(r)
      BY WeightParts DEF Books
    <3> QED BY <3>1, <3>2, <3>3, <3>4 DEF Weighed
  <2>2. CASE r = p
    <3>1. proposals'[p] = Counted(q, pos.amount)
      BY <1>1
    <3>2. /\ proposals'[p].locked = q.locked + pos.amount /\ proposals'[p].recentBlock = block
          /\ proposals'[p].recent = (IF q.recentBlock = block THEN q.recent ELSE 0) + pos.amount
      BY <1>4, <3>1, CountedFields
    <3>3. PICK c : c = block
      OBVIOUS
    <3>4. /\ Escrows(VotersFor(p)) \in Nat /\ Escrows(Since(p, c)) \in Nat
          /\ Escrows(VotersFor(p))' = Escrows(VotersFor(p)) + pos.amount
          /\ Escrows(Since(p, c))' = Escrows(Since(p, c)) + pos.amount
      BY <1>2, <1>3, <1>4, <1>moved, <3>3, Moved
    <3>5. Escrows(Since(p, c)) = IF q.recentBlock = block THEN q.recent ELSE 0
      <4>1. CASE q.recentBlock = block
        BY <3>3, <4>1
      <4>2. CASE q.recentBlock # block
        <5>1. q.recentBlock \in Nat /\ \A x \in Owners : positions[x].assignedBlock \in Nat
          BY <1>1 DEF QType, PositionType
        <5>2. Since(p, c) = {}
          BY <1>1, <3>3, <4>2, <5>1 DEF Since, VotersFor
        <5>3. Escrows({}) = 0
          BY TotalOfNone DEF Escrows
        <5> QED BY <4>2, <5>2, <5>3
      <4> QED BY <4>1, <4>2
    <3>6. Escrows(Since(p, proposals[p].recentBlock))' = Escrows(Since(p, c))'
      BY <3>2, <3>3 DEF Since
    <3> QED BY <2>2, <3>2, <3>4, <3>5, <3>6 DEF Weighed
  <2> QED BY <2>1, <2>2
<1>6. Escrows(Owners)' = Escrows(Owners) - positions[o].amount + pos.amount
  BY <1>2, <1>moved, Moved
<1>7. Dated'
  <2>1. /\ proposals'[p].recentBlock = block
        /\ \A r \in ProposalIds \ {p} : proposals'[r] = proposals[r]
    BY <1>1, <1>4, CountedFields
  <2>2. \A r \in ProposalIds : proposals'[r].recentBlock <= block /\ (r > count' => proposals'[r].expiresAt = 0)
    BY <1>1, <2>1 DEF Books, Dated, ProposalIds
  <2>3. ASSUME NEW x \in Owners, positions'[x].proposalId # 0
        PROVE  /\ positions'[x].proposalId <= count'
               /\ positions'[x].assignedBlock <= proposals'[positions'[x].proposalId].recentBlock
    <3>1. CASE x = o
      BY <1>1, <1>2, <2>1, <3>1
    <3>2. CASE x # o
      <4>1. positions'[x] = positions[x]
        BY <1>1, <3>2
      <4>2. PICK r \in ProposalIds : r = positions[x].proposalId
        BY <1>1, <2>3, <4>1, VoteIds DEF PositionType
      <4>3. r <= count /\ positions[x].assignedBlock <= proposals[r].recentBlock
        BY <2>3, <4>1, <4>2 DEF Books, Dated
      <4>4. positions[x].assignedBlock <= block
        <5>1. positions[x].assignedBlock \in Nat /\ proposals[r].recentBlock \in Nat
          BY <1>1 DEF PositionType, QType
        <5> QED BY <1>1, <4>3, <5>1 DEF Books, Dated
      <4>5. r <= count'
        BY <1>1, <4>3 DEF ProposalIds
      <4> QED BY <2>1, <4>1, <4>2, <4>3, <4>4, <4>5
    <3> QED BY <3>1, <3>2
  <2> QED BY <2>2, <2>3 DEF Books, Dated
<1>8. Remembered'
  <2>1. positions'[o] = Assigned(pos, p) /\ \A x \in Owners \ {o} : positions'[x] = positions[x]
    BY <1>1
  <2>2. ASSUME NEW x \in Owners
        PROVE  /\ positions'[x].proposalId # 0 /\ positions'[x].assignedBlock < block =>
                    opening[x].amount = positions'[x].amount /\ opening[x].vote = positions'[x].proposalId
               /\ positions'[x].depositBlock < block => positions'[x].amount \in {0, opening[x].amount}
    BY <1>1, <1>2, <2>1 DEF Books, Remembered
  <2> QED BY <2>2 DEF Remembered
<1> QED BY <1>5, <1>6, <1>7, <1>8

\* An owner's vote, if any, is withdrawn.
LEMMA ClearBooks ==
  ASSUME Inv, Books, NEW o \in Owners, NEW pos \in PositionType, pos.proposalId = 0,
         positions' = [positions EXCEPT ![o] = pos], proposals' = Cleared(o),
         block' = block, opening' = opening, count' = count,
         pos.depositBlock < block => pos.amount \in {0, opening[o].amount}
  PROVE  /\ \A r \in ProposalIds : Weighed(r)'
         /\ Escrows(Owners)' = Escrows(Owners) - positions[o].amount + pos.amount
         /\ Dated' /\ Remembered'
<1>1. /\ positions \in [Owners -> PositionType] /\ proposals \in [ProposalIds -> QType] /\ block \in Nat
      /\ positions[o] \in PositionType
  BY FlagType DEF Inv, TypeOK
<1>moved. Repositioned(o, pos)
  BY <1>1 DEF Repositioned
<1>2. PICK p \in Votes : p = positions[o].proposalId
  BY <1>1 DEF PositionType
<1>3. \A r \in ProposalIds \ {p} : proposals'[r] = proposals[r]
  BY <1>1, <1>2 DEF Cleared
<1>4. p # 0 => p \in ProposalIds /\ proposals'[p] = Uncounted(proposals[p], positions[o])
  BY <1>1, <1>2, VoteIds DEF Cleared
<1>5. p # 0 => /\ proposals'[p].locked = proposals[p].locked - positions[o].amount
               /\ proposals'[p].recentBlock = proposals[p].recentBlock
               /\ proposals'[p].recent = proposals[p].recent -
                    (IF proposals[p].recentBlock = positions[o].assignedBlock THEN positions[o].amount ELSE 0)
  BY <1>1, <1>4, UncountedFields
<1>6. \A r \in ProposalIds : /\ r # 0 /\ proposals'[r].recentBlock = proposals[r].recentBlock
                            /\ proposals'[r].expiresAt = proposals[r].expiresAt
  <2>1. p # 0 => proposals'[p].expiresAt = proposals[p].expiresAt
    BY <1>1, <1>4, ExpiryKept
  <2> QED BY <1>3, <1>5, <2>1 DEF ProposalIds
<1>7. ASSUME NEW r \in ProposalIds
      PROVE  Weighed(r)'
  <2>1. PICK c : c = proposals[r].recentBlock
    OBVIOUS
  <2>2. Weighed(r)
    BY WeightParts DEF Books
  <2>3. /\ Escrows(VotersFor(r)) \in Nat /\ Escrows(Since(r, c)) \in Nat
        /\ Escrows(VotersFor(r))' = Escrows(VotersFor(r)) - (IF p = r THEN positions[o].amount ELSE 0)
        /\ Escrows(Since(r, c))' =
             Escrows(Since(r, c)) - (IF p = r /\ positions[o].assignedBlock = c THEN positions[o].amount ELSE 0)
    <3>1. positions[o].amount \in Nat
      BY <1>1 DEF PositionType
    <3> QED BY <1>2, <1>6, <1>moved, <3>1, Moved
  <2>4. Escrows(Since(r, proposals[r].recentBlock))' = Escrows(Since(r, c))'
    BY <1>6, <2>1 DEF Since
  <2>5. CASE r # p
    BY <1>3, <2>1, <2>2, <2>3, <2>4, <2>5 DEF Weighed
  <2>6. CASE r = p
    BY <1>5, <1>6, <2>1, <2>2, <2>3, <2>4, <2>6 DEF Weighed
  <2> QED BY <2>5, <2>6
<1>8. Escrows(Owners)' = Escrows(Owners) - positions[o].amount + pos.amount
  BY <1>moved, Moved
<1>9. Dated'
  <2>1. ASSUME NEW x \in Owners, positions'[x].proposalId # 0
        PROVE  /\ positions'[x].proposalId <= count'
               /\ positions'[x].assignedBlock <= proposals'[positions'[x].proposalId].recentBlock
    <3>1. x # o /\ positions'[x] = positions[x]
      BY <1>1, <2>1
    <3>2. positions[x].proposalId \in ProposalIds
      BY <1>1, <2>1, <3>1, VoteIds DEF PositionType
    <3> QED BY <1>6, <2>1, <3>1, <3>2 DEF Books, Dated
  <2> QED BY <1>6, <2>1 DEF Books, Dated
<1>10. Remembered'
  <2>1. positions'[o] = pos /\ \A x \in Owners \ {o} : positions'[x] = positions[x]
    BY <1>1
  <2> QED BY <2>1 DEF Books, Remembered
<1> QED BY <1>7, <1>8, <1>9, <1>10

LEMMA BooksNext == Inv /\ Books /\ [Next]_vars => Books'
<1> SUFFICES ASSUME Inv, Books, [Next]_vars PROVE Books'
  OBVIOUS
<1>t. /\ positions \in [Owners -> PositionType] /\ proposals \in [ProposalIds -> QType]
      /\ wallet \in [Owners -> Nat] /\ block \in Nat \ {0} /\ held \in Int /\ escrowed \in Int
      /\ count \in 0..MaxProposals /\ TypeOK
  BY FlagType DEF Inv, TypeOK
<1>o. \A o \in Owners : /\ positions[o].amount \in Nat
                        /\ positions[o].amount = 0 => positions[o].proposalId = 0
                        /\ positions[o].depositBlock < block => positions[o].amount \in {0, opening[o].amount}
  BY <1>t DEF PositionType, Inv, VoteIsControlled, Books, Remembered
<1>e. escrowed = Escrows(Owners) /\ held >= escrowed /\ \A p \in ProposalIds : Weighed(p)
  BY WeightParts DEF Books
\* A vote with the deposit there is, or with a new one.
<1>a. ASSUME NEW actor \in Actors, NEW o \in Owners, NEW n \in 0..Refill, NEW p \in ProposalIds, NEW q \in QType,
             Prepare(actor, o, n), Assign(actor, o, n, p, q),
             block' = block, opening' = opening, count' \in Nat, count <= count', p <= count',
             q.locked = Escrows(VotersFor(p)), q.recent = Escrows(Since(p, q.recentBlock)),
             q.recentBlock <= block, \A x \in VotersFor(p) : positions[x].assignedBlock <= q.recentBlock
      PROVE  Books'
  <2> DEFINE pos == IF n = 0 THEN positions[o] ELSE Fresh(n, Nobody)
  <2>1. n \in Nat
    BY OwnershipAssumption
  <2>2. /\ positions' = [positions EXCEPT ![o] = Assigned(pos, p)]
        /\ proposals' = [proposals EXCEPT ![p] = Counted(q, pos.amount)]
    BY <1>a DEF Assign
  <2>3. /\ pos \in PositionType
        /\ pos.depositBlock < block => pos.amount \in {0, opening[o].amount}
        /\ positions[o].proposalId = 0
        /\ pos.amount = positions[o].amount + n
    <3>1. CASE n = 0
      BY <1>a, <1>t, <1>o, <3>1 DEF Prepare
    <3>2. CASE n # 0
      <4>1. positions[o].amount = 0
        BY <1>a, <3>2 DEF Prepare, Escrow
      <4>2. /\ Fresh(n, Nobody) \in PositionType /\ Fresh(n, Nobody).depositBlock = block
            /\ Fresh(n, Nobody).amount = n
        BY <1>t, <2>1, VoteIds DEF Fresh, PositionType
      <4> QED BY <1>t, <1>o, <2>1, <3>2, <4>1, <4>2
    <3> QED BY <3>1, <3>2
  <2> HIDE DEF pos
  <2>4. /\ \A r \in ProposalIds : Weighed(r)'
        /\ Escrows(Owners)' = Escrows(Owners) - positions[o].amount + pos.amount
        /\ Dated' /\ Remembered'
    BY <1>a, <2>2, <2>3, AssignBooks
  <2>5. held' = held + n /\ escrowed' = escrowed + n
    BY <1>a, <1>t DEF Prepare, Escrow, token
  <2>6. escrowed' = Escrows(Owners)' /\ held' >= escrowed'
    BY <1>t, <1>o, <1>e, <2>1, <2>3, <2>4, <2>5
  <2> QED BY <2>4, <2>6, WeightPartsNext DEF Books
\* A vote withdrawn, or none there: the position is pos afterwards.
<1>c. ASSUME NEW o \in Owners, NEW pos \in PositionType, pos.proposalId = 0,
             positions' = [positions EXCEPT ![o] = pos], proposals' = Cleared(o),
             block' = block, opening' = opening, count' = count,
             pos.depositBlock < block => pos.amount \in {0, opening[o].amount},
             held' = held - positions[o].amount + pos.amount,
             escrowed' = escrowed - positions[o].amount + pos.amount
      PROVE  Books'
  <2>1. /\ \A r \in ProposalIds : Weighed(r)'
        /\ Escrows(Owners)' = Escrows(Owners) - positions[o].amount + pos.amount
        /\ Dated' /\ Remembered'
    BY <1>c, ClearBooks
  <2>2. pos.amount \in Nat
    BY DEF PositionType
  <2>3. escrowed' = Escrows(Owners)' /\ held' >= escrowed'
    BY <1>c, <1>t, <1>o, <1>e, <2>1, <2>2
  <2> QED BY <2>1, <2>3, WeightPartsNext DEF Books
\* Positions and weights stay.
<1>s. ASSUME positions' = positions, count' = count, held' >= held, escrowed' = escrowed, held' \in Int,
             \A p \in ProposalIds : /\ proposals'[p].locked = proposals[p].locked
                                    /\ proposals'[p].recent = proposals[p].recent
                                    /\ proposals'[p].recentBlock = proposals[p].recentBlock
                                    /\ proposals'[p].expiresAt = proposals[p].expiresAt
      PROVE  WeightsAreDeposits' /\ (block' = block /\ opening' = opening => Books')
  <2>2. \A p \in ProposalIds : Weighed(p)'
    <3>1. ASSUME NEW p \in ProposalIds PROVE Weighed(p)'
      <4>1. /\ Escrows(VotersFor(p))' = Escrows(VotersFor(p))
            /\ Escrows(Since(p, proposals[p].recentBlock))' = Escrows(Since(p, proposals[p].recentBlock))
        BY <1>s DEF Escrows, VotersFor, Since
      <4> QED BY <1>e, <1>s, <4>1 DEF Weighed
    <3> QED BY <3>1
  <2>3. escrowed' = Escrows(Owners)' /\ held' >= escrowed'
    <3>1. Escrows(Owners)' = Escrows(Owners)
      BY <1>s DEF Escrows
    <3> QED BY <1>e, <1>s, <1>t, <3>1
  <2>4. WeightsAreDeposits'
    BY <2>2, <2>3, WeightPartsNext
  <2>5. ASSUME block' = block, opening' = opening
        PROVE  Dated' /\ Remembered'
    <3>1. ASSUME NEW x \in Owners, positions[x].proposalId # 0
          PROVE  /\ positions'[x].proposalId <= count'
                 /\ positions'[x].assignedBlock <= proposals'[positions'[x].proposalId].recentBlock
      <4>1. positions[x].proposalId \in ProposalIds
        BY <1>t, <3>1, VoteIds DEF PositionType
      <4> QED BY <1>s, <3>1, <4>1 DEF Books, Dated
    <3>2. Dated'
      BY <1>s, <2>5, <3>1 DEF Books, Dated
    <3> QED BY <1>s, <2>5, <3>2 DEF Books, Remembered
  <2> QED BY <2>4, <2>5 DEF Books
<1>1. ASSUME NEW o \in Owners, NEW n \in 1..Refill, NEW d \in Wallets, Deposit(o, n, d)
      PROVE  Books'
  <2>1. Fresh(n, d) \in PositionType /\ Fresh(n, d).proposalId = 0 /\ Fresh(n, d).amount = n
        /\ Fresh(n, d).depositBlock = block /\ n \in Nat
    BY <1>t, VoteIds, OwnershipAssumption DEF Fresh, PositionType
  <2>2. /\ positions' = [positions EXCEPT ![o] = Fresh(n, d)] /\ positions[o].amount = 0
        /\ held' = held + n /\ escrowed' = escrowed + n
        /\ UNCHANGED <<proposals, count, block, opening>>
    BY <1>1 DEF Deposit, Escrow, history
  <2>3. proposals' = Cleared(o)
    BY <1>o, <2>2 DEF Cleared
  <2>4. PICK pos \in PositionType : pos = Fresh(n, d)
    BY <2>1
  <2>5. /\ pos.proposalId = 0 /\ ~(pos.depositBlock < block) /\ pos.amount = n
        /\ positions' = [positions EXCEPT ![o] = pos]
    BY <1>t, <2>1, <2>2, <2>4
  <2>6. held' = held - positions[o].amount + pos.amount /\ escrowed' = escrowed - positions[o].amount + pos.amount
    BY <1>t, <2>1, <2>2, <2>5
  <2> QED BY <1>c, <2>2, <2>3, <2>5, <2>6
<1>2. ASSUME NEW a \in Actors, NEW o \in Owners, NEW n \in 0..Refill, Propose(a, o, n)
      PROVE  Books'
  <2> DEFINE q == [NoProposal EXCEPT !.expiresAt = block + Lifetime]
  <2>1. /\ count + 1 \in ProposalIds /\ count' = count + 1 /\ block' = block /\ opening' = opening
        /\ Prepare(a, o, n) /\ Assign(a, o, n, count + 1, q)
    <3>1. count < MaxProposals /\ count \in Nat /\ MaxProposals \in Nat
      BY <1>2, <1>t, OwnershipAssumption DEF Propose
    <3>2. count + 1 \in ProposalIds
      BY <3>1 DEF ProposalIds
    <3> QED BY <1>2, <3>2 DEF Propose, history
  <2>2. q \in QType /\ q.locked = 0 /\ q.recent = 0 /\ q.recentBlock = 0
    <3> DEFINE e == block + Lifetime
    <3>1. e \in Nat
      BY <1>t, OwnershipAssumption
    <3>2. q = [NoProposal EXCEPT !.expiresAt = e]
      OBVIOUS
    <3>3. NoProposal.locked = 0 /\ NoProposal.recent = 0 /\ NoProposal.recentBlock = 0
      BY DEF NoProposal
    <3> HIDE DEF e, q
    <3> QED BY <3>1, <3>2, <3>3, Blank DEF QType
  <2> HIDE DEF q
  <2>3. PICK p \in ProposalIds : p = count + 1
    BY <2>1
  <2>4. VotersFor(p) = {} /\ Since(p, 0) = {}
    <3>1. ASSUME NEW x \in Owners PROVE positions[x].proposalId # p
      <4>1. p \in Nat \ {0} /\ count \in Nat
        BY <1>t DEF ProposalIds
      <4>2. positions[x].proposalId # 0 => positions[x].proposalId <= count
        BY DEF Books, Dated
      <4> QED BY <2>3, <4>1, <4>2
    <3> QED BY <3>1 DEF VotersFor, Since
  <2>5. Escrows({}) = 0
    BY TotalOfNone DEF Escrows
  <2>6. PICK r \in QType : r = q
    BY <2>2
  <2>7. /\ r.locked = Escrows(VotersFor(p)) /\ r.recent = Escrows(Since(p, r.recentBlock))
        /\ r.recentBlock <= block /\ \A x \in VotersFor(p) : positions[x].assignedBlock <= r.recentBlock
    BY <1>t, <2>2, <2>4, <2>5, <2>6
  <2>8. /\ Prepare(a, o, n) /\ Assign(a, o, n, p, r) /\ block' = block /\ opening' = opening
        /\ count' \in Nat /\ count <= count' /\ p <= count'
    BY <1>t, <2>1, <2>3, <2>6
  <2> QED BY <1>a, <2>7, <2>8
<1>3. ASSUME NEW a \in Actors, NEW o \in Owners, NEW p \in ProposalIds, NEW n \in 0..Refill,
             Support(a, o, p, n)
      PROVE  Books'
  <2>1. /\ proposals[p] \in QType /\ count' = count /\ block' = block /\ opening' = opening
        /\ Prepare(a, o, n) /\ Assign(a, o, n, p, proposals[p]) /\ proposals[p].expiresAt # 0
    BY <1>3, <1>t DEF Support, history, Active
  <2>2. PICK q \in QType : q = proposals[p]
    BY <2>1
  <2>3. q.locked = Escrows(VotersFor(p)) /\ q.recent = Escrows(Since(p, q.recentBlock))
    BY <1>e, <2>2 DEF Weighed
  <2>4. q.recentBlock <= block /\ \A x \in VotersFor(p) : positions[x].assignedBlock <= q.recentBlock
    BY <2>2 DEF VotersFor, Books, Dated, ProposalIds
  <2>5. p <= count /\ count \in Nat
    <3>1. p \in Nat /\ count \in Nat
      BY <1>t DEF ProposalIds
    <3> QED BY <2>1, <3>1 DEF Books, Dated
  <2>6. Prepare(a, o, n) /\ Assign(a, o, n, p, q) /\ count' \in Nat /\ count <= count' /\ p <= count'
    BY <2>1, <2>2, <2>5
  <2> QED BY <1>a, <2>1, <2>3, <2>4, <2>6
<1>u. ASSUME NEW o \in Owners
      PROVE  /\ Unassigned(o) \in PositionType /\ Unassigned(o).proposalId = 0
             /\ Unassigned(o).amount = positions[o].amount
             /\ Unassigned(o).depositBlock = positions[o].depositBlock
             /\ \A d \in Wallets : /\ [Unassigned(o) EXCEPT !.delegate = d] \in PositionType
                                    /\ [Unassigned(o) EXCEPT !.delegate = d].proposalId = 0
                                    /\ [Unassigned(o) EXCEPT !.delegate = d].amount = positions[o].amount
                                    /\ [Unassigned(o) EXCEPT !.delegate = d].depositBlock = positions[o].depositBlock
  BY <1>t, VoteIds DEF Unassigned, PositionType
<1>4. ASSUME NEW o \in Owners, NEW d \in Wallets, SetVotingDelegate(o, d)
      PROVE  Books'
  <2>1. PICK pos \in PositionType : pos = [Unassigned(o) EXCEPT !.delegate = d]
    BY <1>u
  <2>2. /\ positions' = [positions EXCEPT ![o] = pos] /\ proposals' = Cleared(o)
        /\ held' = held /\ escrowed' = escrowed /\ count' = count /\ block' = block /\ opening' = opening
    BY <1>4, <2>1 DEF SetVotingDelegate, token, history
  <2>3. pos.proposalId = 0 /\ pos.amount = positions[o].amount /\ pos.depositBlock = positions[o].depositBlock
    BY <1>u, <2>1
  <2>4. /\ held' = held - positions[o].amount + pos.amount
        /\ escrowed' = escrowed - positions[o].amount + pos.amount
        /\ pos.depositBlock < block => pos.amount \in {0, opening[o].amount}
    BY <1>o, <1>t, <2>2, <2>3
  <2> QED BY <1>c, <2>2, <2>3, <2>4
<1>5. ASSUME NEW a \in Actors, NEW o \in Owners, ClearVote(a, o)
      PROVE  Books'
  <2>1. PICK pos \in PositionType : pos = Unassigned(o)
    BY <1>u
  <2>2. /\ positions' = [positions EXCEPT ![o] = pos] /\ proposals' = Cleared(o)
        /\ held' = held /\ escrowed' = escrowed /\ count' = count /\ block' = block /\ opening' = opening
    BY <1>5, <2>1 DEF ClearVote, token, history
  <2>3. pos.proposalId = 0 /\ pos.amount = positions[o].amount /\ pos.depositBlock = positions[o].depositBlock
    BY <1>u, <2>1
  <2>4. /\ held' = held - positions[o].amount + pos.amount
        /\ escrowed' = escrowed - positions[o].amount + pos.amount
        /\ pos.depositBlock < block => pos.amount \in {0, opening[o].amount}
    BY <1>o, <1>t, <2>2, <2>3
  <2> QED BY <1>c, <2>2, <2>3, <2>4
<1>6. ASSUME NEW o \in Owners, Withdraw(o)
      PROVE  Books'
  <2>1. PICK pos \in PositionType : pos = NoPosition
    BY Blank
  <2>2. pos.proposalId = 0 /\ pos.amount = 0
    BY <2>1 DEF NoPosition
  <2>3. /\ positions' = [positions EXCEPT ![o] = pos] /\ proposals' = Cleared(o)
        /\ held' = held - positions[o].amount + pos.amount
        /\ escrowed' = escrowed - positions[o].amount + pos.amount
        /\ count' = count /\ block' = block /\ opening' = opening
    <3>1. /\ held' = held - positions[o].amount /\ escrowed' = escrowed - positions[o].amount
          /\ positions' = [positions EXCEPT ![o] = pos] /\ proposals' = Cleared(o)
          /\ count' = count /\ block' = block /\ opening' = opening
      BY <1>6, <2>1 DEF Withdraw, history
    <3> QED BY <1>o, <1>t, <2>2, <3>1
  <2>4. pos.amount \in {0, opening[o].amount}
    BY <2>2
  <2> QED BY <1>c, <2>2, <2>3, <2>4
<1>7. ASSUME NEW p \in ProposalIds, Execute(p)
      PROVE  Books'
  <2>1. /\ positions' = positions /\ count' = count /\ held' = held /\ escrowed' = escrowed
        /\ block' = block /\ opening' = opening
        /\ proposals' = [proposals EXCEPT ![p].executed = TRUE]
    BY <1>7 DEF Execute, token, history
  <2>2. \A r \in ProposalIds : /\ proposals'[r].locked = proposals[r].locked
                               /\ proposals'[r].recent = proposals[r].recent
                               /\ proposals'[r].recentBlock = proposals[r].recentBlock
                               /\ proposals'[r].expiresAt = proposals[r].expiresAt
    BY <1>t, <2>1 DEF QType
  <2>3. held' >= held /\ held' \in Int
    BY <1>t, <2>1
  <2> QED BY <1>s, <2>1, <2>2, <2>3
<1>8. ASSUME NEW o \in Owners, NEW n \in 1..Refill, Transfer(o, n) \/ Burn(o, n)
      PROVE  Books'
  <2>1. n \in Nat
    BY OwnershipAssumption
  <2>2. /\ positions' = positions /\ count' = count /\ escrowed' = escrowed /\ proposals' = proposals
        /\ block' = block /\ opening' = opening /\ (held' = held \/ held' = held + n)
    BY <1>8 DEF Transfer, Burn, history
  <2>3. held' >= held /\ held' \in Int
    BY <1>t, <2>1, <2>2
  <2> QED BY <1>s, <2>2, <2>3
<1>9. ASSUME NextBlock
      PROVE  Books'
  <2>1. /\ positions' = positions /\ count' = count /\ escrowed' = escrowed /\ proposals' = proposals
        /\ held' = held /\ block' = block + 1
        /\ opening' = [o \in Owners |-> [amount |-> positions[o].amount, vote |-> positions[o].proposalId]]
    BY <1>9 DEF NextBlock, token
  <2>2. WeightsAreDeposits'
    <3>1. held' >= held /\ held' \in Int
      BY <1>t, <2>1
    <3> QED BY <1>s, <2>1, <3>1
  <2>3. Dated'
    <3>1. opening' \in [Owners -> [amount : Nat, vote : Votes]]
      BY <1>t, <2>1 DEF PositionType
    <3>2. \A p \in ProposalIds : proposals'[p].recentBlock <= block'
      <4>1. \A p \in ProposalIds : proposals[p].recentBlock \in Nat /\ proposals[p].recentBlock <= block
        BY <1>t DEF QType, Books, Dated
      <4> QED BY <1>t, <2>1, <4>1
    <3> QED BY <2>1, <3>1, <3>2 DEF Books, Dated
  <2>4. Remembered'
    BY <2>1 DEF Remembered
  <2> QED BY <2>2, <2>3, <2>4 DEF Books
<1>10. ASSUME UNCHANGED vars
       PROVE  Books'
  <2>1. /\ positions' = positions /\ count' = count /\ escrowed' = escrowed /\ proposals' = proposals
        /\ held' = held /\ block' = block /\ opening' = opening
    BY <1>10 DEF vars
  <2>2. held' >= held /\ held' \in Int
    BY <1>t, <2>1
  <2> QED BY <1>s, <2>1, <2>2
<1> QED BY <1>1, <1>2, <1>3, <1>4, <1>5, <1>6, <1>7, <1>8, <1>9, <1>10 DEF Next

LEMMA InitBooks == Init => Books
<1> SUFFICES ASSUME Init PROVE Books
  OBVIOUS
<1>1. /\ positions = [o \in Owners |-> NoPosition] /\ proposals = [p \in ProposalIds |-> NoProposal]
      /\ opening = [o \in Owners |-> [amount |-> 0, vote |-> 0]]
      /\ block = 1 /\ held = 0 /\ escrowed = 0 /\ count = 0
  BY DEF Init
<1>2. /\ NoPosition.amount = 0 /\ NoPosition.proposalId = 0 /\ NoPosition.assignedBlock = 0
      /\ NoPosition.depositBlock = 0
      /\ NoProposal.locked = 0 /\ NoProposal.recent = 0 /\ NoProposal.recentBlock = 0 /\ NoProposal.expiresAt = 0
  BY DEF NoPosition, NoProposal
<1>3. ASSUME NEW S \in SUBSET Owners PROVE Escrows(S) = 0
  <2>1. \A o \in S : [x \in S |-> positions[x].amount][o] = 0
    BY <1>1, <1>2
  <2> QED BY <2>1, TotalOfNone DEF Escrows
<1>4. \A p \in ProposalIds : Weighed(p)
  <2>1. ASSUME NEW p \in ProposalIds PROVE Weighed(p)
    <3>1. proposals[p].locked = 0 /\ proposals[p].recent = 0
      BY <1>1, <1>2
    <3>2. VotersFor(p) \in SUBSET Owners /\ Since(p, proposals[p].recentBlock) \in SUBSET Owners
      BY EscrowParts
    <3> QED BY <1>3, <3>1, <3>2 DEF Weighed
  <2> QED BY <2>1
<1>5. WeightsAreDeposits
  BY <1>1, <1>3, <1>4, WeightParts
<1>6. Dated
  <2>1. opening \in [Owners -> [amount : Nat, vote : Votes]]
    BY <1>1, VoteIds
  <2> QED BY <1>1, <1>2, <2>1 DEF Dated
<1>7. Remembered
  BY <1>1, <1>2 DEF Remembered
<1> QED BY <1>5, <1>6, <1>7 DEF Books

-----------------------------------------------------------------------------
(* What a decision rests on. *)

\* The voters for p whose votes count in this block.
Settled(p) == {o \in VotersFor(p) : positions[o].assignedBlock < block}

\* settledWeight is the escrow of the votes of earlier blocks: the same-block weight is theirs only
\* while the last vote is of this block.
LEMMA SettledIs ==
  ASSUME Inv, Books, NEW p \in ProposalIds
  PROVE  SettledWeight(p) = Escrows(Settled(p))
<1>1. /\ Amounts \in [Owners -> Nat] /\ block \in Nat /\ proposals[p].recentBlock \in Nat
      /\ \A o \in Owners : positions[o].assignedBlock \in Nat
  BY FlagType DEF Inv, TypeOK, Amounts, PositionType, QType
<1>2. Weighed(p)
  BY WeightParts DEF Books
<1>3. \A o \in VotersFor(p) : o \in Owners /\ positions[o].assignedBlock <= proposals[p].recentBlock
  BY DEF VotersFor, Books, Dated, ProposalIds
<1>4. /\ Settled(p) \in SUBSET Owners /\ Since(p, block) \in SUBSET Owners
      /\ Escrows(Settled(p)) = Total(Part(Amounts, Settled(p)))
      /\ Escrows(Since(p, block)) = Total(Part(Amounts, Since(p, block)))
      /\ Escrows(VotersFor(p)) = Total(Part(Amounts, VotersFor(p)))
  BY DEF Settled, VotersFor, Since, Escrows, Part, Amounts
<1>5. CASE proposals[p].recentBlock = block
  <2>1. VotersFor(p) = Settled(p) \cup Since(p, block) /\ Settled(p) \cap Since(p, block) = {}
    BY <1>1, <1>3, <1>5 DEF Settled, Since
  <2>2. Total(Part(Amounts, Settled(p) \cup Since(p, block)))
          = Total(Part(Amounts, Settled(p))) + Total(Part(Amounts, Since(p, block)))
    BY <1>1, <1>4, <2>1, PartUnion, OwnershipAssumption
  <2>3. Total(Part(Amounts, Settled(p))) \in Nat /\ Total(Part(Amounts, Since(p, block))) \in Nat
    BY <1>1, <1>4, PartBounds, OwnershipAssumption
  <2> QED BY <1>2, <1>4, <1>5, <2>1, <2>2, <2>3 DEF SettledWeight, Weighed
<1>6. CASE proposals[p].recentBlock # block
  <2>1. proposals[p].recentBlock <= block
    BY DEF Books, Dated
  <2>2. Settled(p) = VotersFor(p)
    BY <1>1, <1>3, <1>6, <2>1 DEF Settled
  <2> QED BY <1>2, <1>6, <2>2 DEF SettledWeight, Weighed
<1> QED BY <1>5, <1>6

\* The majority test, free of its rounding.
LEMMA Majority ==
  ASSUME NEW S \in Nat, NEW w \in Int, w > (S * 501) \div 1000
  PROVE  1000 * w > 501 * S
  OBVIOUS

LEMMA Supplied == Inv /\ WeightsAreDeposits => Supply \in Nat /\ Escrows(Owners) \in Nat /\ Escrows(Owners) <= Supply
<1> SUFFICES ASSUME Inv, WeightsAreDeposits
             PROVE  Supply \in Nat /\ Escrows(Owners) \in Nat /\ Escrows(Owners) <= Supply
  OBVIOUS
<1>1. Total(wallet) \in Nat
  BY TotalFinite, OwnershipAssumption DEF Inv, TypeOK
<1>2. [o \in Owners |-> positions[o].amount] \in [Owners -> Nat]
  BY DEF Inv, TypeOK, PositionType
<1>3. Escrows(Owners) \in Nat
  BY <1>2, TotalFinite, OwnershipAssumption DEF Escrows
<1>4. held \in Int /\ held >= escrowed /\ escrowed = Escrows(Owners)
  BY DEF Inv, TypeOK, WeightsAreDeposits
<1> QED BY <1>1, <1>3, <1>4 DEF Supply

\* Those for whom the block began that way.
Opened(p) == {o \in VotersFor(p) : opening[o].vote = p}

\* Each counted vote's escrow stood, with its vote, when the block began.
LEMMA ProposalStands ==
  ASSUME Inv, Books, NEW p \in ProposalIds, CanExecute(p)
  PROVE  1000 * Standing(Opened(p)) > 501 * Supply /\ 1000 * Escrows(Settled(p)) > 501 * Supply
<1> DEFINE V == Opened(p)
           f == [o \in Settled(p) |-> positions[o].amount]
           g == [o \in V |-> IF positions[o].amount <= opening[o].amount
                              THEN positions[o].amount ELSE opening[o].amount]
<1>1. \A o \in Owners : positions[o].amount \in Nat /\ opening[o].amount \in Nat
  BY DEF Inv, TypeOK, PositionType, Books, Dated
<1>2. V \subseteq Owners /\ Settled(p) \subseteq Owners /\ p # 0
  BY DEF VotersFor, Settled, Opened, ProposalIds
<1>3. \A o \in Settled(p) : o \in V /\ opening[o].amount = positions[o].amount
  BY <1>2 DEF Settled, Opened, VotersFor, Books, Remembered
<1>4. IsFiniteSet(V) /\ IsFiniteSet(Settled(p))
  BY <1>2, FS_Subset, OwnershipAssumption
<1>5. g \in [V -> Nat] /\ f \in [Settled(p) -> Nat]
  BY <1>1, <1>2
<1>6. \A o \in Settled(p) : f[o] \in Nat /\ g[o] \in Nat /\ f[o] <= g[o]
  BY <1>1, <1>2, <1>3
<1>7. DOMAIN f \subseteq DOMAIN g /\ DOMAIN f = Settled(p)
  BY <1>3
<1>8. Standing(V) = Total(g) /\ Escrows(Settled(p)) = Total(f)
  BY DEF Standing, Escrows
<1> HIDE DEF V, f, g
<1>9. IsFiniteSet(Units(g)) /\ Total(g) \in Nat /\ Total(f) \in Nat
  BY <1>4, <1>5, TotalFinite
<1>10. Total(f) <= Total(g)
  BY <1>6, <1>7, <1>9, TotalMonotone
<1>11. Supply \in Nat
  BY Supplied DEF Books
<1>12. Total(f) > (Supply * 501) \div 1000
  BY <1>8, SettledIs DEF CanExecute, HasMajority
<1>13. 1000 * Total(f) > 501 * Supply
  BY <1>9, <1>11, <1>12, Majority
<1> QED BY <1>8, <1>9, <1>10, <1>11, <1>13 DEF V

\* Each deposit a direct action counts stood when the block began.
LEMMA DirectStands ==
  ASSUME Inv, Books, NEW os \in SUBSET Owners, NEW a, CanAct(a, os)
  PROVE  1000 * Standing(os) > 501 * Supply /\ 1000 * Escrows(os) > 501 * Supply
<1> DEFINE f == [o \in os |-> IF positions[o].depositBlock < block THEN positions[o].amount ELSE 0]
           g == [o \in os |-> IF positions[o].amount <= opening[o].amount
                               THEN positions[o].amount ELSE opening[o].amount]
           e == [o \in os |-> positions[o].amount]
<1>1. \A o \in Owners : positions[o].amount \in Nat /\ opening[o].amount \in Nat
  BY DEF Inv, TypeOK, PositionType, Books, Dated
<1>2. \A o \in Owners : positions[o].depositBlock < block => positions[o].amount \in {0, opening[o].amount}
  BY DEF Books, Remembered
<1>3. IsFiniteSet(os)
  BY FS_Subset, OwnershipAssumption
<1>4. f \in [os -> Nat] /\ g \in [os -> Nat] /\ e \in [os -> Nat]
  BY <1>1
<1>5. \A o \in os : f[o] \in Nat /\ g[o] \in Nat /\ e[o] \in Nat /\ f[o] <= g[o] /\ f[o] <= e[o]
  BY <1>1, <1>2
<1>6. DOMAIN f = os /\ DOMAIN g = os /\ DOMAIN e = os
  OBVIOUS
<1>7. Standing(os) = Total(g) /\ Escrows(os) = Total(e) /\ DirectWeight(os) = Total(f)
  BY DEF Standing, Escrows, DirectWeight
<1> HIDE DEF f, g, e
<1>8. IsFiniteSet(Units(g)) /\ IsFiniteSet(Units(e)) /\ Total(g) \in Nat /\ Total(f) \in Nat /\ Total(e) \in Nat
  BY <1>3, <1>4, TotalFinite
<1>9. Total(f) <= Total(g) /\ Total(f) <= Total(e)
  BY <1>5, <1>6, <1>8, TotalMonotone
<1>10. Supply \in Nat
  BY Supplied DEF Books
<1>11. Total(f) > (Supply * 501) \div 1000
  BY <1>7 DEF CanAct, HasMajority
<1>12. 1000 * Total(f) > 501 * Supply
  BY <1>8, <1>10, <1>11, Majority
<1> QED BY <1>7, <1>8, <1>9, <1>10, <1>12

\* Two sets of owners that each hold a majority of the supply in escrow share an owner.
LEMMA MajoritiesMeet ==
  ASSUME Inv, WeightsAreDeposits, NEW m \in SUBSET Owners, NEW n \in SUBSET Owners,
         1000 * Escrows(m) > 501 * Supply, 1000 * Escrows(n) > 501 * Supply
  PROVE  m \cap n # {}
<1> SUFFICES ASSUME m \cap n = {} PROVE FALSE
  OBVIOUS
<1>1. Amounts \in [Owners -> Nat]
  BY DEF Inv, TypeOK, Amounts, PositionType
<1>2. \A S \in SUBSET Owners : Escrows(S) = Total(Part(Amounts, S))
  BY DEF Escrows, Part, Amounts
<1>3. Total(Part(Amounts, m \cup n)) = Total(Part(Amounts, m)) + Total(Part(Amounts, n))
  BY <1>1, PartUnion, OwnershipAssumption
<1>4. /\ Total(Part(Amounts, m)) \in Nat /\ Total(Part(Amounts, n)) \in Nat
      /\ Total(Part(Amounts, m \cup n)) \in Nat
      /\ Total(Part(Amounts, m \cup n)) <= Total(Part(Amounts, Owners))
  BY <1>1, PartBounds, OwnershipAssumption
<1>5. Supply \in Nat /\ Escrows(Owners) \in Nat /\ Escrows(Owners) <= Supply
  BY Supplied
<1> QED BY <1>2, <1>3, <1>4, <1>5

LEMMA BooksSound == Inv /\ Books => MandateIsSound
<1> SUFFICES ASSUME Inv, Books PROVE MandateIsSound
  OBVIOUS
<1>1. DecidedBeforeTheBlock
  BY ProposalStands, DirectStands DEF DecidedBeforeTheBlock, Opened
<1>2. \A m \in Mandates : m \in SUBSET Owners /\ 1000 * Escrows(m) > 501 * Supply
  <2>1. ASSUME NEW p \in ProposalIds, CanExecute(p)
        PROVE  Settled(p) \in SUBSET Owners /\ 1000 * Escrows(Settled(p)) > 501 * Supply
    <3>1. Settled(p) \in SUBSET Owners
      BY DEF Settled, VotersFor
    <3> QED BY <2>1, <3>1, ProposalStands
  <2>2. ASSUME NEW os \in SUBSET Owners, NEW a \in Actors, CanAct(a, os)
        PROVE  1000 * Escrows(os) > 501 * Supply
    BY <2>2, DirectStands
  <2> QED BY <2>1, <2>2 DEF Mandates, Settled
<1>3. MandatesOverlap
  BY <1>2, MajoritiesMeet DEF MandatesOverlap, Books
<1> QED BY <1>1, <1>3 DEF MandateIsSound, Books

\* A decision (execute, directAction) rests on a majority of escrow that stood, and voted as it does,
\* when its block began, and no two rest on disjoint deposits: the running weights of _assign and
\* _clear are the deposits behind them, a vote is dated with its proposal's last vote or before, and
\* what is dated before the block is as the block found it.
THEOREM MandatesAreSound == Spec => []MandateIsSound
<1>1. Init => Inv /\ Books
  BY InitInv, InitBooks
<1>2. Inv /\ Books /\ [Next]_vars => (Inv /\ Books)'
  BY NextInv, BooksNext
<1>3. Inv /\ Books => MandateIsSound
  BY BooksSound
<1> QED BY <1>1, <1>2, <1>3, PTL DEF Spec
==============================================================================

--------------------------- MODULE OwnerGovernance ---------------------------
(***************************************************************************)
(* DegenerusOwnerGovernance: DGVE holders escrow their shares, vote for    *)
(* owner actions themselves or through a voting-only delegate, and execute *)
(* what more than 50.1% of the live supply has backed since before the     *)
(* current block.  The share token (DegenerusVaultShare) and the vault's   *)
(* burn are modelled with it: burning changes the majority.                *)
(***************************************************************************)
EXTENDS Integers, FiniteSets, Totals

CONSTANTS
  Owners,        \* wallets that may hold DGVE
  Delegates,     \* other wallets, which can only vote for an owner
  Nobody,        \* address(0)
  Creator,       \* the owner the vault mints the first supply to
  Refill,        \* DGVE minted at deployment, and again when all of it is burned
  Lifetime,      \* PROPOSAL_LIFETIME, in blocks
  MaxProposals,  \* bound on proposalCount
  MaxBlock       \* bound on the block number

Actors == Owners \cup Delegates
Wallets == Actors \cup {Nobody}
ProposalIds == 1..MaxProposals
Votes == 0..MaxProposals  \* 0: no vote

ASSUME OwnershipAssumption ==
  /\ IsFiniteSet(Owners) /\ Creator \in Owners /\ Nobody \notin Actors
  /\ Refill \in Nat \ {0} /\ Lifetime \in Nat \ {0}
  /\ MaxProposals \in Nat /\ MaxBlock \in Nat

VARIABLES
  block,      \* block number and timestamp: several transactions may share one
  wallet,     \* DGVE balance of each owner
  held,       \* DGVE balance of the governance contract, donations included
  escrowed,   \* totalEscrowed
  positions,  \* each owner's escrow and vote; proposalId 0 is no vote
  proposals,  \* weights, expiry and execution; expiresAt 0 is not created yet
  count,      \* proposalCount
  voter,      \* history: who cast each owner's standing vote (Supported's actor)
  opening     \* history: each owner's escrow and vote when the current block began

vars == <<block, wallet, held, escrowed, positions, proposals, count, voter, opening>>
token == <<wallet, held, escrowed>>
history == <<block, opening>>

Supply == held + Total(wallet)

PositionType == [amount : Nat, proposalId : Votes, assignedBlock : Nat, depositBlock : Nat,
                 delegate : Wallets]
ProposalType == [locked : Int, recent : Int, recentBlock : Nat, expiresAt : Nat, executed : BOOLEAN]

NoPosition == [amount |-> 0, proposalId |-> 0, assignedBlock |-> 0, depositBlock |-> 0,
               delegate |-> Nobody]
NoProposal == [locked |-> 0, recent |-> 0, recentBlock |-> 0, expiresAt |-> 0, executed |-> FALSE]

\* Blocks count from 1, so that 0 is never a current block.
Init ==
  /\ block = 1
  /\ wallet = [o \in Owners |-> IF o = Creator THEN Refill ELSE 0]
  /\ held = 0 /\ escrowed = 0 /\ count = 0
  /\ positions = [o \in Owners |-> NoPosition]
  /\ proposals = [p \in ProposalIds |-> NoProposal]
  /\ voter = [o \in Owners |-> Nobody]
  /\ opening = [o \in Owners |-> [amount |-> 0, vote |-> 0]]

------------------------------------------------------------------------------
(* Reading the ledger.                                                      *)

Active(p) == /\ proposals[p].expiresAt # 0 /\ ~proposals[p].executed
             /\ block < proposals[p].expiresAt

\* Mutant: settledWeight counts the votes of the current block.
SettledWeightAll(p) == proposals[p].locked

SettledWeight(p) ==
  IF proposals[p].recentBlock = block THEN proposals[p].locked - proposals[p].recent
  ELSE proposals[p].locked

HasMajority(weight) == weight > (Supply * 501) \div 1000

Controls(actor, o) == positions[o].amount # 0 /\ actor \in {o, positions[o].delegate}

CanExecute(p) == Active(p) /\ HasMajority(SettledWeight(p))

\* What a set of owners weighs in directAction: deposits of the current block do not count.
DirectWeight(os) ==
  Total([o \in os |-> IF positions[o].depositBlock < block THEN positions[o].amount ELSE 0])

\* directAction changes nothing here: it is its authorisation.
CanAct(actor, os) == (\A o \in os : Controls(actor, o)) /\ HasMajority(DirectWeight(os))

------------------------------------------------------------------------------
(* Steps shared by the operations.                                          *)

\* _deposit: the escrow of an owner without one.
Escrow(o, n) ==
  /\ n > 0 /\ positions[o].amount = 0 /\ wallet[o] >= n
  /\ wallet' = [wallet EXCEPT ![o] = @ - n]
  /\ held' = held + n /\ escrowed' = escrowed + n

Fresh(n, d) == [amount |-> n, proposalId |-> 0, assignedBlock |-> 0, depositBlock |-> block,
                delegate |-> d]

\* Mutant: _prepare does not refuse a position that is already assigned.
PrepareAssigned(actor, o, n) ==
  \/ /\ n # 0 /\ actor = o /\ Escrow(o, n)
  \/ /\ n = 0 /\ Controls(actor, o) /\ UNCHANGED token

\* _prepare: an owner may deposit with the vote it casts; a delegate only votes.
Prepare(actor, o, n) ==
  \/ /\ n # 0 /\ actor = o /\ Escrow(o, n)
  \/ /\ n = 0 /\ Controls(actor, o) /\ positions[o].proposalId = 0 /\ UNCHANGED token

\* Proposal record q with a deposit of n more behind it, voted in this block.
Counted(q, n) ==
  [q EXCEPT !.locked = @ + n, !.recentBlock = block,
            !.recent = (IF q.recentBlock = block THEN @ ELSE 0) + n]

\* Position pos with its vote on p.
Assigned(pos, p) == [pos EXCEPT !.proposalId = p, !.assignedBlock = block]

\* _assign, onto proposal record q (freshly created by propose, or as it stands).
Assign(actor, o, n, p, q) ==
  LET pos == IF n = 0 THEN positions[o] ELSE Fresh(n, Nobody)
  IN /\ positions' = [positions EXCEPT ![o] = Assigned(pos, p)]
     /\ proposals' = [proposals EXCEPT ![p] = Counted(q, pos.amount)]
     /\ voter' = [voter EXCEPT ![o] = actor]

\* Mutant: _clear leaves the same-block weight behind.
ClearedKeepsRecent(o) ==
  LET pos == positions[o]
  IN IF pos.proposalId = 0 THEN proposals
     ELSE [proposals EXCEPT ![pos.proposalId].locked = @ - pos.amount]

\* Proposal record q without the deposit of pos.
Uncounted(q, pos) ==
  [q EXCEPT !.locked = @ - pos.amount,
            !.recent = IF q.recentBlock = pos.assignedBlock THEN @ - pos.amount ELSE @]

\* _clear: the proposals once owner o's vote is withdrawn.
Cleared(o) ==
  LET p == positions[o].proposalId
  IN IF p = 0 THEN proposals ELSE [proposals EXCEPT ![p] = Uncounted(proposals[p], positions[o])]

Unassigned(o) == [positions[o] EXCEPT !.proposalId = 0, !.assignedBlock = 0]

------------------------------------------------------------------------------
(* Operations.                                                              *)

Deposit(o, n, d) ==
  /\ d # o /\ Escrow(o, n)
  /\ positions' = [positions EXCEPT ![o] = Fresh(n, d)]
  /\ UNCHANGED <<proposals, count, voter, history>>

Propose(actor, o, n) ==
  /\ count < MaxProposals
  /\ Prepare(actor, o, n)
  /\ count' = count + 1
  /\ Assign(actor, o, n, count + 1, [NoProposal EXCEPT !.expiresAt = block + Lifetime])
  /\ UNCHANGED history

Support(actor, o, p, n) ==
  /\ Active(p)
  /\ Prepare(actor, o, n)
  /\ Assign(actor, o, n, p, proposals[p])
  /\ UNCHANGED <<count, history>>

\* Mutant: setVotingDelegate keeps the vote the former delegate cast.
SetVotingDelegateKeepsVote(o, d) ==
  /\ positions[o].amount # 0 /\ d \notin {o, positions[o].delegate}
  /\ positions' = [positions EXCEPT ![o].delegate = d]
  /\ UNCHANGED <<token, proposals, count, voter, history>>

SetVotingDelegate(o, d) ==
  /\ positions[o].amount # 0 /\ d \notin {o, positions[o].delegate}
  /\ proposals' = Cleared(o)
  /\ positions' = [positions EXCEPT ![o] = [Unassigned(o) EXCEPT !.delegate = d]]
  /\ voter' = [voter EXCEPT ![o] = Nobody]
  /\ UNCHANGED <<token, count, history>>

ClearVote(actor, o) ==
  /\ Controls(actor, o)
  /\ proposals' = Cleared(o)
  /\ positions' = [positions EXCEPT ![o] = Unassigned(o)]
  /\ voter' = [voter EXCEPT ![o] = Nobody]
  /\ UNCHANGED <<token, count, history>>

\* depositBlock and the delegate, which the code leaves behind, are dead until the next deposit.
Withdraw(o) ==
  /\ positions[o].amount # 0
  /\ proposals' = Cleared(o)
  /\ positions' = [positions EXCEPT ![o] = NoPosition]
  /\ voter' = [voter EXCEPT ![o] = Nobody]
  /\ escrowed' = escrowed - positions[o].amount
  /\ held' = held - positions[o].amount
  /\ wallet' = [wallet EXCEPT ![o] = @ + positions[o].amount]
  /\ UNCHANGED <<count, history>>

\* The target is called after executed is written, so what it calls back is a later step here; a
\* target that reverts undoes the whole transaction.
Execute(p) ==
  /\ CanExecute(p)
  /\ proposals' = [proposals EXCEPT ![p].executed = TRUE]
  /\ UNCHANGED <<token, positions, count, voter, history>>

\* The token: a transfer between owners, or a donation to the governance contract.
Transfer(o, n) ==
  /\ n \in 1..wallet[o]
  /\ \/ \E to \in Owners \ {o} : /\ wallet' = [wallet EXCEPT ![o] = @ - n, ![to] = @ + n]
                                  /\ UNCHANGED held
     \/ /\ wallet' = [wallet EXCEPT ![o] = @ - n] /\ held' = held + n
  /\ UNCHANGED <<escrowed, positions, proposals, count, voter, history>>

\* DegenerusVault.burnEth: whoever burns the last share is minted a new supply.
Burn(o, n) ==
  /\ n \in 1..wallet[o]
  /\ wallet' = [wallet EXCEPT ![o] = IF n = Supply THEN Refill ELSE @ - n]
  /\ UNCHANGED <<held, escrowed, positions, proposals, count, voter, history>>

NextBlock ==
  /\ block < MaxBlock
  /\ block' = block + 1
  /\ opening' = [o \in Owners |-> [amount |-> positions[o].amount, vote |-> positions[o].proposalId]]
  /\ UNCHANGED <<token, positions, proposals, count, voter>>

Next ==
  \/ \E o \in Owners, n \in 1..Refill, d \in Wallets : Deposit(o, n, d)
  \/ \E a \in Actors, o \in Owners, n \in 0..Refill : Propose(a, o, n)
  \/ \E a \in Actors, o \in Owners, p \in ProposalIds, n \in 0..Refill : Support(a, o, p, n)
  \/ \E o \in Owners, d \in Wallets : SetVotingDelegate(o, d)
  \/ \E a \in Actors, o \in Owners : ClearVote(a, o)
  \/ \E o \in Owners : Withdraw(o)
  \/ \E p \in ProposalIds : Execute(p)
  \/ \E o \in Owners, n \in 1..Refill : Transfer(o, n) \/ Burn(o, n)
  \/ NextBlock

Spec == Init /\ [][Next]_vars

------------------------------------------------------------------------------
(* Properties.                                                              *)

(* Shapes.  That the subtractions of _clear and withdraw cannot underflow is WeightsAreDeposits. *)
TypeOK ==
  /\ block \in Nat \ {0} /\ held \in Int /\ escrowed \in Int /\ count \in 0..MaxProposals
  /\ wallet \in [Owners -> Nat]
  /\ positions \in [Owners -> PositionType] /\ proposals \in [ProposalIds -> ProposalType]
  /\ voter \in [Owners -> Wallets]

VotersFor(p) == {o \in Owners : positions[o].proposalId = p}
Escrows(os) == Total([o \in os |-> positions[o].amount])

(* The running weights that _assign and _clear maintain are the deposits behind them, in every order
   of votes, revocations, withdrawals and new deposits within and across blocks, and the escrow is
   in the contract's custody. *)
WeightsAreDeposits ==
  /\ escrowed = Escrows(Owners) /\ held >= escrowed
  /\ \A p \in ProposalIds :
       /\ proposals[p].locked = Escrows(VotersFor(p))
       /\ proposals[p].recent =
            Escrows({o \in VotersFor(p) : positions[o].assignedBlock = proposals[p].recentBlock})

\* The deposits a proposal or a direct action counts now.
Mandates ==
  {{o \in VotersFor(p) : positions[o].assignedBlock < block} : p \in {q \in ProposalIds : CanExecute(q)}}
    \cup {os \in SUBSET Owners : \E a \in Actors : CanAct(a, os)}

(* No two authorised decisions rest on disjoint deposits: at most one proposal is executable at a
   time, and none that a direct action of other owners could contradict (execute, directAction). *)
MandatesOverlap == \A m, n \in Mandates : m \cap n # {}

\* Escrow that a decision may count: there when the block began, and still there.
Standing(os) == Total([o \in os |-> IF positions[o].amount <= opening[o].amount
                                     THEN positions[o].amount ELSE opening[o].amount])

(* Whatever is deposited, voted, withdrawn or deposited again within a block, an action is
   authorised only by escrow, and a proposal only by votes, that the block began with. *)
DecidedBeforeTheBlock ==
  /\ \A p \in ProposalIds : CanExecute(p) =>
       1000 * Standing({o \in VotersFor(p) : opening[o].vote = p}) > 501 * Supply
  /\ \A a \in Actors, os \in SUBSET Owners : CanAct(a, os) => 1000 * Standing(os) > 501 * Supply

(* A standing vote was cast by the owner or by the delegate it has now: changing the delegate, and
   withdrawing, takes the former delegate's vote away (setVotingDelegate, withdraw, _deposit). *)
VoteIsControlled ==
  \A o \in Owners : positions[o].proposalId # 0 =>
    positions[o].amount # 0 /\ voter[o] \in {o, positions[o].delegate}

(* A decision rests on a majority of deposits that stood before its block, counted once, and that no
   other decision could rest against. *)
MandateIsSound == WeightsAreDeposits /\ DecidedBeforeTheBlock /\ MandatesOverlap

==============================================================================

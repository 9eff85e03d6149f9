---------------------------- MODULE VrfGovernance ----------------------------
(***************************************************************************)
(* DegenerusAdmin's emergency swap of the VRF coordinator: proposals filed *)
(* during a stall, sDGNRS votes against a threshold that decays with the   *)
(* proposal's age, execution or kill inside the vote itself.  The game's   *)
(* words, its end and sDGNRS balances are the environment.                 *)
(***************************************************************************)
EXTENDS Integers, FiniteSets, Totals

CONSTANTS
  Voters,          \* wallets that may hold voting sDGNRS
  Owner,           \* the DGVE governance executor (isVaultOwner)
  Token,           \* raw units in a whole token: 1e12
  Pool,            \* raw sDGNRS that pools and the wrapper may still hand out
  Day,             \* the ladder's 24 hours
  AdminStall,      \* ADMIN_STALL_THRESHOLD
  CommunityStall,  \* COMMUNITY_STALL_THRESHOLD
  Lifetime,        \* PROPOSAL_LIFETIME
  ProposeBps,      \* COMMUNITY_PROPOSE_BPS
  MaxProposals     \* bound on proposalCount

Proposers == Voters \cup {Owner}
ProposalIds == 1..MaxProposals
BPS == 10000

ASSUME GovernanceAssumption ==
  /\ IsFiniteSet(Voters)
  /\ Token \in Nat \ {0} /\ Pool \in Nat /\ Day \in Nat \ {0}
  /\ AdminStall \in Nat \ {0} /\ CommunityStall \in Nat /\ Lifetime \in Nat \ {0}
  /\ AdminStall <= CommunityStall /\ Lifetime <= CommunityStall
  /\ ProposeBps \in Nat /\ MaxProposals \in Nat

VARIABLES
  stall,      \* time since lastVrfProcessed, saturating at CommunityStall
  over,       \* gameOver
  balance,    \* raw sDGNRS of each voter
  supply,     \* votingSupply: _totalSupply without the excluded holders
  pool,       \* raw sDGNRS not handed out yet
  proposals,  \* proposals; age is the time since createdAt, saturating at Lifetime
  records,    \* voterRecords: each voter's standing vote and its weight
  slot,       \* _activeProposalId
  count,      \* proposalCount
  validFrom,  \* validFromId
  swaps,      \* history: executed swaps
  born,       \* history: the number of swaps when each proposal was filed
  word,       \* history: whether a word was processed since, at a later timestamp
  ceiling     \* history: the voting supply then, and what was handed out since (raw)

vars == <<stall, over, balance, supply, pool, proposals, records, slot, count, validFrom,
          swaps, born, word, ceiling>>
tokens == <<balance, supply, pool>>
ballots == <<proposals, records, slot, count, validFrom>>
history == <<swaps, born, word, ceiling>>

States == {"none", "active", "executed", "killed"}
Sides == {"none", "approve", "reject"}
Words == {"none", "later"}
ProposalType == [state : States, proposer : Proposers, age : 0..Lifetime, snapshot : Int,
                 approve : Int, reject : Int]
RecordType == [side : Sides, weight : Int]

NoVote == [side |-> "none", weight |-> 0]
Blank == [state |-> "none", proposer |-> Owner, age |-> 0, snapshot |-> 0, approve |-> 0, reject |-> 0]

Init ==
  /\ stall = 0 /\ over = FALSE
  /\ balance = [v \in Voters |-> 0] /\ supply = 0 /\ pool = Pool
  /\ proposals = [p \in ProposalIds |-> Blank]
  /\ records = [p \in ProposalIds |-> [v \in Voters |-> NoVote]]
  /\ slot = [a \in Proposers |-> 0]
  /\ count = 0 /\ validFrom = 0 /\ swaps = 0
  /\ born = [p \in ProposalIds |-> 0] /\ word = [p \in ProposalIds |-> "none"]
  /\ ceiling = [p \in ProposalIds |-> 0]

------------------------------------------------------------------------------
(* Reading the ledger.                                                      *)

Weight(v) == balance[v] \div Token

\* _isActiveProposal and the epoch cut-off, in the code's uses of the two together.
Votable(p) ==
  /\ p >= validFrom /\ proposals[p].state = "active" /\ proposals[p].age < Lifetime

\* Mutant: vote forgets the words processed since the proposal's creation.
MootNow(p) == stall < AdminStall

\* The stall ended, or a word was processed after the proposal's timestamp.
Moot(p) == stall < AdminStall \/ stall < proposals[p].age

\* _thresholdFrom: 50% for two days, then a step down each day.
Threshold(age) ==
  IF age >= Lifetime THEN 0
  ELSE IF age >= 6 * Day THEN 500
  ELSE IF age >= 5 * Day THEN 1000
  ELSE IF age >= 4 * Day THEN 2000
  ELSE IF age >= 3 * Day THEN 3000
  ELSE IF age >= 2 * Day THEN 4000
  ELSE 5000

Passes(weight, against, q) ==
  weight > against /\ weight * BPS >= Threshold(q.age) * q.snapshot

\* _resolveThreshold of proposal record q: the state it moves to.
Resolved(q) ==
  IF Passes(q.approve, q.reject, q) THEN "executed"
  ELSE IF Passes(q.reject, q.approve, q) THEN "killed"
  ELSE "active"

------------------------------------------------------------------------------
(* Operations.                                                              *)

\* The voter's slot is free: none, a superseded proposal, or one that is no longer active.
SlotFree(a) == \A p \in ProposalIds : Votable(p) => p # slot[a]

MayPropose(a) ==
  IF a = Owner THEN stall >= AdminStall
  ELSE /\ stall >= CommunityStall
       /\ supply # 0 /\ balance[a] * BPS >= supply * ProposeBps

Propose(a) ==
  /\ ~over /\ count < MaxProposals
  /\ SlotFree(a) /\ MayPropose(a)
  /\ count' = count + 1
  /\ proposals' = [proposals EXCEPT ![count + 1] =
       [state |-> "active", proposer |-> a, age |-> 0, snapshot |-> supply \div Token,
        approve |-> 0, reject |-> 0]]
  /\ slot' = [slot EXCEPT ![a] = count + 1]
  /\ born' = [born EXCEPT ![count + 1] = swaps]
  /\ ceiling' = [ceiling EXCEPT ![count + 1] = supply]
  /\ UNCHANGED <<stall, over, tokens, records, validFrom, swaps, word>>

\* vote, when the proposal is moot: anyone's call kills it.
KillMoot(p) ==
  /\ p \in 1..count /\ Votable(p) /\ Moot(p)
  /\ proposals' = [proposals EXCEPT ![p].state = "killed"]
  /\ UNCHANGED <<stall, over, tokens, records, slot, count, validFrom, history>>

\* Mutant: _applyVote adds the new vote without undoing the voter's former one.
TallyAdds(q, old, side, w) ==
  [q EXCEPT !.approve = @ + (IF side = "approve" THEN w ELSE 0),
            !.reject = @ + (IF side = "reject" THEN w ELSE 0)]

\* Mutant: _applyVote undoes the former vote at the voter's weight of today.
TallyUndoesToday(q, old, side, w) ==
  [q EXCEPT !.approve = @ - (IF old.side = "approve" THEN w ELSE 0)
                          + (IF side = "approve" THEN w ELSE 0),
            !.reject = @ - (IF old.side = "reject" THEN w ELSE 0)
                         + (IF side = "reject" THEN w ELSE 0)]

\* _applyVote: proposal record q with a voter's former vote replaced.
Tally(q, old, side, w) ==
  [q EXCEPT !.approve = @ - (IF old.side = "approve" THEN old.weight ELSE 0)
                          + (IF side = "approve" THEN w ELSE 0),
            !.reject = @ - (IF old.side = "reject" THEN old.weight ELSE 0)
                         + (IF side = "reject" THEN w ELSE 0)]

\* A caller without a whole token votes nothing and only pokes the thresholds.
Voted(v, p, side) ==
  IF Weight(v) = 0 THEN proposals[p] ELSE Tally(proposals[p], records[p][v], side, Weight(v))

\* Mutant: _executeSwap leaves the competing proposals valid.
CutoffStays == validFrom

\* _executeSwap's epoch cut-off past every existing proposal.
Cutoff == count + 1

\* vote; _executeSwap runs inside it, and a swap that reverts takes the vote with it.
Vote(v, p, side) ==
  /\ p \in 1..count /\ Votable(p) /\ ~Moot(p)
  /\ LET q == Voted(v, p, side)
     IN /\ proposals' = [proposals EXCEPT ![p] = [q EXCEPT !.state = Resolved(q)]]
        /\ IF Resolved(q) = "executed" THEN validFrom' = Cutoff /\ swaps' = swaps + 1
           ELSE UNCHANGED <<validFrom, swaps>>
  /\ records' = IF Weight(v) = 0 THEN records
                ELSE [records EXCEPT ![p][v] = [side |-> side, weight |-> Weight(v)]]
  /\ UNCHANGED <<stall, over, tokens, slot, count, born, word, ceiling>>

------------------------------------------------------------------------------
(* The environment.                                                         *)

\* lastVrfProcessedTimestamp moves when the game applies a daily word.
ProcessWord ==
  /\ ~over
  /\ stall' = 0
  /\ word' = [p \in ProposalIds |->
       IF p <= count /\ proposals[p].age > 0 THEN "later" ELSE word[p]]
  /\ UNCHANGED <<over, tokens, ballots, swaps, born, ceiling>>

EndGame ==
  /\ ~over /\ over' = TRUE
  /\ UNCHANGED <<stall, tokens, ballots, history>>

\* A pool reward, or the vault unwrapping to a holder.
Award(v, n) ==
  /\ ~over /\ n \in 1..pool
  /\ balance' = [balance EXCEPT ![v] = @ + n] /\ supply' = supply + n /\ pool' = pool - n
  /\ ceiling' = [p \in ProposalIds |-> IF p > count THEN 0 ELSE ceiling[p] + n]
  /\ UNCHANGED <<stall, over, ballots, swaps, born, word>>

\* sDGNRS.burn, or a liquidation's forfeit.
Burn(v, n) ==
  /\ n \in 1..balance[v]
  /\ balance' = [balance EXCEPT ![v] = @ - n] /\ supply' = supply - n
  /\ UNCHANGED <<stall, over, pool, ballots, history>>

Later(age, limit) == IF age < limit THEN age + 1 ELSE limit

Tick ==
  /\ stall' = Later(stall, CommunityStall)
  /\ proposals' = [p \in ProposalIds |->
       IF p > count THEN proposals[p] ELSE [proposals[p] EXCEPT !.age = Later(@, Lifetime)]]
  /\ UNCHANGED <<over, tokens, records, slot, count, validFrom, history>>

Next ==
  \/ \E a \in Proposers : Propose(a)
  \/ \E p \in ProposalIds : KillMoot(p)
  \/ \E v \in Voters, p \in ProposalIds, side \in {"approve", "reject"} : Vote(v, p, side)
  \/ ProcessWord
  \/ EndGame
  \/ \E v \in Voters, n \in 1..Pool : Award(v, n) \/ Burn(v, n)
  \/ Tick

Spec == Init /\ [][Next]_vars

------------------------------------------------------------------------------
(* Properties.                                                              *)

TypeOK ==
  /\ stall \in 0..CommunityStall /\ over \in BOOLEAN
  /\ balance \in [Voters -> Nat] /\ supply \in Int /\ pool \in Nat
  /\ proposals \in [ProposalIds -> ProposalType]
  /\ records \in [ProposalIds -> [Voters -> RecordType]]
  /\ slot \in [Proposers -> 0..MaxProposals] /\ count \in 0..MaxProposals
  /\ validFrom \in Nat /\ swaps \in Nat
  /\ born \in [ProposalIds -> Nat] /\ word \in [ProposalIds -> Words]
  /\ ceiling \in [ProposalIds -> Int]

Executed(p) == proposals[p].state = "executed"
Executes(p) == ~Executed(p) /\ Executed(p)'

(* One decision per epoch: of all proposals filed between two swaps at most one is ever executed,
   whoever voted on them and however their thresholds decayed meanwhile (validFromId). *)
OneSwapPerEpoch ==
  \A p, r \in ProposalIds : Executed(p) /\ Executed(r) /\ born[p] = born[r] => p = r

(* A proposal executes only in the outage it was filed for: the stall holds, and no word was
   processed at any later timestamp than its creation, poked or not in between (vote). *)
SwapOnlyInItsOutage ==
  [][\A p \in ProposalIds : Executes(p) => stall >= AdminStall /\ word[p] # "later"]_vars

(* A proposer never has two proposals open to votes, across expiry, kills and swaps that free its
   slot (propose, _activeProposalId). *)
OneOpenProposalEach ==
  \A p, r \in ProposalIds :
    Votable(p) /\ Votable(r) /\ proposals[p].proposer = proposals[r].proposer => p = r

(* No token votes twice: however voters change sides, burn, or receive tokens between votes, a tally
   stays within the voting supply at filing and what was handed out since (_applyVote). *)
OneTokenOneVote ==
  \A p \in ProposalIds : (proposals[p].approve + proposals[p].reject) * Token <= ceiling[p]

\* The weight of the votes that stand on one side of a proposal.
Standing(p, side) ==
  Total([v \in Voters |-> IF records[p][v].side = side THEN records[p][v].weight ELSE 0])

(* The running tallies are the standing votes (voterRecords), at the weight each was cast with, and
   the voting supply the balances: undoing a vote or a burn cannot underflow. *)
TalliesAreRecords ==
  /\ supply = Total(balance)
  /\ \A p \in ProposalIds : /\ proposals[p].approve = Standing(p, "approve")
                            /\ proposals[p].reject = Standing(p, "reject")

(* A tally is the standing votes, and they are tokens that each voted once. *)
TalliesAreVotes == TalliesAreRecords /\ OneTokenOneVote
==============================================================================

# Degenerus Protocol — verification project

TLA+ models of the game engine in `src/contracts` and of the Python programs in
`src/scripts` that test, analyse and gate it, the TLC configurations that check
them on small instances, and theorems that TLAPS proves for every value of the
constants. The names of the code are kept; line numbers are in `PROJECT.json`'s
`map`.

## 1. The system

The protocol is one game contract (`DegenerusGame`, a proxy of modules over the
storage in `storage/DegenerusGameStorage.sol`) and some twenty satellite
contracts. The EVM runs one transaction at a time, so concurrency here is the
interleaving of transactions: players, anybody who mines (`mineFlip`), the
Chainlink VRF coordinator, the vault owner and governance, with time passing
between any two. What makes the engine hard is that a *day* and a *level* are
spread over many transactions: a word is requested, answered late or never,
published, used by half a dozen resumable workers, and only then may the next
request swap the buffers.

Beside the contracts stands their tooling, which decides what the team believes of
them: three scripts that rewrite a working tree while compilers read it, and some
twenty checks and generators that scan sources, syntax trees, build artifacts and
logs. There the concurrency is of processes, signals and people editing, and what
is hard is silence: a test that was not run, a call that was not listed, a green
status about other files.

### 1.1 Components

| component | state it keeps | operations | what makes it correct |
|---|---|---|---|
| Engine state, scheduler (`DegenerusGameStorage`, `GameMiner`) | packed session, phase, pool and ending latches | `mineFlip` runs what `_nextMinerAction` derives | something can always run, or the VRF is being waited for |
| Randomness session (`DegenerusGameRngModule`, `RngUtils`, facade callback) | request id, word, active / published / complete, write-buffer bit | `requestDailyRng`, `requestMinerRng`, `publishRng`, `retryRng`, `rawFulfillRandomWords` | everything settles on a word requested after it was queued; a word is never replaced |
| Day and level engine (`DegenerusGameAdvanceModule`) | `dailyIdx`, `level`, jackpot phase, pending legs, lock, freeze | `applyDailyWord`, `runDailyPhase`, `prepareRequestBoundary` | the day's legs run in order under one lock; a level's tickets are all drawn |
| Ticket generation (`DegenerusGameTicketModule`) | double-buffered queues per level, far-future pools | `runTicketWork` | nothing is left behind a swap |
| Jackpots (`JackpotModule`, `JackpotDrawModule`, `DegenerusJackpots`) | the current payout's checkpoint | legs of a day, BAF awards, terminal draw | each part is paid once, then retired |
| Endings (`GameOverModule`) | drain level, dead / swap / loan latches, payout and sweep | terminal calls of `runTerminalPhase` | irrevocable, fair, and always reached when the VRF dies |
| Boxes, bets, AFKing (`GameAfkingModule`, `LootboxModule`, `DegeneretteModule`) | write and read buffers, cursors | purchase, bet, subscription pass; the read workers | FIFO settlement on the session's word |
| Decimator | burn window, battle rounds | burns, `runDecimatorWork` | a round is paid before its session is certified |
| sDGNRS redemptions | open and settling batch, reserve, rolls | `burn`, `closeRedemptionBatch`, `runRedemptionWork`, terminal resolution | one batch per session, reserve covers every claim |
| Craps, jackpot battles | slots per buffer, battles, progressive | registration, close, settlement | a slot settles with its session |
| Coinflip | stakes per day, claim window, carry, record pool | deposits, daily resolution, claims | no deposit into a day whose word is being drawn |
| VRF governance (`DegenerusAdmin`) | proposals, votes, epoch cut-off | propose, vote, execute, retry | a swap only during a stall |
| Owner governance, Vault | deposits, delegated weight, proposals | deposit, support, execute, withdraw | assigned weight equals the deposits behind it |
| Account loans | position per wallet, due latch | open, repay, seize | settled before the level's last draw |
| Degenesis | seven daily cohorts | orders, split, settlement | each order resolves on its own day's word |
| Parimutuel growth market | rounds, sides, settlement cursor | bet, record, pay | a round's winners are paid once |
| WWXRP | per-day draw entries, incinerator, supply | enter, claim | a winner is found by its entry's range and claims once |
| FLIP, GNRUS, DGNRS, record bounty, affiliates, quests, passes, foil packs, boons | balances, streaks, referrals | sale and reward paths | accounting |
| Lens, renderers, libraries, mocks | — | views and pure functions | — |
| Test runners and mutation campaign (`test-foundry-groups.py`, `test-hardhat-groups.py`, `audit/mutate-storage-reuse.py`) | backups, the current child's process group, evidence rows, locks | patch, one child a batch, record, restore; signals, timeouts | files come back, readers stop first, status 0 means real, recorded results |
| Test plans (the runners, `invariant-matrix.py`) | — | groups, shards, batches, forwarded options, CI jobs | every test selected runs once, in the mode it needs |
| Extractors and their gates (RNG windows, taint, unchecked blocks, external calls, queue codec) | scanner state; rows against a reviewed manifest | mask, count braces, attribute, compare | nothing unreviewed passes |
| Graph analyses (recipients, routes, imports, audit scope) | closures over syntax trees and imports | search, compare | nothing reachable is missed |
| Site pins, memory guard, Slither and ledger evidence | reviewed sites; allowances; validated builds | compare before and after | what passes is what was reviewed, and of these files |
| Storage census | counts per root and window | aggregate logs, label slots | each slot's life is counted once |
| Degenerette tables, split and loan models | distributions, sums | convolve, enumerate, round | the published numbers are exact |

### 1.2 How they interact

* **The session is the spine.** A request (`requestDailyRng`, `requestMinerRng`,
  `_requestTerminalRng`) swaps the write and the read buffers of boxes, bets and
  craps, closes the sDGNRS batch and — daily and sometimes mid-day — the ticket
  slot. The answer is stored by the callback and becomes usable when a miner
  publishes it.
* **Workers read the word, in a fixed order**: tickets, then on a daily request
  the day's legs under the lock, then redemptions, subscriber boxes, human
  boxes, bets, decimator, craps. The last one certifies the session
  (`_certifyRngComplete`), which is also what completes the day.
* **Players write only into the accumulating side**, at any time, including
  between a request and its settlement; money that arrives under the lock waits
  in the pending pools.
* **Endings** are derived from clocks (`_endingReason`), not stored, until the
  first terminal call latches one.
* **The coordinator** may answer late, out of order, with a reserved value, or
  never; a refused request rolls its call back (except the terminal request's
  armed timer). The owner may retry once; governance may replace it.
* **The scripts meet in files**: the pins and profile files they patch and restore,
  `flock`s on a checkout and on `summary.lock`, and the shared `summary.json`. The
  checks read the tree and each other's manifests, and share no state.

## 2. The modules

| module | models | extends |
|---|---|---|
| `GameState` | the storage: constants, variables, types, `Init`, and the predicates the engine reads them through (`_endingReason`, `_rngConsumerStage`, `_nextMinerAction`, ceilings and levels) | — |
| `RngSession` | requests, buffer seals, the callback, publication, retry, coordinator swap | `GameState` |
| `DailyPhase` | ticket generation, the day's word, every leg of a day, read consumers, certificate, preparation of the next session | `RngSession` |
| `Ending` | both endings, to the payout and the sweep | `DailyPhase` |
| `MiningEngine` | player entries and time, the whole next-state relation, fairness, every property | `Ending` |
| `CommitReveal` | the abstract specification of one randomness consumer | — |
| `OwnerGovernance` | `DegenerusOwnerGovernance`, with the DGVE share token and the vault burn that moves the majority | — |
| `VrfGovernance` | `DegenerusAdmin`'s proposals to swap the VRF coordinator | — |
| `RedemptionBatches` | sDGNRS: live burns, the close, roll and settlement of a batch, claims and burns after game over, with amounts | — |
| `Totals`, `TotalProofs` | sums of naturals, counted as units, for the three modules above; the lemmas about them and about floored shares | — |
| `EngineProofs` | theorems and proofs of the engine: types, sessions, endings and nudges; then days, tickets, levels and the refinement of `CommitReveal` | `MiningEngine`, TLAPS |
| `OwnershipProofs` | the same, of owner governance | `OwnerGovernance`, `TotalProofs` |
| `SwapProofs` | the same, of VRF governance | `VrfGovernance`, `TotalProofs` |
| `RedemptionProofs` | the same, of redemptions | `RedemptionBatches`, `TotalProofs` |
| `Checkout` | what the three tree-rewriting scripts share: `run_child`, rows and the summary, the finally block, signals, SIGKILL, editors, children | — |
| `FoundryRunner`, `HardhatRunner`, `MutationCampaign` | each script's own steps | `Checkout` |
| `EvidenceLog` | the abstract specification of `summary.json` | — |
| `TestRunners` | who may run beside whom, the next-state relation, fairness, the properties | the three |
| `RunnerProofs` | theorems and proofs of the scripts: children, locks and the log; then the user's files and what an exit status vouches for | `TestRunners`, TLAPS |
| `TestPlans` | groups, shards, selection, batches, forwarded options, the CI matrix | `Rounds`, `Totals` |
| `Masking`, `Scopes` | the three comment-and-string strippers; the three ways a line is charged to a function | — |
| `SourceRows`, `CallSites`, `QueueCodec` | the RNG-window, taint and unchecked-block gates; the external-call extractor and dispatch targets; the ticket-queue codec gate | — |
| `Closures`, `CallGraph` | walk over linked directories, import closures, scope, build identity; recipient calls and delegate routes | — |
| `SitePins`, `MemoryGuard`, `BuildInputs` | hash and gas sites; memory prologues and allowances; what Slither and the ledger proofs were given | — |
| `Census`, `Degenerette`, `MoneyModels` | the storage census; the odds and vectors; the jackpot split and the loan model | `Rounds`, `Totals` |
| `Rounds` | closures found by going round and scans of a sequence, for the modules above | — |
| `Gates`, `MCGates` | one of the checks and generators started by itself, and what each family owes its reader; its small inputs | all of the last seven rows |
| `DataProofs`, `GateProofs` | induction on rounds and scans and the proofs of the test plans, the census, the money models and the masking; theorems and the other proofs of the gates | `TestPlans`, `Census`, `MoneyModels`, `Masking`, `TotalProofs`, TLAPS; `Gates`, `DataProofs` |

`PROJECT.json` maps every definition to the lines it stands for.

### 2.1 Correspondence

**The engine.** The nine variables are records grouped as the storage packs them: `rng` is
`rngFlagsAndNudges`, the lock, `vrfRequestId` and `rngWordCurrent`; `work` is
what `_rngConsumersComplete` reads, with sDGNRS's two batches; `tix` the ticket
buffers and latches; `ph` slot 0; `legs` the pending parts of a day's jackpot;
`go` the `LR_GO_*` and `GO_*` fields; `daily` the logical day and the two-day
ring of words; `clock` the timestamps; `vrf` the environment (external).

* **Queues are stamps.** A queue is represented by when its latest entry was
  made: 0 is empty and `s` means `s - 1` requests had been sent. A word is the
  number of the request that drew it. "Was this entry made before its word was
  asked for?" is then `stamp <= word`, which is exactly what the randomness
  properties say, and the model does not need players, amounts or cursors.
* **Time is ages.** Every timestamp is kept as its age, saturating where no
  comparison in the code can tell two ages apart. A day is `DayLength` units.
* **One action is one transaction**, or one bounded worker of a mining call; a
  mining call that runs several workers is a sequence of such steps (the code
  commits the prefix when a later worker refuses). A worker that runs out of its
  gas allowance half-way leaves a shorter queue and the same action selected: a
  stuttering step here, so each worker's action is the call that finishes it.
  A transaction that reverts, and a request the coordinator refuses, is a
  stuttering step too; the terminal request's refusal is not (it arms the
  timer) and is a disjunct of `RequestTerminalRng`.
* **Amounts** are reduced to the comparison the engine makes: is the next pool
  above the target (`met`), would it be with the pending pools (`pendingMet`).

Facts about the code that the model makes visible, none of them a defect:

* `_vrfDead` is implied by `_vrfDeadmanFired` for an unanswered daily request
  (both limits are fourteen days and the completion is older); it matters for
  mid-day and terminal requests, which may be newer than the last completion.
* `CertifyRead`, the scheduler's fallback for a drained session without a
  certificate, is never selected: every last worker certifies. It has no action
  in the model, and `SelectedWorkRuns` would fail if it were ever selected.
* `DegenerusAdmin.vote` compares timestamps strictly (line 609), so a word
  processed later in the very block a proposal was filed in does not kill it:
  `SwapOnlyInItsOutage` speaks of later timestamps for that reason.
* The branch of the ticket worker that turns a future-pool latch (2) into an
  ordinary one (1) under the daily lock is not reached either: a mid-day session
  must be certified, which clears the latch, before a daily request.

**Owner governance.** `positions`, `proposals` and `totalEscrowed` are the
contract's; `wallet` and `held` are the DGVE balances of the owners and of the
contract itself. `block` is the block number and the timestamp at once: several
transactions share one, and that is what `recentBlock`, `assignedBlock` and
`depositBlock` compare. Two variables are history: `voter` (who cast the standing
vote, the `Supported` event's actor) and `opening` (the ledger when the block
began). What a proposal does is left out; `directAction` is the predicate
`CanAct`, since its authorisation changes nothing here.

**VRF governance.** Timestamps are ages again: `stall` is the time since the last
processed word, a proposal's `age` the time since its creation, so the code's
`lastVrf > createdAt` reads `stall < age` (both saturate where no comparison can
tell two values apart). sDGNRS balances, the voting supply, the game's words and
its end are the environment. `born`, `word` and `ceiling` are history. Execution
happens inside `vote`; a game that refuses the swap reverts the vote with it, a
stutter here. The engine's own guard (`GameOverModule`: a swap needs a stall of
`StallThreshold`) is what `SwapOnlyInItsOutage` guarantees to `SwapCoordinator`
in `RngSession`. A swap approved before an ending may still execute after it; it
then only rewires the coordinator. The subscription's LINK handling, the swap's
external calls and the price-feed proposals (a second instance of the same
voting code with other thresholds) are not modelled.

**Redemptions.** The engine's view of a redemption batch is open or settling;
`RedemptionBatches` is the same life with its money. `claimable` and `reserve`
are sDGNRS's entry and the redemption reserve on the Game, `custody` what sDGNRS
holds itself, `pending` its `_pendingRedemptionEthValue`. `batch`, `queue` and
`locator` are the two lanes, indexed by the parity of the id as in the code, so
that a lane still shows what an older batch left there. `due` and `short` are
history: what a holder burned and was not paid for, and what a payment after
game over could not find. A claim of the miner is a step of its own, since gas
may end a call between any two. The Game appears as a `phase`, and as the credits
(`Earn`) and debits (`Spend`) it makes on sDGNRS's account outside redemptions.
That a request is sent only with no batch settling is the guard `settling = 0`
of `RequestEmpty` and `CloseBatch`; in the engine that is `CompleteMeansDrained`.
The constructor's five pools are one account.

Left out there: the FLIP escrow and the synthetic flip, the boxes a claim buys,
the activity score, packing and the 96-bit caps on backing (far above any
supply of ETH); stETH counts at par, so the one or two wei a transfer may round
away, and an stETH loss, are not represented. DGNRS's own balances and vesting
decide when `Unwrap` and a wrapped burn happen, not what they do. A burner is taken
to have a wallet id (one without it is refused). In a live game an entry cannot
be zero, so the miner's branch that skips a zero entry is not taken.

**The test scripts.** `proc[r]` is a process: its program counter, the locals that
survive (`backup`, `batch`, `pending`, `identity`, the history it has read) and where
its body is in `try` / `except` / `finally`. `child[r]` is the process group of its
current child, a wrapper (npm, forge, hardhat) and one compiler it starts; it outlives the
script. `tree` holds the files that are patched, `source` everything else an identity
covers, `owner` and `flock` the two kinds of lock, `summary` the shared log, and
`seen` what a batch's compilers read. A step is a stretch of Python between two points
where another process, a signal or a kill can matter; a signal's exception is raised
at any of these points while the handlers are installed, and `Unwound` says where it
leads. `write_bytes` is two steps, since it empties the file first; `write_json` is
one, since it replaces it. `leaked` and `cut` record the two places in which a signal
leaves something behind (see Findings), `killed` what only the kernel cleaned up.

**The checks and generators.** Each module lets an environment write the input, one
line, token, site, test or transaction at a time or as one choice of a small set, runs the script's
algorithm on it step by step, and keeps beside it the truth the script does not
see: the real nesting of a file, the runs of a program, the slots' values. Text is
reduced to the forms the regular expressions tell apart (a head, a brace, a write, an
alias, a call), a syntax tree to the edges that are followed, bytecode to the opcodes
of a prologue. `Gates` starts one of them in each behaviour, so the states of the tools
add and do not multiply.

### 2.2 What the model leaves out of the engine

Amounts, prices and traits; gas, bounties and the fee and credit thresholds of a
mid-day request (any pending entry suffices); foil packs (they ride the daily
ticket swap only); hero wagers; the FLIP redemption and decimator day-one windows; the
turbo bonus; Craps maintenance and the Degenesis settlement backlog (miner
actions off the session); the deterministic ending's tally and refunds; the
money of a redemption batch (`RedemptionBatches` has it); the vault's FLIP
back-stop; loans other than the level's due latch and the ending's settlement. Of the
terminal drain: a ticket worker's own revert, which it swallows as no batch, so that the
ending goes on without the tickets left (`DegenerusGameGameOverModule.sol:490-518`), and the latch of the
deterministic ending when distributable funds meet no word (568-572). `TerminalDrawFair` is about
drains whose worker does not revert; the model reaches a payout only with a word or deterministically.

### 2.3 What is left out of the tooling

Report formats, timings, RPC redaction, artifact and AST parsing, and the regular
expressions' spelling; how `FOUNDRY_PROFILE` and the environment are composed;
rendering of the census and its attribution of hashed slots by preimage; the odds
script's parsing of Solidity constants. Not modelled at all: `check-docs.py`, the
layout comparisons, the one-off manifest seeding of `rng_window_classify.py`, and the unit tests of
the tools, which compare tables and have no order of their own.

## 3. The runs

Engine timing: `DayLength = 2`, `RetryTimeout = 1`, `StallThreshold = 3`,
`DeadTimeout = 4`: the order of the code's 20 hours, 24 hours, 44 hours and 14
days. Every comparison between them keeps its outcome, and two days fit before
the dead limit so that a whole day can complete, stall, or be given up.
`JackpotDays = 2` has a first and a final day. `MaxDay`, `MaxLevel` and
`MaxAsks` bound the daily requests, the levels that can be filled and the
requests the coordinator accepts; `Inputs` selects which outside inputs a run
explores. The other bounds are per run. Where a question has parts that are
violated together by the same mistakes, one definition names their conjunction
and its parts stay named in the module.

| run | question | what it explores |
|---|---|---|
| `settlement` | Does every cohort settle, once, on a later word? | boxes, craps, redemptions, growth rounds, retries over two days with a mid-day session. `CompleteMeansDrained` (the certificate), `ConsumersBlind`, and `CommitReveals`: boxes and redemption batches each implement `CommitReveal` |
| `level` | Is a day one unit and a level drawn completely? | from level 99 through the century level 100, whose purchase phase, jackpot phase with its BAF leg and transition it completes, with awards, far-future entries, decimator rounds and nudges. `EveryTicketDrawn` (no ticket without a draw, none stranded behind a swap), `DayUndisturbed` (lock, freeze, legs and recorded word end together; no nudge shifts a word after its request) |
| `midday` | Do mid-day sessions leave the engine able to proceed and tickets blind? | ordinary, far-future and early pools, bets and subscribers. `WaitsOnlyForVrf`, `TicketsBlind` |
| `ending` | What do late, lost, reserved and orphaned answers do, and can the endings always be mined fairly? | a one-day purchase timeout, retries, swaps, both endings to the sweep, raced against mid-day sessions; no level fills here. `SelectedWorkRuns`, `WordNeverReplaced`, `TerminalDrawFair`, `OverIsFinal` |
| `liveness` | Must something happen? | from the constructor: level 0, Degenesis days, the early turbo into level 1 that draws the whole level under one lock, loans, endings. `Progress` (a requested day completes or the game ends and pays, an ending pays, a session is certified unless the game ends) under `FairSpec`, and `EndingsStick` (a purchase may fill the level an ending was decided for) |
| `ownership` | Can two disjoint groups of owners command the vault, a vote outlast its owner's consent, or a block's own doing decide in it? | two owners, each the other's delegate, over a supply of three, two proposals and two blocks: deposits, votes, changes of delegate, withdrawals, transfers, donations, burns and the refill. `VoteIsControlled`, `MandateIsSound` |
| `swap` | Which proposals can execute? | the owner and two voters, two proposals, across stalls, recoveries, decaying thresholds, expiry and swaps. `OneSwapPerEpoch`, `SwapOnlyInItsOutage` |
| `votes` | Can a token count twice? | one proposal and four tokens (fewer would let a single vote resolve it), handed out and burned between votes. `TalliesAreVotes` |
| `redemption` | Is every burned token paid once, out of money that is there? | two holders, one of them acquired by a lender, over a supply of three (two wrapped, one in the pools); up to three batches, so that each lane is used again; the extreme rolls 21 and 175; claimable up to four, earned and spent by three; refills, liquidations, both endings, the sweep. `ReserveBacksPending`, `PaidExactlyOnce`, `BooksBalance`, `ClaimsCovered`, `LeaversDoNotDilute`, `RolledOnce` |
| `runners` | Can a test script leave its files, its children, its evidence or its status wrong? | five casts: each script alone with two batches and two faults, two Foundry runners of two checkouts with one log, two Hardhat runners of one checkout. Faults are signals at any point, edits of the sources (there and back again) and SIGKILLs; children fail, hang, or outlive their wrapper. `ReadersStopped`, `UserFilesBack`, `GreenIsRecorded`, `GreenIsReal`, `AppendOnly` (the log implements `EvidenceLog`), `InterruptedEnds` |
| `gates` | Do the checks and generators see what is there? | each tool on all inputs of its bounds, below. `MaskingExact`, `ScopesExact`, `RunAsSelected`, `RowsReviewed`, `CallsReviewed`, `SitesReviewed`, `InputsCaptured`, `CensusTrue`, `OddsTrue`, `MoneyConserved` |
| `attribution` | Is every access tagged with its function, as the extractor's docstring says? | No: see Findings. `AccessTagged` is violated |

Deadlock is checked in the engine and VRF runs, where time can always pass. It is not in
`ownership` (`MaxBlock` ends the blocks, and with them, once every owner has deposited,
voted and been executed, the moves), `redemption` (once everything is burned and
swept there is nothing left to do), `runners`, `gates` and `attribution` (a script ends).

Why the bounds suffice. Engine sessions are memoryless once certified (that is
`CompleteMeansDrained`), so an interaction spans at most two of them plus the
recovery of one; every run reaches at least two complete sessions of each kind
it asks about, and the `level` run a whole level with its neighbours.

In `swap` and `votes` a `Day` is one unit, `AdminStall = 1`
(44 hours, between one and two days) and `CommunityStall = Lifetime = 7`, the
code's week, so every step of the decaying threshold is taken; in `swap` a token
is two raw units, so that dust below a token is not a vote.

In `liveness`, `MainLaunchDay = 3` leaves the Degenesis days and `JackpotDays = 1` makes
the level's jackpot a single final day.

In `redemption` a unit of ETH is large against a token, so that rolls, rounding
and the boundary of a box (`MinLootbox = 2`: a half of one is forfeited, a half of two
buys) all occur; the same properties also passed on two larger instances that do not fit
the time of a regular run (a single batch over a supply of five, and `Gains = {2}` with
`MaxClaimable = 5`, of two and seven million states).

In `runners` a second batch is what an interrupted, failed or drifted first one could
spoil, and a third repeats the second. Two faults are an interruption and one
during the cleanup it starts, or an edit and its undoing. Two runners are enough for every race on a
file or a lock, since each is between two processes; the second Foundry runner is met with its batch
passed and its row to be recorded, which is where it matters to the first.

In `gates`, files are up to five characters (a string is opened, closed, and holds an escaped backslash before a newline; a
comment is opened and closed) or four lines with three nested scopes; directories
and call graphs have three vertices, enough for a cycle and a path that skips one; each manifest may hold two copies of a row, since
counts are compared; each census has three transactions over two runs of a scenario; the
reels have two symbols and colours with three wild faces, and the tables are small enough
for integers, odd enough that every rounding occurs. `Catalog` has a file of every
directory the Foundry groups know, and one they do not. The constants of
`Degenerette` are tables with the shape of the contract's, not its values.

**Fairness.** The engine's `FairSpec` assumes weak fairness of `MinerStep` — the mining call
is permissionless, pays a bounty, and is derived from the state, so whenever it
can make progress somebody's call does — and of `Tick`. It assumes nothing of
requests (the coordinator may refuse every one), answers, retries, swaps or
players. The liveness properties therefore rest on the deterministic ending.
The scripts' `FairSpec` assumes one weak fairness over all of them and the kernel: while
some script can take a step, or a process that was sent SIGKILL is still there, one
of them moves. Nothing makes a child finish by itself and nobody has to send a signal, so
`InterruptedEnds` rests on `run_child`'s escalation alone.

## 4. What is proved

Assumptions: `ClockAssumption`, `GameAssumption`, `BoundAssumption` in
`GameState`: the timeouts' order and that constants are naturals. The theorems
hold for every such constants, so for the code's own, and for unbounded
`MaxDay`, `MaxLevel` and `MaxAsks` in the sense that no bound is ever relied on.

* `TypeInvariant`: `Spec => []TypeOK`. One lemma per action; helpers' types
  (`SealType`, `AwardType`, `CertifyType`, ...) are stated once.
* `SettlementInvariant`: `Spec => []SettlementInv`. `CompleteMeansDrained` alone
  is not inductive: a certificate is only given on `human`, and `human` says
  nothing of the box queue unless a finished cohort is empty; and blindness needs
  to know when the sealed cohort was made. The strengthening is: no stamp runs
  ahead of the requests sent (`StampsBounded`); what a session sealed was made
  before its request was last sent (`SealedBeforeRequest`); the word held is that
  sending's (`WordIsRequested`); a finished cohort is empty; an ending has turned
  the consumers off. The argument goes by classes of steps: an entry joins the
  accumulating side (`EntryInv`), a request seals onto settled queues
  (`SealInv`), a resend only raises the id (`ResendInv`), a worker shortens and
  certifies (`WorkerInv`), an unlock certifies on the queues as they are
  (`UnlockInv`), an ending turns everything off (`TurnedOffInv`), and the rest
  touch none of it (`KeepsInv`).
* `CertifiedIsDrained`: `Spec => []CompleteMeansDrained`, from it.
* `SettlementIsBlind`: `Spec => ConsumersBlind`. A worker runs only on an open,
  published session (`ConsumerSelected`), whose cohort was sealed before its word
  was asked for (`SealedBeforeWord`); nothing else empties a queue.
* `WordStays`: `Spec => WordNeverReplaced`. Only a fresh request, an arming or an
  ending clears a word; the callback, the retry and the swap reach only a waiting
  session — for the callback by `WordIsRequested`: an answer that is accepted is
  the answer of the current id.

* `EndingsAreFinal`, `OverStaysOver`, `TerminalDrawIsFair`, `NudgesComeFirst`
  (`EngineProofs`), from `EndInv`: no ticket stamp runs ahead of the requests sent
  (`TicketStamps`); an open, published session has its word and a nudge bought
  before the lock is older than the request (`SessionFlags`); what stands on the
  read side was committed to a published word, except before the first request
  (`CohortHasWord`); the terminal request came after every entry and left no
  drawable ticket on the accumulating side (`TerminalSealed`); the ending's latches
  are set in one order (`EndingOrder`). That an ending is irrevocable is not
  obvious because `_endingReason` has no latch before the first terminal call: each
  of its three causes has to survive every step (`StallStays`, `ExpiryStays`), and
  is what lets everything below speak of live states only.
* `DayIsOneUndertaking`, `NothingElseWaits`, from `DayInv`, about
  live states: which legs may be pending in which phase (`LegOrder`), that lock,
  freeze, legs and transition end together (`DayOpen`), what the ring holds for the
  running day (`Ring`), and what may be missing in an open session (`Waiting`). A
  step into a live state is a step from one, so no step of an ending is to be
  considered.
* `TicketsAreBlind`, from `TicketSeal`: what waits on the read side is no later
  than the request whose word will draw it, and neither is a far pool below the
  ceiling while tickets are owed.
* `EveryTicketIsDrawn`, from `LevelInv`: where a ticket may wait, given the phase.
  The accumulating side holds only levels a swap will still commit (`WriteWindow`:
  the running level only while another of its draws is ahead), the read side only
  levels the sweep reaches (`ReadWindow`), and a far pool below the ceiling is about
  to be drained under the closing request's lock (`FarWindow`). The step that needs
  them all is the daily request that closes a purchase phase: it moves the level,
  the ceiling and both sides at once (`DailyRequestWindows`). A finished sweep
  leaves nothing because the read side is within the sweep's window
  (`DoneWindows`), and a request finds the read side empty because a certified
  session has generated it (`BetweenSessions`).
* `EveryCohortIsRevealed`: the engine implements `CommitReveal` twice over, once for
  the boxes and once for the redemption batches. Every step of a live game does one
  of five things to the session (`SessionSteps`): it requests over a certified one
  (`Fresh`), sends the request again (`Resent`), publishes the word of its latest
  sending (`Drawn`), enters or settles one of the two queues, or leaves both alone
  and the word too (`KeptWord`). Each maps to one action of the abstract protocol or
  to a stutter. What makes it hold is outside the step: a certified session has
  settled both queues (`CertifiedEmpty`, so the next commit finds nothing sealed),
  an answer that arrives late is the word already held (`AnswersKept`), and a game
  that ended never revives, so that its last request may only set the queues aside.

Sums (`Totals`, `TotalProofs`). `Total(f)` is the number of units of `f`, the
cardinality of a set that splits into one argument's block and the rest, so a change
of one value changes the sum by as much (`TotalUpdate`, `TotalExtend`, `PartUpdate`,
`PartUnion`) without an induction over the summands. `TotalScale` (a sum of multiples is the multiple of the sum) is a bijection
between two sets of units, and gives `PortionsFit`: the floored shares of a whole add
up to no more than it.

Owner governance (`OwnershipAssumption`: finitely many owners, positive refill and
lifetime, the creator an owner):

* `VotesAreControlled`: `Spec => []VoteIsControlled`, for any wallets, delegates,
  supply and history. It is inductive with the types: a vote is cast only by a
  controller, and whatever changes the delegate or the deposit clears the vote.
* `MandatesAreSound`, from `Books`: a proposal's running weights are the deposits of
  the votes that stand for it, all of them and those of its latest block apart
  (`WeightsAreDeposits`); no vote is dated after its proposal's last vote (`Dated`);
  and a vote or deposit of an earlier block stood as it is when the current block
  began (`Remembered`). The weights that `execute` counts are therefore escrow that
  the block found (`SettledIs`); and since two majorities of one escrow meet in an owner
  (`PartUnion`), no two decisions rest on disjoint deposits. What is hard is `_clear`:
  it takes a deposit from `recent` only when the vote is of the proposal's latest
  block, which keeps `recent` exact only because of `Dated`.

VRF governance (`GovernanceAssumption`: finitely many voters, the order of the stall
limits and the lifetime):

* `OneSwap`, `OneOpenProposal`, `SwapInItsOutage`. The invariant has five parts
  beside the shape of the state: proposals are numbered in the order filed and
  those to come are blank (`Numbered`); what is executed lies below the cut-off and was
  filed before the last swap, what lies above it was filed since (`Epochs`); a proposal open to votes is its proposer's slot
  (`Slots`); and where a word came later than a live proposal's timestamp, the
  stall is younger than the proposal (`Recoveries`), which is why the recheck in
  `vote` needs nobody to have poked during the recovery.
* `TalliesAreTokens`, from `Ballots`: tallies are the sums of the standing records
  (`TalliesAreRecords`), and `Budgeted`, the strengthening: the tallies together with
  the *slack* of every voter (what it holds beyond the tokens it voted with) stay
  within the supply at filing and what was handed out since. That the tallies alone
  do is not inductive, because a vote raises them; it lowers its voter's slack by as
  much (`RawFacts` and the lemmas on changed votes), a burn lowers slack or leaves the
  votes cast alone, and only an award raises the ceiling, by the slack it hands out.

Test scripts (`CheckoutAssumption`: at least one batch, and no process is `Nobody`;
`CastAssumption`: at least one checkout, and where two Foundry runners meet they have
a checkout each, the "isolated checkouts" of `test-foundry-groups.py:401`, which takes
no lock on its own):

* `RunnerInvariant`, `StoppedBeforeRestore`, `LogOnlyGrows`, for any number of
  processes, checkouts, batches and faults. That a script restores only when its
  child's group is gone is not inductive by itself; `RunnerInv` says where a living group can be: with
  a script inside `run_child`, or one that was killed or interrupted inside `Popen`.
  Together with the lock (who replaces the summary holds it and has read all of it)
  it gives the refinement of `EvidenceLog`: only `Replaced` writes the summary, and what it
  writes is what stands there and one row more. The lemmas go by what a step moves:
  one process record (`Move`, `OwnStep`), a process and its group (`GroupMoves`), a
  group alone (`GroupOnly`), data alone (`SelfKeeps`).
* `ScriptsInvariant`, and from it `FilesComeBack`, `GreenMeansPassed` and
  `GreenMeansRecorded`. `EvidenceInv` is what a script knows at
  each step of its own batches: which have ended, how, on which inputs, and which
  rows say so; its lemmas are one `...Vouches` per step, and where nothing but a
  program counter moves one lemma serves many (`Alike`). The other parts relate
  scripts. `LockInv`: a script that locks its checkout holds it while active, so a
  campaign's compilers read nothing but its own mutant (`TargetInv`). `LeftInv` and
  `FilesInv`: a file that is not the user's is owed by an active script of that
  checkout whose backup is the user's, unless one was killed or cut short there.
  `CastInv`: who runs beside whom. `SummaryInv`: a runner's rows stand in the summary,
  one per batch entered, whoever replaced it last. `Conduct` says once what a
  step of one script may do to another's record and to the shared files, and the
  relational parts are proved from it and not from the actions. `GreenMeansRecorded`
  counts rows by a bijection between batches and places (`OnePlaceEach`).

Redemptions (`RedemptionAssumption`: finitely many holders, rolls between 21 and
175, refills of 25 to 75 per cent, a positive price grain; nothing of the amounts):

* The theorems of `RedemptionProofs` come from one inductive invariant,
  `Inv`. What the code promises of the reserve is not inductive by itself: that
  the miner's subtraction is covered depends on which batch the lane holds, and
  that a claim is paid once depends on every locator and entry pointing at each
  other. `Lanes` says what each lane holds (the settling id is the one before the
  open; an unused lane is empty; a claim is left while a batch settles), `Located`
  that locators and live entries are inverse to each other, so older locators
  are recognised, `Reserves` that the pending value is the settling batch's
  payout before its roll and its unassigned rest after it, `Finite` that the sums
  are of finite sets.
* `ReserveCovers` and `ClaimsPaidOnce` are `Spec => []P` for the run's invariants;
  `EscrowCorrect`, `SupplyCorrect` and `TypeCorrect` for the three parts of `BooksBalance`,
  which is `BooksAreBalanced`; `RollIsFinal` is `Spec => RolledOnce`.
  `TypeCorrect` says that no amount goes below zero. The claims the miner pays are guarded in the model as the checked
  subtractions of the code are, so these theorems hold of executions in which
  no claim reverts; that none does is the next.
* `ClaimsAreCovered`: two strengthenings of `Inv`. `Filled`: a closed batch holds the
  tokens of its claims until its roll, so at the roll the floored shares fit the
  rolled payout (`PortionsFit`), and from then on each payment takes its own share out
  of both sides. `Backed`: a reserve that is not zero leaves the claimable
  balance its sentinel wei; after game over what is pending is covered by winnings and
  custody; after the sweep it is but for the two wei that the sweep's sinks share, and the
  shortfall is never more than these.
* `StayersKeepWorth`: who leaves is paid the floored share of the free money that its
  tokens are of the base, and `LeaverPaid` is the arithmetic of it: the products on
  the two sides differ by the remainder of a division. Everything else after game over
  moves tokens, or money that only adds to what is free.

Checks and generators (`DataProofs`, `GateProofs`; one assumption per tool: finite sets of units,
roots, names and functions, no name of a brace or of nothing among the modules,
catalogs that are finite lists, finite sets of slots, and the widths and slots of `MemoryGuardAssumption`). Each tool runs by itself, so its steps
preserve its own invariant and leave every other tool's variables alone (`ToolsApart`);
the theorems hold of sources, import graphs and histories of any size, where a run
takes a few tokens.

* Closures and scans. A closure is a number of rounds of a step (`Grown`), a scan a
  recursive function over a sequence (`Scanned`). That they exist is an induction over
  naturals, in the form of sets (`EveryNatural`, from the well-foundedness of `<`): by it
  `GrownRounds` and `ScanExists` build the function and give it its recursion. As many rounds as the domain has elements reach a
  fixed point (`Saturates`, `RoundsStay`); a property that the step preserves holds of what they reach (`RoundsHold`).
* `GatesInputs`: `GatesSpec => []InputsCaptured`. A walk holds the directories it entered and those it
  still owes, and what it owes is entered or aliased (`Walk...`); the imports, the scope and the
  build identity are fixed points that contain their start (`ClosuresHold`); what
  Slither and the ledger proofs say is pinned to what they were given (`InputsInv`).
* `GatesSites`: `GatesSpec => []SitesReviewed`. Counts of reviewed occurrences are counts of all
  (`SitesCounted`), equal tags have equal preimages (`TagsTellApart`), the evaluator's
  stack is the machine's reversed after every opcode (`PrologueStep`, one lemma per way a stack moves),
  an allowance is the deployed contract's, and the names of a queue are a closure over
  its aliases (`QueueHolds`).
* `GatesRows`: `GatesSpec => []RowsReviewed`. Writes and rows determine each other (`WritesAreRows`,
  `RowsAreWrites`) through what a reference may refer to (`RefersWithin`); unchecked blocks of two
  files with the same keys match in order, because ordinals grow with the line (`OrdinalsGrow`).
* `GatesCalls`: `GatesSpec => []CallsReviewed`. For the extractor this is exactly which calls of any
  file it lists and as what, the layouts that hide a call included (`CallsListed`); it does not say that
  every call is listed, which is false (section 5). The extractor and the code are read side by side, token
  for token (`Agree`): the brace depths agree, `inside` is being within assembly, and the
  statement under way is under `try` exactly just before a tried call and among its arguments
  (`BracketedNext`, `HeadsNext`). A block of assembly opens on a line exactly if the keyword and its brace
  stand there (`OpensWhereItSays`), so the lines of assembly are those on which it opens or past which
  it goes on (`AssemblyLinesAre`), and each call's row follows (`RowOfCall`).
  `Levels`: every level of the target stack, the top one and those an end of block will uncover, is the
  last assignment still visible at its depth. A call that is safe reaches no
  state the search would report (`ReachesSafe`), and every state the code can be in at a
  delegatecall is one the route search visits (`RouteStep`).
* `GatesScopes`: `GatesSpec => []ScopesExact`. A signature waits only in a contract, so a function is never but
  the second open brace (`Shaped`). The stack of every brace has the depth, the waiting name and, level by level, the
  names of the truth (`FollowsTruth`); the external-call extractor's stack is the body the truth is in (`BodyStack`), and
  `Keeps` says where along a line of one function's code its signature may differ: still ahead, or
  ended with no brace after it. `KeepsTo` carries the function the extractor gave the line up to each access.
* `GatesMasks`: `GatesSpec => []MaskingExact`. The positions of code are the orbit of the first under `Beyond`, which
  leaps each comment and literal (`CodeAfter`, from the fixed points above); `ScannedTo` ties the mode of the scan to
  where on that orbit it is, and `PutOut` says the text so far is the right one. In a literal the scan
  never stands behind an odd run of backslashes, so the quote it stops at is the least unescaped one (`LiteralOn`).

* `GatesPlans`: `GatesSpec => []RunAsSelected`. A set put in order is listed once by rank (`OrderedIs`), and its slices of a
  given size are disjoint and cover it (`SliceIs`). Shards are filled heaviest first: a root goes to the lightest
  shard and is no heavier than any already placed, so what a shard has beyond any of its roots stays within
  every other's load (`FilledStep`). From these come that each path has one group (`PlainApart`, `BatchesAre`,
  `ForkApart`), that batches keep what was selected and no more (`KeptIs`), and the same of Hardhat's joined folders
  (`DiscoveredIs`, `BatchesJoin`). `SplitInv` follows the forwarded words: files and flags so far are, in order, all
  words so far, and a path is a flag only after an option that takes a value. The job that
  runs a test is found by its weight and its partition's seed (`JobsHold`).
* `GatesCensus`: `GatesSpec => []CensusTrue`. `RunInv` is what is true of a run and its log as they grow: of each
  slot the log has as many creates less clears as the slot went from clear to set, and a create is
  one again exactly if an earlier transaction's clear precedes it (`TransactHolds`). Reading a log, the count after
  each event is that of the events so far (`TallyInv`); reading the runs, that of the newest of each
  scenario so far (`RunsAlong`). A window is the first below a create at a
  multiple of its length (`WindowIs`, `WindowsHave`). For the labels, members laid out in order leave no slot below the end uncovered
  and share only slots they fit in (`LaidWell`, `FieldsLaid`), so the variables over a slot are all of one
  slot or a single one (`OverIs`). The names of a struct, an array or its words are right if those of what is in it
  are (`StructStep`, and a lemma for each kind and depth), which gives values, flat types, structs and
  what nests them, and so every layout (`VariablesOk`).
* `GatesMoney`: `GatesSpec => []MoneyConserved`. A sum is a scan (`Added`), so sums of combinations are combinations of sums
  (`AddedTogether`): what is borrowed in aggregate is what the tickets are worth one by one. `Century` is
  what all levels up to one cost together, 900 a hundred levels: by `PriceStep` it grows by
  at least each price, so 98 levels cost at most 900 wherever they begin (`PricedWindow`), while a rate is at most
  1000 (`RateIs`); with the award at most a fifth more, the principal stays below the cost
  for every quantity (`PrincipalBelow`), where the script tries 1000. A hundred levels later each level has the same
  price, rate and parity (`PeriodIs`). Rounded-down shares of at most the whole fit the pool (`SharesFit`).

Model-checked only: `Progress`, `InterruptedEnds` and `SelectedWorkRuns` (fairness and
`ENABLED` are out of the prover's reach); and of the gates `OddsTrue`, whose definitions fold over
enumerations of lane flags. Every other property of a passing run is a theorem.

## 5. Findings

* `attribution`: `enclosing_functions` (`lib/rng_window_extract.py:200`) keeps, for a
  line, the scope at its last character. An access in a body that opens and closes
  on one line, as in the accessors of `DegenerusGameStorage.sol:479`, is recorded under
  no function, although the docstring (line 8) says every access is tagged
  with its enclosing one. `UsesAttributed` states what does hold: every access whose body
  does not end, and before which no other begins, on its line.

Met while modelling, and represented in the models as the code has them:

* Contracts. The comment on the retry bit (`DegenerusGameStorage.sol:483`) says it is set
  "by a coordinator swap's re-issue"; it is set only for a request under the daily lock
  (`DegenerusGameGameOverModule.sol:1143`), so a re-issued mid-day request can still be
  retried once. `DegenerusAdmin.sol:617` calls counting today's balance against the
  snapshot safe because "VRF dead = supply frozen", but `sDGNRS.burn` and the pool
  rewards stay open during a stall; what holds is that the tallies stay within the snapshot
  and what was handed out since (`TalliesAreVotes`).
* Scripts. The Foundry runner and the campaign do not ignore signals in their finally
  block, so a second signal there leaves patched files (`cut` in `UserFilesBack`; Hardhat
  ignores them first). A signal inside `Popen` leaves a child no handler knows of
  (`leaked`). SIGKILL leaves the pins patched. A Foundry runner takes no lock on its
  checkout, so two in one checkout may back up each other's patched pins; only the cast
  with one checkout each is in the run. It also compares identities before and after
  only, so an edit and its undoing between them goes unseen, which Hardhat's capture
  hook notices. `select-profile`'s `CalledProcessError` is not among what the Hardhat
  runner's except clause takes, so that run ends without a row.
* Extractors. The comment stripper drops an escaped newline inside a string and with it the
  line count.
* The call extractor matches line by line (`lib/external_call_extract.py:259-283`). A call whose
  member stands on the line below its receiver matches no pattern: `quests` /
  `.handleFoilPurchase(...)` of `DegenerusGameFoilCore.sol:416-417`, in its default scope, is in
  no row of its output and in no row of `advance-call-manifest.tsv`. Nor is a Solidity call listed on a
  line on which assembly opens or past which it goes on, an opcode on the line that only closes its block,
  or one in a block whose brace is below the keyword. The docstring (32-33) says "every
  syntactic call is reported", and the gate built on it (`check-advance-calls.sh:8`) that every external
  call site must be registered: a new call in such a layout passes it. `CallsListed` states exactly what
  is listed: of a call with a known receiver, these layouts hide it and no others do.
* The call extractor looks for a `try` anywhere in the statement before a call
  (`external_call_extract.py:294`), so a call among the arguments of a tried one is recorded as `TRY`,
  though its revert is not caught and the docstring (23) says "directly under `try`"; no such call is in the
  contracts at present, and `CallsListed` has the mode as the code gives it. A receiver the
  extractor has no declaration or cast for, and options spread over lines, hide a call too; `CallSites`
  leaves options and unknown receivers out.
* Other extractors. A root passed directly as a storage argument where no binding of
  its type exists is not followed; chained aliases, returned references and mapping-typed
  parameters are not recorded. The taint gate sees a parameter only under a word-shaped
  name and drops rows at file scope. Unchecked blocks are keyed by their first statement. An
  extractor that raises leaves its gate comparing no rows.
* Others. A rebuild in the middle of an analysis passes both validations of the Slither
  gate (`rebuilt` in `AnalysedIsCurrent`). The ledger proofs copy the sources but link
  `node_modules` and `lib` to the live checkout. The queue-codec gate sees parameters only in
  files that name the queue, and aliases only where they are declared. The route generator's
  value search ignores assignments to parameters that received arguments.

## 6. Not modelled

Of the engine: the components with status `not_modelled` in `PROJECT.json` (loans, Coinflip,
FLIP, WWXRP, quests, affiliates, bounties, passes, boons, tokens of ownership) keep
balances, streaks and referrals and neither ask for randomness nor hold a session up; where
the engine waits for one of them, it is a latch of the models above. Views, renderers,
generated addresses, mocks and deployment scripts hold no state. Of the
tooling: section 2.3. The amounts of the engine's pools are the largest part that a further model could add:
pools, pending pools and `claimablePool` through freeze, drain and sweep, with the
theorem that obligations never exceed backing.

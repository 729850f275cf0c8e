# Eternal AI: TLA+ specifications and proofs

Eternal AI runs AI inference as an on-chain market: a user pays for a prompt, the
contracts choose GPU owners ("miners", "workers") that have staked wEAI, the chosen ones
answer, and the answer is checked, paid for, or penalised. The repository is large (agent
launchers, servers, SDKs, forks of other projects). This directory specifies its core, the
Solidity kernel in `src/ai-kernel/contracts` and the Go miner client in
`src/decentralized-compute/miner`, and the two services around it that move money under
concurrency: the betting game of `src/ai-architectures/agent-battle` and the inference fees
of the agent backend in `src/agent-as-a-service/agent-orchestration/backend`. TLC
model-checks the modules; TLAPS proves their safety properties for all parameters.

## 1. Inventory

| component | source | state it keeps | operations | model |
|---|---|---|---|---|
| WorkerHub (v1) | `ai-kernel/contracts/WorkerHub.sol` | inferences, assignments, vote counters, the fees it holds | infer, seizeMinerRole, submitSolution, commit, reveal, resolveInference, pause | `WorkerHub` |
| StakingHub (v1) | `StakingHub.sol` | models, miners and their stakes, the available miners per model, unstake requests, epochs and rewards | register/unregister, join, force-change, stake/unstake/restake, slash, claim, the owner's settings | `StakingHub`, seen by WorkerHub as `MinerRegistry` |
| Set library | `library/Set.sol` | an array and the positions of its values | insert, erase, hasValue | `AddressSet` |
| HybridModel (v1) | `HybridModel.sol` | its own pause, its fee | infer (forwards to WorkerHub) | environment of `Infer` |
| PromptScheduler (v2) | `PromptScheduler.sol` | inferences with one miner, batches with the validators' fees | infer, submitSolution, pause | `PromptScheduler` |
| miner client | `decentralized-compute/miner` | scan position, task queue, sets of taken and finished tasks, in memory | a scanner and an executor goroutine | `MinerClient`, over `PromptScheduler` |
| agent battle game | `ai-architectures/agent-battle/internal` | one document per game in a database, a lock document, token wallets on chain | watch loop, results, end, refunds | `BattleGame` |
| agent backend | `agent-orchestration/backend/services` | posts and balances in a database, flags of running jobs in memory, a cache | create, poll (jobs and API), pay, refund | `AgentInference` |
| GPUManager (v2) | `GPUManager.sol` | as StakingHub, models by number | as StakingHub, and the choice of a miner | `refused` and the miner of `Infer` in `PromptScheduler` |
| ModelLoadBalancer | `ModelLoadBalancer.sol` | groups of clusters, a round-robin anchor each | create/remove group, add/remove clusters, infer | not modelled |
| ModelCollection, tokens, treasury | `ModelCollection.sol`, `tokens/`, `wEAI.sol`, `Treasury.sol` | ERC-721/20 balances | mint, transfer, wrap | not modelled |
| other servers, agents, launchpad, CLIs | elsewhere under `src/` | databases, third-party APIs | | not modelled (section 8) |

**Interactions.** A user calls a model contract (HybridModel), which forwards the fee to
`WorkerHub.infer`. WorkerHub asks StakingHub which miners serve the model, and calls its
`slashMiner` in every settlement; StakingHub knows nothing of inferences. In v2,
ModelLoadBalancer picks a cluster and calls PromptScheduler, which asks GPUManager for one
random miner. The miner client reads events off the chain, takes the tasks assigned to it,
and sends `submitSolution` transactions. Each transaction is atomic: what makes the
contracts concurrent is the order in which independent senders' transactions are mined, and
the blocks that pass between them. The battle game and the agent backend are processes over
a shared database: several loops and HTTP handlers read a document or a row, call a chain
or an engine, and write back what they read, changed.

**What is hard.** In the contracts: the deadlines of one inference against the senders'
order; one balance for all open inferences, and in StakingHub one for stakes, withdrawals
and rewards; a settlement that fails as a whole because one worker is no longer registered;
votes counted incrementally and compared with numbers fixed earlier; phases that nobody is
obliged to end; a penalty that must outlive leaving and coming back. In the client: a scan
position that moves on whatever happened, memory lost in a restart, a transaction mined
after one has stopped waiting for it. In the services: side effects that cannot be undone
(token transfers, prompts) before a write that may fail or be refused; locks that lapse;
flags that are read, released and then set. `PROJECT.json` lists each hazard at its line
with the properties that cover it.

**What makes each component correct.**
WorkerHub: the tallies equal the votes, one winner, only the workers that failed are
penalised and only after their deadline, each fee leaves once, each inference ends.
StakingHub: the two sets of available miners agree, penalties are served, stakes and
withdrawals stay in the contract although rewards are paid from the same balance, every miner
is rewarded for the service it gave and for no other, and WorkerHub sees the registry it
relies on.
PromptScheduler: the fee of an inference is held until it is solved and split once, and the
validators' part goes to the batch of the inference.
Miner client: a task assigned to this miner is noticed, and it is lost only for a cause one
can name; what counts as done was accepted.
Battle game: every transfer is made once or is known to have been lost, no write takes a
record of a transfer away, the scans miss no bet between them and take none twice, a completed
game owes nothing, a game whose time is over ends, a result is settled.
Agent backend: no balance is overdrawn, a post pays the store owner or is refunded, once,
and neither the post nor its fee stays open.

## 2. Modules

| module | what it is |
|---|---|
| `MinerRegistry` | what WorkerHub relies on of StakingHub: registered models, available miners, `Slash` |
| `WorkerHub` | `WorkerHub.sol`: one action per external function |
| `InferenceEscrow` | the abstract money contract: hold, then refund or pay out, once |
| `WorkerHubProps` | the properties, the fairness, the refinement mapping to `InferenceEscrow` |
| `StakingHub` | `StakingHub.sol`: one action per external function that changes what is modelled |
| `StakingHubProps` | its properties and the refinement mapping to `MinerRegistry` |
| `AddressSet` | `Set.sol`: the array and its positions, with the specification of a set and the proofs |
| `PromptScheduler` | `PromptScheduler.sol`, for one model |
| `MinerClient` | the miner program, composed with `PromptScheduler` (EXTENDS) |
| `MinerClientProps` | the properties of both |
| `BattleGame`, `BattleGameProps` | one game of agent-battle and its properties |
| `AgentInference`, `AgentInferenceProps` | the posts of the agent backend and their properties |
| `MCWorkerHub`, `MCStakingHub`, `MCMinerClient`, `MCBattleGame`, `MCAgentInference`, with `.cfg` files | instances for TLC |
| `WorkerHubProofs`, `EscrowProofs` | theorems about WorkerHub: its votes, phases and penalties; its money |
| `StakingHubProofs`, `MinerClientProofs`, `BattleGameProofs`, `AgentInferenceProofs` | theorems about the other components |
| `SumLemmas` | induction over finite sets, and what sums over sets are |

### How WorkerHub maps to the code

An *assignment id* of the code is the pair (inference, worker): `_assignMiners` gives a
worker at most one assignment of an inference. The fields of `Assignment` and `Inference`
become functions over these; `role` is `Mining` exactly for `processedMiner`. A digest is
the answer it hashes, a commitment the answer it binds: the hash covers the sender, so a
copied commitment opens to nothing, and one that opens to nothing is one whose worker never
reveals. The nonce and the output are set exactly when the digest is. `penalties` records
the `slashMiner` calls an inference made (in the code: events and StakingHub's state).
The DAO token amounts of `_filterCommitment` are computed and never used, so they are left
out; so is the referrer table.

`reveal` calls `resolveInference` when it is the last one announced; the action `Reveal`
contains that call. `resolveInference` is three `if`s in sequence of which at most one can
apply in a transaction (none of them sets a status a later one tests), hence three
disjuncts; a call that changes nothing is a stuttering step. A settlement is one
transaction: a transfer the balance does not cover, or a `slashMiner` that reverts, undoes
all of it, so it is a guard (`Slash` requires every worker to be available).

Arithmetic is the code's integer division. Balances are unbounded naturals: the widths of
the code (256 bits) are out of reach of any supply, and the 8-bit vote counters count at
most `minerRequirement` workers, 8 bits wide itself.

### How StakingHub maps to the code

A record of `miners` is the `Worker` of the code with the miner's entry of `boost` (`reserved1`
and `minerTimestamp` are `reserved` and `since`); its `tier` is the flag `registered`. A reward
is the rate times the epochs since the last claim, times the `Multiplier` of the time of
service when it is worked out, so that a growing boost and a new rate also count for epochs
served before. A block is the unit of time, `BoostPeriod` of them are the 30 days after which
the boost grows. `minerAddresses` and `minerAddressesByModel` are sets here; that the arrays of
`Set.sol` behave as sets is proved in `AddressSet`. Inserting a member or erasing a non-member
reverts, so these are guards. Every function starts by bringing the epoch up to date, epoch by
epoch until the present: what it computes only depends on the block, so `CurrentEpoch` is a
definition and not a variable. The choice of a random model is an existential quantifier. The
clock is the block number, for timestamps too. The history variables `served`, `onDuty`,
`rewarded`, `bannedUntil`, `raised`, `lowRate` and `topRate` are read by no action.

### How PromptScheduler and MinerClient map to the code

An inference id is the position in `infers`. A batch is a division of time, so which
inferences are in it follows from when they were born; `CreditedBatch` is the code's test of
the first inference of the *current* batch, which reverts when the batch is empty. Who may
answer, by GPUManager's `validateMiner` or the pause, is the set `refused`, which changes at
any time.

The client's two goroutines are the actions of the scanner (`ScanBegin`, `ScanEvent`,
`ScanEnd`) and of the executor (`Dequeue`, `Execute`, `Mined`, `Submitted`, `TimedOut`);
names of variables are those of the code. `ScanBegin` has one disjunct for each of the ways
in which its calls to the node may fail: a failed call for the head reads as block 0. A
scan ends at the first event that is not ours (`getPendingTask` returns an error for it),
and the position moves on: the events it did not get to go into the history variable
`skipped`. Blocks are counted from the first that holds an inference, so a scan without a
position may start before block 0; `FromBlock` cuts it there. The
queue blocks the scanner when it is full. A transaction nobody waits for any more, after a
timeout or a restart, is in `late` and may still be mined, or revert.

### How BattleGame maps to the code

The document of a game is the record `game`; each process has a private copy `loc[p].doc`
and the name of its next step. The control of each flow is that of the functions of
`usecase.go`; a step is one transfer, one write or one other call to the chain, since other
processes run between any two of these. `updateGame` replaces the document only if its
modification date is the one the copy was read with (`DateMatches`, the flag `fresh`); it
moves the copy's date on before the write, so that after a failed write the flow can not
write any more. A transfer has four outcomes: sent; sent and reported as an error; failed;
or, for an amount of 0, a panic, since zero is encoded as a nil integer. The deferred
function of `markCompletedGame` runs after an error without, and after a panic with, the
status Completed (`Failed`, `Panicked`). Amounts are rounded half up as `CryptoAmount.Round`
does, in whole tokens. Bets are numbered in the order in which they land; `BlockOf` and
`TxOf` say in which block and by which transaction. Both scans know a record again by its
sender and its transaction (`SameRecord`), so `NewRecords` takes of what a scan found only the
first transfer of a sender in a transaction. The tokens of a further one stay in the agent's
wallet, neither played nor refunded.

### How AgentInference maps to the code

A post is created in one database transaction whose reads take no lock, whose charge locks
the payer's row, and which calls the engine before it commits: its steps are the actions
`Create...`, and a rollback undoes the charge but not the engine's work. `JobRunCheck` is
two actions, `JobCheck` and `JobEnter`, because it releases the mutex in between. An update
reads the post (`Read`), asks the engine (`Poll`) and writes (`Write`), each on its own. A
post's age is counted in the windows between which the jobs' queries differ: under 12
hours, to 24, to 30, to 36 and over.


## 3. Runs

| run | instance | what it shows |
|---|---|---|
| `vote` | 1 inference, 4 workers (threshold 3), 2 answers, 2 models, all workers join, leave, are moved to the other model; the owner unregisters a model and pauses; commit and reveal windows of 2 blocks | tallies, phases, single winner, two-thirds payment, no penalty for honest workers, final commitments, penalties only after the deadline |
| `escrow` | 2 inferences, 3 of 4 workers each (threshold 2), a fee of 15 that leaves a remainder at every division | solvency, dust, `InferenceEscrow` implemented |
| `progress` | 1 inference, 3 workers, one of which may leave and return, pauses | every phase the code ends does end, under fairness |
| `stuck` | 1 inference, 3 workers | **violated**: the comment at `WorkerHub.sol:547` |
| `unseized` | same | **violated**: the comment at `WorkerHub.sol:526` |
| `staking` | 2 miners, 2 models, one of the miners does everything a miner can do; minimum stake 2 or 4, rate 10 or 20, a fine of 75 %; epochs of one block, a boost that grows every block, penalties of two | sets agree, penalties served, stakes backed, rewards earned, `MinerRegistry` implemented |
| `miner` | 3 inferences for this miner or another, 4 blocks, batches and deadlines of 2 blocks, a queue of 1, look-back of 1 block, one fault | funds conserved, fees in their own batch, no task lost without a cause, every task noticed |
| `race` | 2 watchers and a handler, 3 bets (two on one agent, whose prizes both round up, one on the other), one result | no record overwritten, transfers accounted for, the game solvent |
| `faults` | 1 watcher and a handler, 4 bets in 3 blocks (two whose prizes both round up, a second transfer by one transaction, one of nothing), 2 results, one fault | transfers accounted for, the scans follow the bets, completed means settled |
| `live` | 1 watcher and a handler, 2 bets, one result, one early end | games end, results are settled unless an end is under way, under fairness |
| `lost` | the same without early end | **violated**: the comment at `usecase.go:154` of agent-battle |
| `inference` | 1 post for an agent or a user, 2 jobs, 1 API call, one outage | no overdraft, settled once, jobs exclude each other, posts end, an agent's fee is spent or returned |

**Bounds of WorkerHub.** `MaxInferences` and `MaxBlock` bound the counters; an inference is
only requested when all its deadlines pass before `MaxBlock`, so no behaviour ends with a
window open. `Churners`, `Retirable` and `MayPause` say which of the environment's steps an
instance has. Four workers are the smallest number for which the threshold (3) is neither
half nor all of the workers and a vote can be lost by a miner, tied, short of one reveal or
short of one commitment; three give the threshold 2, where one silent worker does not
matter. Two inferences are enough for what they share, a balance and workers: nothing in
the code relates three. Windows of two blocks distinguish "before", "at" and "after" each
deadline. Workers and answers are symmetric; `progress` and the violated runs use no
symmetry. `vote` checks for deadlock (the pause keeps it from one); the others stop when
the clock has reached `MaxBlock` and say so.

**Bounds of the other runs.** All stop at their bounds and do not check for deadlock.
`staking`: a `Funding` of 20 lets the condition of `StakesBacked` be true and false, and claims
fail for want of tokens; with a `BoostPeriod` of one block the boost grows between any two
claims; `MaxBlock` 3 and a penalty of 2 let a miner be slashed, serve the penalty and come
back; `StakeCap` bounds what miners deposit, and 4 is enough for one full stake of the higher
minimum or two of the lower; `MaxSettings` bounds the owner's changes, two of which raise and
lower again, or unregister and register again; `Churners` restricts all but registering and
joining to one miner, the other being the one whose stake could be taken. `miner`: three
inferences are one in the executor, one in the queue and one the scanner waits with; four
blocks of two-block batches let a solution come in the batch after its own, and in an empty
one. `race` and `faults`: `NumBets`, `NumBlocks`, `MaxResults`, `MaxEnds` bound the inputs;
what `race` leaves out (faults) `faults` has, and two watchers are enough for a lock that two
can hold. `MaxFaults` and `MaxOutages` are one in each run that has them: every single fault at
every point. Two faults are possible and only multiply cases that a first fault has already
made accounted for. `inference`: posts do not interact but through the payer's balance, which
`OtherCharge` changes at any time.

**What holds only with a proviso**, and therefore what a reader should know of the code:
`StakesBacked` needs rewards to be provided for: stakes and rewards are one balance, and a
claim only fails when all of it is too small, so that rewards beyond `Funding` are paid from
stakes. It also needs the minimum stake not to be raised while miners are available, since a
fine is a part of the new minimum and is paid in full by the contract. `RewardsEarned` bounds
rewards between the lowest rate without and the highest rate with the whole boost, since a new
rate and a longer service also count for epochs served before and not yet claimed; with one
rate and no boost the bounds are equal. In the block `commitTimeout` a commitment is still
accepted and a reveal already (`WorkerHub.sol:331`): the last reveal announced so far settles
the vote and deactivates a validator that might commit in that very block, so
`PenaltyOnlyAfterDeadline` counts the block as past the deadline. `NoCommitAfterReveal` shows
that this is the only harm: the first reveal closes the commit phase. `FeesInOwnBatch` needs
deadlines of at most one batch period. `TasksAccounted` names the ways a task is lost: a scan
that ends early moves on (`skipped`), a restart looks back ten blocks (`outOfReach`), the
executor tries once (`dropped`). `PaymentsAccounted` does not say that nothing is paid twice:
what is in `lost`, and what two watchers send at the same time, is paid again. `BetsFollowed`
speaks of the first transfer of a sender in a transaction only, and of games whose first scan
looks back over all bets. `ResultHandled` leaves out a result that is overwritten by an end:
`lost` shows that the watch loop itself does that. `SettledOnce` excludes posts on which two
updates overlapped, as an API call may: there the owner is credited twice.
`JobsExcludeEachOther` is about one process: the flags of running jobs are in its memory, and
two instances of the backend would not see each other's. `AnswerableEnds` and `AgentFeeSettles`
assume that a request to the engine returns, which the helper that sends it does not enforce:
it sets no timeout. A failed post is refunded unless another update, that had polled before,
resolves it (`AgentFeeSettles`): then the fee is spent and the owner credited.
`CompletedSettled` excludes a claim of nothing, which panics and completes the game.
`GameSolvent` needs the prizes to be large against their rounding (`RoundingSmall`): each prize
is rounded half up, and with many winners of tiny stakes the rounded prizes exceed the pool,
what is left for the last one is negative, and its sign is dropped when it is encoded. Four
winners of stake 1 and a fee of 50 % are enough; recorded stakes are multiples of 10^5 units
(`NewCryptoAmountFromBigInt`), so it takes winners in that number.

**The three disagreements.**

1. *stuck* (`WorkerHub.sol:552`). With enough commitments after the commit deadline,
   `resolveInference` executes `inference.status == InferenceStatus.Reveal;`, a comparison
   whose result is dropped. The comment says that the inference moves to its reveal phase.
   If no validator reveals before `revealTimeout`, no call can change the inference again:
   the fee stays in the hub and nobody is penalised.
2. *unseized* (`WorkerHub.sol:531`). The refund of an unprocessed inference, "not seize or
   not submit solution" in the comment, requires `processedMiner != address(0)`.
3. *lost* (`usecase.go:165` of agent-battle's `game_usecase`). The comments say that once a
   result is determined the winners get their prizes, 15 minutes later (`:154`, `:155`). A game
   whose end time passes within these minutes is marked `Ended` instead, as the test
   of the time asks for no status (`:165`), and the loop looks only at games that run or
   have a result (`:143`). The prizes are paid only if the result is given again.

## 4. Fairness

`FairSpec` assumes that blocks are mined until `MaxBlock` and that, for every inference,
somebody calls `resolveInference` again and again while it could do something.
`resolveInference` is public, costs its caller only gas, and the creator's refund and the
workers' fees depend on it. Nothing in the repository calls it off-chain by itself, so a
deployment must provide that caller; the liveness properties say what it can achieve.
Nothing is assumed of the workers: they may stay silent.

The liveness properties carry the proviso `<>[]~Blocked(i)`: `resolveInference` reverts
while the hub is paused, and while a worker it has to slash is not available in StakingHub
(it unregistered, or another inference slashed it). That proviso is a statement about the
code: one such worker holds up the refund or the payment of everybody else.

In `BattleGame`, `FairSpec` assumes that the watch loop runs again (a cron entry starts it
again and again), that a process that has begun a step finishes it, and that clocks and the
minute of the lock pass; it assumes nothing of players or of who reports a result. In
`AgentInference` it assumes that each job comes round to each post in its window (they run
every one to five minutes, a window is hours), strongly, because the flag or the cache entry
may be set at any one attempt; that updates and transactions end; that cache entries expire
and time passes; and it assumes nothing of the engine, which may never answer. In
`MinerClient` it assumes that the goroutines run as long as the process does, and that
`WaitForTx` ends by a receipt or by its hundredth look; nothing is assumed of other miners
and users.

## 5. Abstract specification

`InferenceEscrow` says what the hub promises of money: `Hold` takes a fee from the
creators, `Refund` returns it in full, `PayOut` lets it go but for at most `DustBound`
units. `WorkerHubProps!EscrowSpec` instantiates it with the hub's balance, the creators'
balance and the phase each status stands for; the run `escrow` checks every step, and
`EscrowProofs` proves it. A worker step that is no settlement maps to a stutter.

`MinerRegistry` says what WorkerHub assumes of StakingHub: a set of models and one model for
each available miner, joined, left, changed or slashed atomically. `StakingHubProps` maps a
miner that is available to its model and one that is not to `None`, and
`RegistrySpec` is the abstract specification under that mapping: checked in `staking`, and
proved. So what is proved of WorkerHub holds over StakingHub. `AddressSet!SetSpec` is the
specification of a set, which the arrays of `Set.sol` are proved to implement.

## 6. Proofs

`WorkerHubProofs` proves, for every number of workers, answers, inferences and blocks and
every setting of the durations and percentages:

| theorem | statement |
|---|---|
| `Invariant` | `Spec => []IInv` |
| `TypeCorrect` | `Spec => []TypeOK`, in which balances are naturals |
| `TalliesCorrect`, `PhasesCorrect`, `NoCompleteVoteOpen` | the three other parts of `IInv` |
| `WinnerIsUnique` | `Spec => []SingleWinner` |
| `CommitmentsFinal` | `Spec => NoCommitAfterReveal` |
| `DeadlinesRespected` | `Spec => PenaltyOnlyAfterDeadline` |
| `PaymentNeedsTwoThirds` | `Spec => []PaidMeansTwoThirds` |
| `HonestWorkersSafe` | `Spec => []HonestWorkerSafe` |

*Assumptions.* `NoneAssumption` and `HubAssumption`: the sets of workers and answers are
finite, the four other accounts are no workers, the two protocol percentages together are
at most 100 %, the miner's share is at most 100 %, at least one worker is required. TLC
evaluates them in every run.

*The inductive invariant.* `IInv` is the conjunction of four parts, none of which is
preserved without the others. Types need the phases: the payment divides by the number of
votes, which is positive because the assigned workers are as many as required and the count
reaches their threshold. The phases need the tallies: "no vote is recorded before the
solution" is what makes the counters of a new inference zero. The tallies need the phases:
a worker that seizes the miner role stops being a validator, which does not change the
counters only because nobody can have committed yet. `RevealPhaseIncomplete` needs both: a
reveal adds one to a counter that is at most `totalCommit` because every revealer has
committed, and it settles when the two are equal. TLC checks the four parts in `vote`.

*Single winner.* Two answers' voters are disjoint subsets of the assigned workers, and the
threshold is more than half of them (`ThresholdIsTwoThirds`).

*Payment and honesty.* `FairInv` adds that nobody is penalised before the settlement, and
speaks of settled inferences, whose votes no longer change. The lemma `FairSettle` is the
core: the count that reached the threshold is the number of the answer's voters, and a
worker among the losers gave another answer or none.

*Deadlines.* A settlement that comes early, by the last reveal announced, can only meet
silent validators that did not commit: as many have revealed as have committed, and the one
set contains the other. If they were let in late, the reveal was possible because the commit
window was over, or because all validators had committed, and then none is silent. After a
timeout the deadline of the phase is past; `RevealPhaseIncomplete` excludes that a vote was
complete and merely waiting.

*Money* (`EscrowProofs`).

| theorem | statement |
|---|---|
| `HubStaysSolvent` | `Spec => []HubSolvent` |
| `OnlyDustIsLeft` | `Spec => []HubKeepsOnlyDust` |
| `EscrowImplemented` | `Spec => EscrowSpec` |

Every step is shown to be one of four as far as money goes (`StepMoves`): a fee comes in with
a new inference (`Requested`), goes back whole (`Returned`), goes out but for the dust
(`PaidOut`), or nothing moves (`Idle`). The three theorems follow from that alone. The one
hard case is `PaymentLeavesDust`: the divisor of `shareFeePerValidator`, which the code
derives from the counter of the winning answer, must be the number of validators that are
paid. The tallies say so, and that the miner is one of the voters or one of the others gives
the bound, `minerRequirement - 2`.

### StakingHub

`StakingHubProofs` proves, from `StakingAssumption` alone (any finite set of miners, any
parameters):

| theorem | statement |
|---|---|
| `TypesHold` | `Spec => []TypeOK`: stakes, balances and rewards are naturals |
| `SetsAlwaysAgree` | `Spec => []SetsAgree` |
| `PenaltiesAreServed` | `Spec => []PenaltyServed` |
| `RegistryImplemented` | `Spec => RegistrySpec` |
| `RewardsAreEarned` | `Spec => []RewardsEarned` |
| `BooksHold` | `Spec => []StakesInv` |
| `StakesAreBacked` | `Spec => []StakesBacked` |

The inductive invariant is `TypeOK /\ SetsAgree /\ ClockKept /\ PenaltyServed`. `SetsAgree`
alone is not preserved: leaving takes a miner out of the set of *its* model, so that the
types must say a registered miner has one. `PenaltyServed` is not preserved alone either: a
miner joins by its own `activeTime`, and `ClockKept` says that this is never earlier than
the end of the latest penalty, although unregistering resets most of the record. A step of
the registry is then read off case by case: joining maps to `Join`, leaving and slashing to
`Leave`, being moved to `ChangeModel`, and all that concerns stakes and rewards to a
stutter.

*Rewards.* `Accounted` says, for each miner, that no epoch is claimed ahead or was not served,
that the service the contract counts is no longer than the time on duty, and that what was paid
or is kept for past epochs is within the bounds of the property. `EpochEnds` is the arithmetic
of a new block: the number of epochs grows exactly in the blocks in which the served ones are
counted. A settlement adds the rewards of the pending epochs at a multiplier and a rate within
the bounds (`Paying`); time and new rates only widen these (`MultiplierGrows`,
`ProductGrows`).

*Stakes.* `StakesInv` holds the books: until the minimum is raised under available miners, the
balance and the rewards paid are together what was provided and what is at stake or withdrawn
(`Books`). This alone would not do, as it stays true when rewards eat the stakes;
`PaidIsEarned` takes from *Rewards* that what was paid is at most what was earned, which the
property's premise bounds by `Funding`. The books need that a miner that is not registered has
nothing at stake (`Emptied`), so that registering anew loses nothing, and that an available
miner has the minimum stake (`Sufficient`), so that a fine never exceeds what it is taken from.

### The miner client

`MinerClientProofs` proves, for every number of miners, inferences, blocks and faults and
every capacity of the queue:

| theorem | statement |
|---|---|
| `TasksAreAccounted` | `Spec => []TasksAccounted` |
| `FundsAreConserved` | `Spec => []FundsConserved` |
| `FeesAreInOwnBatch` | `Spec => []FeesInOwnBatch` |
| `TypeCorrect` | `Spec => []TypeOK` |

*Tasks.* The invariant adds what a scan in progress knows: everything ours up to the end of the
range has been dealt with or is still in `left` (`Scanned`), which becomes `Passed`, the
property's first line, when the scan returns and the position moves to the end of the range;
and that an executor with a successful receipt holds a task that is solved (`Done`). `Typed`
says that no event is born above the head and that position and range stay below it, so that an
inference born now can not be below the position already. After a restart `Held` holds because
nothing counts as taken, and `Passed` because there is no position.

*Money.* `BooksInv` counts: an inference solved is one less among the unsolved and one more
of its miner. That a fee goes to the batch of its own inference is a matter of time: the
batch whose first inference the code finds is the current one or, when that is empty, none,
and a solution that is in time cannot be two batches late. The types come last, since the
bounds of the balances are a consequence of the books.

### The betting game

`BattleGameProofs` proves, for every number of watchers, agents, bets, results, calls and
faults, every stake and every fee:

| theorem | statement |
|---|---|
| `TypeCorrect` | `Spec => []TypeOK` |
| `PaymentsAreAccounted` | `Spec => []PaymentsAccounted` |
| `RecordsAreKept` | `Spec => RecordsSurvive` |
| `CompletedIsSettled` | `Spec => CompletedSettled` |
| `BetsAreFollowed` | `Spec => [](NumBlocks <= Lookback => BetsFollowed)` |
| `ScansAreGapless` | `Spec => [](Gapless(game) /\ (game.result <= 1 => no bet is played and late))` |
| `GameIsSolvent` | `Spec => []GameSolvent` |

*Records.* `RecordInv` says of each process (`Traced`) that what it has sent and not saved is
on the way to a write, and that a copy which can still be written records what the document
records and what the process itself sent since. With it, a write adds records and never
takes one away, whoever else is at work; and a copy that can no longer be written gives up
its records to `lost` at its next write.

*Completion.* `SettleInv` carries along the flow of a completion what has been done already:
the fee before the prizes, all claims before the late refunds, everything before the
deferred write, which marks the game completed only if no error came up or a claim was for
nothing (`Completing`).

*Bets.* A document's players are all the senders' first bets in a transaction, from one block
to that of its last scan (`Gapless`). A scan is of whole blocks and a transaction is in one, so
whether a bet is the first is settled by its own block (`FirstInBlock`), and two scans that
meet leave no bet out (`ScanGapless`). The players begin with the first block only if the first
scan looks back that far, hence the premise `NumBlocks <= Lookback`, which the runs' instances
satisfy; `ScansAreGapless` is what remains without it. No bet is both played and refunded as
late because a late one is found only once the result is past its buffer (and only if no
player has its sender and transaction: `LateIsNew`), after which no scan adds players until
a second result is given (`Known`, `Scanning`).

*Money.* What the wallet owes is worked out from the document, and what it has spent was
worked out from copies; they must be shown to agree. `SolventInv` has four parts. `Backed`
and `Following`: stakes are collected only when the game is over, no process that may still
add bets holds a copy that records a collection, and up to the first result only bets on the
winner win. `Frozen`: once the winners are determined, or any process is past the point where
payments begin, the plan (players, amounts, winners, fee, pool) of the document is the one
`DeterminePlayerWinner` gives for it, every process that may pay or write holds the same
plan, and only what the plan owes was paid. A second result ends this, hence the premise
`game.result <= 1`. `Ledger`: what is recorded as collected, in the document or in a copy
that can be written, is at most what the wallet holds and has spent. Given the invariant the
rest is arithmetic. When nothing is left to collect, the collected stakes are `Total`; with
nothing lost or sent twice, a claim is open or was paid once (`OpenOrPaid`), so that open
claims and money spent are all claims (`OpenAndSpent`); and these are at most `Total`
(`ClaimsWithin`), because each of `n` shares exceeds its part of the pool by at most a half
(`SharesRound`), the last winner takes no more than what is left, and `RoundingSmall` says
that something is (`PrizesWithin`).

### The agent backend

`AgentInferenceProofs` proves, for every number of posts, jobs and calls and all fees:

| theorem | statement |
|---|---|
| `TypeCorrect` | `Spec => []TypeOK`: no balance becomes negative |
| `JobsExclude` | `Spec => []JobsExcludeEachOther` |
| `PostSettledOnce` | `Spec => []SettledOnce` |

Types need the row lock (`Locked`): one transaction at a time holds the row of a payer, and
the balance covers its fee from the charge to the commit. A job at work on a post has flagged
it and is alone (`Exclusive`), unless two had found the flag free (`raced`). An update at work
on a post that no other overlapped finds the post as it read it (`Alone`), so it pays or
refunds a post that was neither.

### The set library

`AddressSet` proves that array and positions stay inverse to each other
(`PositionsAlwaysRight`), that a draw by index gives the members and nothing else
(`DrawsAlwaysMembers`), and that the whole implements a set (`ImplementsSet`). The invariant
is inductive as it stands; the care is in `EraseKeeps`, when the erased value is the last.
It is not among the runs: the proofs cover every set of addresses.

### Sums and induction

The installed provers cannot instantiate a theorem that takes an operator as a parameter, as
the library's induction theorems do. `SumLemmas` therefore states induction over *sets*:
a set of numbers that contains 0 and with each number the next contains all
(`NumberInduction`), and likewise for the subsets of a finite set (`SubsetInduction`); both
follow from the well-foundedness of the natural numbers. From these it derives what the
modules' sums, folds of the community modules, do when an element is added, taken out or
changed (`SumAdd`, `SumWithout`, `SumChange`) or a set is split into what is open and what
is done (`SumParts`), whatever the order the fold chooses.

### Only model-checked

Liveness (`progress`, `live`, `AnswerableEnds`, `AgentFeeSettles`, `TaskNoticed`) and what
depends on fairness, which the prover does not express. Every safety invariant and action
property of the passing runs is a theorem.

## 7. Plan

Done: all modules and runs of section 3, and the theorems of section 6.

Left:

1. `GPUManager` as a variant of `StakingHub` that implements the registry
   `PromptScheduler` relies on, and `ModelLoadBalancer` over `AddressSet`.

## 8. Not modelled

*GPUManager* repeats StakingHub's functions with models named by number; PromptScheduler
needs of it who may answer and one miner drawn. What differs is local: `_updateMinerState`
overwrites the time stamp before it adds up the time since (`GPUManager.sol:354`), so that
the boost never grows, and `setMinerMinimumStake` assigns its parameter to itself (`:87`).
*ModelLoadBalancer* chooses a cluster within one transaction; removing a group deletes the
array of its clusters and leaves the positions (`:82`), so a group of the same name cannot
take them again. *ModelCollection*, tokens, treasury and the transfer helpers are library
code and wrappers. *HybridModel* checks and forwards.

Of the modelled components: the start of service the contract assumes for miners that joined
before there was a boost (time stamp 1716046859), the reward stored per epoch (no
function reads it), the setters of parameters that are constants here, gas, contract
upgrades, reorganisations of the chain, recipients that refuse a payment. Of the services:
listings, settings, authentication, creation of wallets, and all of the agent backend but
the posts' fees. The inference server, the CLIs and the SDKs read and call what is
modelled; the launchpad is a fork of Uniswap v3.

By count of lines most of the implementation is contract bindings generated from ABIs and
third-party clients of the agent backend; the contracts themselves are Solidity. The map
therefore covers a small share of the repository's Go code while it covers the contracts that
carry the protocol.

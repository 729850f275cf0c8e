---------------------------- MODULE PromptScheduler ----------------------------
(***************************************************************************)
(* The scheduler contract of the second version, for one model: it takes   *)
(* the fee of an inference, assigns it to one miner and to the batch of    *)
(* its moment, and pays the miner when the solution comes in time.  What   *)
(* is left of the fee is noted for the validators of a batch.              *)
(*                                                                         *)
(* "block" is the block being built; blocks are assumed to come at an even *)
(* pace, so that a batch period is a number of blocks.                     *)
(***************************************************************************)
EXTENDS Integers, Sequences, FiniteSets, FiniteSetsExt

CONSTANTS
  Miners,          \* the miners of the model
  MaxInfers,       \* bound on the inferences
  MaxBlock,        \* bound on the blocks
  ModelFee,        \* the fee the model charges
  MinerRatio,      \* _minerValidatorFeeRatio, in percent
  SubmitDuration,  \* blocks a miner has
  BatchBlocks      \* blocks of a batch period

ASSUME SchedulerAssumption ==
  /\ Miners # {} /\ MaxInfers \in Nat /\ MaxBlock \in Nat \ {0}
  /\ ModelFee \in Nat /\ MinerRatio \in 0..100
  /\ SubmitDuration \in Nat \ {0} /\ BatchBlocks \in Nat \ {0}

VARIABLES
  block,        \* the block being built
  infers,       \* _inferences: their processedMiner and block of creation, in order
  solved,       \* the inferences in status Commit
  validatorFee, \* validatorFee[b] of batch b
  refused,      \* the miners that may not answer: not active in GPUManager, or all when paused
  held,         \* wEAI of the scheduler
  earned        \* earned[m]: wEAI paid to miner m

contract == <<infers, solved, validatorFee, refused, held, earned>>

BatchOf(b) == b \div BatchBlocks
Batches == 0..BatchOf(MaxBlock)
Ids == DOMAIN infers
BatchIds(b) == {i \in Ids : BatchOf(infers[i].born) = b}

SchedulerInit ==
  /\ block = 1 /\ infers = <<>> /\ solved = {} /\ refused = {}
  /\ validatorFee = [b \in Batches |-> 0]
  /\ held = 0 /\ earned = [m \in Miners |-> 0]

NextBlock == block < MaxBlock /\ block' = block + 1 /\ UNCHANGED contract

\* The owner pauses or unpauses, or miners join, leave or are slashed in GPUManager.
SetRefused(S) == refused' = S /\ UNCHANGED <<block, infers, solved, validatorFee, held, earned>>

\* infer, with the active miner GPUManager draws.
Infer(m) ==
  /\ Len(infers) < MaxInfers
  /\ m \notin refused
  /\ infers' = Append(infers, [miner |-> m, born |-> block])
  /\ held' = held + ModelFee
  /\ UNCHANGED <<block, solved, validatorFee, refused, earned>>

-----------------------------------------------------------------------------
\* The last two lines read the first inference of the current batch, which reverts
\* when there is none.
Resubmittable(m, i) ==
  /\ m = infers[i].miner
  /\ m \notin refused
  /\ block <= infers[i].born + SubmitDuration
  /\ BatchIds(BatchOf(block)) # {}
Acceptable(m, i) == Resubmittable(m, i) /\ i \notin solved

MinerFee == (ModelFee * MinerRatio) \div 100

\* The current batch, or the one before if the current one starts later.
CurrentBatch(i) == BatchOf(block)
CreditedBatch(i) ==
  BatchOf(block) - (IF i < Min(BatchIds(BatchOf(block))) THEN 1 ELSE 0)

SubmitSolution(m, i) ==
  /\ Acceptable(m, i)
  /\ solved' = solved \cup {i}
  /\ held' = held - MinerFee
  /\ earned' = [earned EXCEPT ![m] = @ + MinerFee]
  /\ validatorFee' = [validatorFee EXCEPT ![CreditedBatch(i)] = @ + (ModelFee - MinerFee)]
  /\ UNCHANGED <<block, infers, refused>>
=============================================================================

---------------------------- MODULE MinerClientProps ----------------------------
(***************************************************************************)
(* What the miner program and the scheduler contract should guarantee.     *)
(***************************************************************************)
EXTENDS MinerClient

\* The variables stay in their types; in particular no miner is paid more than its
\* share of the inferences there are (the fees of submitSolution).
TypeOK ==
  /\ block \in 1..MaxBlock
  /\ infers \in Seq([miner : Miners, born : 1..MaxBlock]) /\ Len(infers) <= MaxInfers
  /\ solved \subseteq Ids /\ refused \subseteq Miners /\ seizeMinerRoles \subseteq Mine
  /\ validatorFee \in [Batches -> 0..(ModelFee * MaxInfers)]
  /\ held \in 0..(ModelFee * MaxInfers)
  /\ earned \in [Miners -> 0..(MinerFee * MaxInfers)]
  /\ currentBlock \in 0..(block - 1)
  /\ scan \in [pc : {"rest", "scan"}, to : 0..(block - 1), left : SUBSET Ids]
  /\ tasksQueue \in Seq(Mine) /\ Len(tasksQueue) <= QueueCap
  /\ exec \in [pc : {"wait", "execute", "sent", "mined"}, task : {0} \cup Mine, ok : BOOLEAN]
  /\ late \subseteq Mine /\ TaskChecker \subseteq seizeMinerRoles
  /\ faults \in 0..MaxFaults
  /\ skipped \subseteq Ids /\ outOfReach \subseteq Ids /\ dropped \subseteq Mine

\* The scheduler holds the whole fee of every unsolved inference and the validators'
\* part of every solved one, and each miner has its part of each inference it solved,
\* once, however often the client sends a solution (restart, slow transaction).
FundsConserved ==
  /\ held = ModelFee * Cardinality(Ids \ solved)
            + SumFunctionOnSet(validatorFee, Batches)
  /\ \A m \in Miners :
       earned[m] = MinerFee * Cardinality({i \in solved : infers[i].miner = m})

\* The validators of a batch get the fees of the solved inferences of that very batch,
\* solved during it or after it ended, as long as a miner has at most one batch period
\* to answer.
FeesInOwnBatch ==
  SubmitDuration <= BatchBlocks =>
    \A b \in Batches :
      validatorFee[b] = (ModelFee - MinerFee) * Cardinality(BatchIds(b) \cap solved)

\* No inference of ours is lost without a cause: once the scanner has moved past its block, it
\* was taken, or a scan failed before it, or it was too old when the program started;
\* once taken, it is queued, in the executor's hands, given up or accepted by the contract;
\* and what the program records as done has been accepted: neither a reverted transaction
\* nor a timeout counts as success.
TasksAccounted ==
  /\ \A i \in Mine :
       /\ infers[i].born < currentBlock => i \in seizeMinerRoles \cup skipped \cup outOfReach
       /\ i \in seizeMinerRoles \ solved =>
            \/ i \in dropped \/ exec.task = i
            \/ \E k \in DOMAIN tasksQueue : tasksQueue[k] = i
  /\ TaskChecker \subseteq solved

\* Whatever fails in between, an inference of ours in a complete block is in the end
\* taken, unless a failing scan or a restart passes over it: a full queue or a failed
\* task never stops the scanner for good.
TaskNoticed ==
  \A i \in 1..MaxInfers :
    (i \in Mine /\ infers[i].born < block)
      ~> (i \in seizeMinerRoles \cup skipped \cup outOfReach)
=============================================================================

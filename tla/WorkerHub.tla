----------------------------- MODULE WorkerHub -----------------------------
(***************************************************************************)
(* WorkerHub.sol: an inference is paid for, given to randomly chosen       *)
(* miners, solved by the one that seizes the miner role, checked by the    *)
(* others through commit and reveal, and settled by a two-thirds vote.     *)
(*                                                                         *)
(* An assignment id is the pair (inference, worker): _assignMiners gives a *)
(* worker at most one assignment per inference.  A digest is the answer it *)
(* hashes (the hash covers the inference id, so tallies are per inference) *)
(* and a commitment is the answer it binds; one that opens to nothing is   *)
(* one whose worker never reveals.  Nonces and outputs are dropped: both   *)
(* are set exactly when the digest is.                                     *)
(***************************************************************************)
EXTENDS Integers, FiniteSets, Functions, MinerRegistry

CONSTANTS Answers,           \* what a worker may submit as the result
          Values,            \* msg.value of a request
          CreatorFunds,      \* what the creators own at the start
          MinerRequirement,  \* workers per inference
          SubmitDuration, CommitDuration, RevealDuration,
          FeeL2Percentage, FeeTreasuryPercentage,
          FeeRatioMinerValidator,
          MaxInferences,     \* bound: requests in a behaviour
          MaxBlock,          \* bound: the last block
          Churners,          \* bound: workers that join, leave or move on their own
          Retirable,         \* bound: models the owner may unregister and register
          MayPause           \* bound: whether the owner ever pauses the hub

PERCENTAGE_DENOMINATOR == 10000

Ids == 1..MaxInferences
Creator == "creator"
L2Owner == "l2Owner"
TreasuryAccount == "treasury"
Hub == "hub"
Accounts == Workers \cup {Creator, L2Owner, TreasuryAccount, Hub}

Statuses ==
  {"Nil", "Solving", "Commit", "Reveal", "Processed", "Killed", "Transferred"}
Settled == {"Processed", "Killed", "Transferred"}
Open == {"Solving", "Commit", "Reveal"}
Penalties == {"none", "deactivated", "fined"}

ASSUME HubAssumption ==
  /\ IsFiniteSet(Workers)
  /\ Workers \cap {Creator, L2Owner, TreasuryAccount, Hub} = {}
  /\ IsFiniteSet(Answers) /\ Answers # {} /\ None \notin Answers
  /\ Values \subseteq Nat /\ CreatorFunds \in Nat
  /\ MinerRequirement \in Nat \ {0}
  /\ SubmitDuration \in Nat /\ CommitDuration \in Nat /\ RevealDuration \in Nat
  /\ FeeL2Percentage \in 0..PERCENTAGE_DENOMINATOR
  /\ FeeTreasuryPercentage \in 0..(PERCENTAGE_DENOMINATOR - FeeL2Percentage)
  /\ FeeRatioMinerValidator \in 0..PERCENTAGE_DENOMINATOR
  /\ MaxInferences \in Nat /\ MaxBlock \in Nat
  /\ Churners \subseteq Workers /\ Retirable \subseteq Models /\ MayPause \in BOOLEAN

VARIABLES
  block,            \* block.number
  paused,           \* Pausable
  inferenceNumber,  \* ids given out so far
  status,           \* inferences[i].status
  deal,             \* inferences[i]: value, feeL2, feeTreasury, submitTimeout
  assigned,         \* the workers of assignmentsByInference[i]
  processedMiner,   \* inferences[i].processedMiner
  commitment,       \* assignments: the committed answer, None when 0
  digest,           \* assignments: the submitted or revealed answer, None when 0
  totalCommit,      \* votingInfo[i].totalCommit
  totalReveal,      \* votingInfo[i].totalReveal
  countDigest,      \* countDigest[keccak(i, a)]
  eth,              \* native balances
  penalties         \* the slashMiner calls made for inference i (its events)

clockVars == <<block, paused>>
requestVars == <<inferenceNumber, deal, assigned>>
voteVars == <<commitment, digest, totalCommit, totalReveal, countDigest>>
moneyVars == <<eth, penalties>>
vars == <<clockVars, requestVars, status, processedMiner, voteVars, moneyVars,
          registryVars>>

NoDeal == [value |-> 0, feeL2 |-> 0, feeTreasury |-> 0, submitTimeout |-> 0]

Init ==
  /\ RegistryInit
  /\ block = 0
  /\ paused = FALSE
  /\ inferenceNumber = 0
  /\ status = [i \in Ids |-> "Nil"]
  /\ deal = [i \in Ids |-> NoDeal]
  /\ assigned = [i \in Ids |-> {}]
  /\ processedMiner = [i \in Ids |-> None]
  /\ commitment = [i \in Ids |-> [w \in Workers |-> None]]
  /\ digest = [i \in Ids |-> [w \in Workers |-> None]]
  /\ totalCommit = [i \in Ids |-> 0]
  /\ totalReveal = [i \in Ids |-> 0]
  /\ countDigest = [i \in Ids |-> [a \in Answers |-> 0]]
  /\ eth = [a \in Accounts |-> IF a = Creator THEN CreatorFunds ELSE 0]
  /\ penalties = [i \in Ids |-> [w \in Workers |-> "none"]]
-----------------------------------------------------------------------------
SubmitTimeout(i) == deal[i].submitTimeout
CommitTimeout(i) == SubmitTimeout(i) + CommitDuration
RevealTimeout(i) == CommitTimeout(i) + RevealDuration
Deposit(i) == deal[i].value + deal[i].feeL2 + deal[i].feeTreasury

\* assignments with role Validating
Validators(i) == assigned[i] \ {processedMiner[i]}

BasisPoints(v, p) == v * p
Percentage(v, p) == (v * p) \div PERCENTAGE_DENOMINATOR

\* _getThresholdValue
SimpleHalf(x) == x \div 2
Threshold(x) == (x * 2) \div 3 + (IF x % 3 = 0 THEN 0 ELSE 1)

(***************************************************************************)
(* _findMostVotedDigest.  The loop keeps the first of several maxima; its  *)
(* caller uses the digest only once the count reaches the threshold, which *)
(* at most one digest does (SingleWinner), so which one is kept of a tie   *)
(* is left to CHOOSE.                                                      *)
(***************************************************************************)
MostVotedDigest(count) ==
  CHOOSE a \in Answers : \A b \in Answers : count[b] <= count[a]

MinerFee(i) == Percentage(deal[i].value, FeeRatioMinerValidator)

\* countDigest[digest]++
SetToOne(count, a) == [count EXCEPT ![a] = 1]
Tally(count, a) == [count EXCEPT ![a] = @ + 1]

\* The vote is decided: _filterCommitment does not return false.
DecidedByVoters(i, count) ==
  LET voters == {w \in assigned[i] : commitment[i][w] # None}
  IN count[MostVotedDigest(count)] >= Threshold(Cardinality(voters))
Decided(i, count) ==
  count[MostVotedDigest(count)] >= Threshold(Cardinality(assigned[i]))

\* Guard of reveal: everybody has committed, or the commit window is over.
CommitWindowOver(i) ==
  \/ block >= CommitTimeout(i)
  \/ totalCommit[i] = Cardinality(assigned[i]) - 1

\* The reveal under way is the last one the commitments announced.
CheckedTooEarly(i) == totalReveal[i] = totalCommit[i]
LastReveal(i) == totalReveal[i] + 1 = totalCommit[i]

\* reveal turns a Commit inference into a Reveal one.
StatusKept(i) == status[i]
StatusAfterReveal(i) == "Reveal"

\* Guard of resolveInference's first branch: the role was seized, no solution came in time.
UnsolvedAtTimeout(i) ==
  status[i] = "Solving" /\ SubmitTimeout(i) <= block /\ processedMiner[i] # None
UnsolvedAnyStatus(i) ==
  SubmitTimeout(i) < block /\ processedMiner[i] # None
UnsolvedUnseized(i) ==
  status[i] = "Solving" /\ SubmitTimeout(i) < block /\ processedMiner[i] = None
Unsolved(i) ==
  status[i] = "Solving" /\ SubmitTimeout(i) < block /\ processedMiner[i] # None

\* resolveInference's second branch: two thirds of the workers, the miner included, committed.
EnoughWithMinerTwice(i) == totalCommit[i] + 2 >= Threshold(Cardinality(assigned[i]))
EnoughCommits(i) == totalCommit[i] + 1 >= Threshold(Cardinality(assigned[i]))

\* resolveInference's third branch: the reveal window is over, or nobody is missing.
NobodyMissing(i) == totalReveal[i] = totalCommit[i]
RevealOver(i) == RevealTimeout(i) < block \/ totalReveal[i] = totalCommit[i]

\* Workers penalised by inactivity: they never committed; they never showed an answer.
NotCommitted(i) == {w \in assigned[i] : commitment[i][w] = None}
Silent(i, dg) == {w \in assigned[i] : dg[w] = None}

\* The participants _filterCommitment fines: they lost the vote, or committed and kept silent.
LosersAndMiner(i, dg, answer) ==
  {w \in assigned[i] : commitment[i][w] # None /\ (dg[w] # answer \/ w = processedMiner[i])}
Losers(i, dg, answer) ==
  {w \in assigned[i] : commitment[i][w] # None /\ dg[w] # answer}

\* shareFeePerValidator
SharePerAssigned(i, isMatch, maxCount) ==
  deal[i].value \div Cardinality(assigned[i])
ShareWithMinerFee(i, isMatch, maxCount) ==
  deal[i].value \div (IF isMatch THEN maxCount - 1 ELSE maxCount)
Share(i, isMatch, maxCount) ==
  IF isMatch THEN (deal[i].value - MinerFee(i)) \div (maxCount - 1)
             ELSE deal[i].value \div maxCount
-----------------------------------------------------------------------------
(***************************************************************************)
(* The request: infer of a model contract, with _assignMiners' random      *)
(* choice of workers.  The last conjunct bounds the model: every deadline  *)
(* of the inference passes before MaxBlock.                                *)
(***************************************************************************)
Infer(m, v, S) ==
  LET i == inferenceNumber + 1
      feeL2 == Percentage(v, FeeL2Percentage)
      feeTreasury == Percentage(v, FeeTreasuryPercentage)
  IN /\ ~paused
     /\ m \in models
     /\ v <= eth[Creator]
     /\ S \subseteq MinersOf(m) /\ Cardinality(S) = MinerRequirement
     /\ i <= MaxInferences
     /\ block + SubmitDuration + CommitDuration + RevealDuration < MaxBlock
     /\ inferenceNumber' = i
     /\ status' = [status EXCEPT ![i] = "Solving"]
     /\ deal' = [deal EXCEPT ![i] =
                   [value |-> v - feeL2 - feeTreasury, feeL2 |-> feeL2,
                    feeTreasury |-> feeTreasury,
                    submitTimeout |-> block + SubmitDuration]]
     /\ assigned' = [assigned EXCEPT ![i] = S]
     /\ eth' = [eth EXCEPT ![Creator] = @ - v, ![Hub] = @ + v]
     /\ UNCHANGED <<clockVars, processedMiner, voteVars, penalties, registryVars>>

\* No condition on the status, the deadline, the pause or the caller still being a miner.
SeizeMinerRole(i, w) ==
  /\ w \in assigned[i]
  /\ processedMiner[i] = None
  /\ processedMiner' = [processedMiner EXCEPT ![i] = w]
  /\ UNCHANGED <<clockVars, requestVars, status, voteVars, moneyVars, registryVars>>

SubmitSolution(i, w, a) ==
  /\ ~paused
  /\ w \in Joined
  /\ w \in assigned[i] /\ processedMiner[i] = w
  /\ digest[i][w] = None
  /\ status[i] = "Solving"
  /\ block <= SubmitTimeout(i)
  /\ digest' = [digest EXCEPT ![i][w] = a]
  /\ commitment' = [commitment EXCEPT ![i][w] = a]
  /\ status' = [status EXCEPT ![i] = "Commit"]
  /\ countDigest' = [countDigest EXCEPT ![i] = Tally(@, a)]
  /\ UNCHANGED <<clockVars, requestVars, processedMiner, totalCommit, totalReveal,
                 moneyVars, registryVars>>

Commit(i, w, a) ==
  /\ ~paused
  /\ block <= CommitTimeout(i)
  /\ status[i] = "Commit"
  /\ w \in Validators(i)
  /\ commitment[i][w] = None
  /\ commitment' = [commitment EXCEPT ![i][w] = a]
  /\ totalCommit' = [totalCommit EXCEPT ![i] = @ + 1]
  /\ status' = [status EXCEPT ![i] =
                  IF totalCommit[i] + 1 = Cardinality(assigned[i]) - 1
                  THEN "Reveal" ELSE @]
  /\ UNCHANGED <<clockVars, requestVars, processedMiner, digest, totalReveal,
                 countDigest, moneyVars, registryVars>>
-----------------------------------------------------------------------------
(***************************************************************************)
(* Settling.  Each of these runs inside one transaction: a transfer the    *)
(* balance does not cover or a slashMiner that reverts (a worker that is   *)
(* no longer available) undoes all of it, so the action is not enabled.    *)
(***************************************************************************)
Penalise(i, S, penalty) ==
  /\ Slash(S)
  /\ penalties' = [penalties EXCEPT ![i] =
                     [w \in Workers |-> IF w \in S THEN penalty ELSE @[w]]]

RefundCreator(i) ==
  /\ Deposit(i) <= eth[Hub]
  /\ eth' = [eth EXCEPT ![Hub] = @ - Deposit(i), ![Creator] = @ + Deposit(i)]

\* The native transfers of _filterCommitment for the winning answer.
PayWorkers(i, answer, dg, maxCount) ==
  LET miner == processedMiner[i]
      isMatch == dg[miner] = answer
      minerFee == IF isMatch THEN MinerFee(i) ELSE 0
      share == Share(i, isMatch, maxCount)
      honest == {w \in Validators(i) : dg[w] = answer}
      total == minerFee + share * Cardinality(honest)
                 + deal[i].feeL2 + deal[i].feeTreasury
  IN /\ isMatch => maxCount > 1
     /\ total <= eth[Hub]
     /\ eth' = [a \in Accounts |->
                  CASE a = Hub -> eth[a] - total
                    [] a = L2Owner -> eth[a] + deal[i].feeL2
                    [] a = TreasuryAccount -> eth[a] + deal[i].feeTreasury
                    [] a \in honest -> eth[a] + share
                    [] a = miner -> eth[a] + minerFee
                    [] OTHER -> eth[a]]

\* _filterCommitment when the vote is decided: pay, and fine the losing or silent voters.
TransferFees(i, dg, count) ==
  LET answer == MostVotedDigest(count)
  IN /\ Decided(i, count)
     /\ PayWorkers(i, answer, dg, count[answer])
     /\ Penalise(i, Losers(i, dg, answer), "fined")
     /\ status' = [status EXCEPT ![i] = "Transferred"]

\* _handleNotEnoughVote: refund, and deactivate whoever never showed an answer.
HandleNotEnoughVote(i, dg, count) ==
  /\ ~Decided(i, count)
  /\ RefundCreator(i)
  /\ Penalise(i, Silent(i, dg), "deactivated")
  /\ status' = [status EXCEPT ![i] = "Processed"]

SettleVote(i, dg, count) == TransferFees(i, dg, count) \/ HandleNotEnoughVote(i, dg, count)

(***************************************************************************)
(* reveal, with the resolveInference it calls when it is the last one the  *)
(* commitments announced.                                                  *)
(***************************************************************************)
Reveal(i, w) ==
  LET a == commitment[i][w]
      dg == [digest[i] EXCEPT ![w] = a]
      count == Tally(countDigest[i], a)
  IN /\ ~paused
     /\ digest[i][w] = None
     /\ block <= RevealTimeout(i)
     /\ status[i] \in {"Commit", "Reveal"}
     /\ CommitWindowOver(i)
     /\ w \in Validators(i)
     /\ a # None
     /\ digest' = [digest EXCEPT ![i] = dg]
     /\ totalReveal' = [totalReveal EXCEPT ![i] = @ + 1]
     /\ countDigest' = [countDigest EXCEPT ![i] = count]
     /\ \/ /\ LastReveal(i)
           /\ SettleVote(i, dg, count)
        \/ /\ ~LastReveal(i)
           /\ status' = [status EXCEPT ![i] = StatusAfterReveal(i)]
           /\ UNCHANGED <<moneyVars, registryVars>>
     /\ UNCHANGED <<clockVars, requestVars, processedMiner, commitment, totalCommit>>

\* resolveInference, first branch.
KillUnsolved(i) ==
  /\ Unsolved(i)
  /\ status' = [status EXCEPT ![i] = "Killed"]
  /\ RefundCreator(i)
  /\ Penalise(i, {processedMiner[i]}, "fined")

(***************************************************************************)
(* Second branch.  With enough commitments the code compares the status to *)
(* Reveal and drops the result instead of assigning it: nothing changes.   *)
(***************************************************************************)
AbandonCommit(i) ==
  /\ status[i] = "Commit"
  /\ CommitTimeout(i) < block
  /\ ~EnoughCommits(i)
  /\ status' = [status EXCEPT ![i] = "Processed"]
  /\ RefundCreator(i)
  /\ Penalise(i, NotCommitted(i), "deactivated")

\* Third branch.
CloseReveal(i) ==
  /\ status[i] = "Reveal"
  /\ RevealOver(i)
  /\ SettleVote(i, digest[i], countDigest[i])

ResolveInference(i) ==
  /\ ~paused
  /\ KillUnsolved(i) \/ AbandonCommit(i) \/ CloseReveal(i)
  /\ UNCHANGED <<clockVars, requestVars, processedMiner, voteVars>>
-----------------------------------------------------------------------------
Pause ==
  /\ MayPause /\ ~paused
  /\ paused' = TRUE
  /\ UNCHANGED <<block, requestVars, status, processedMiner, voteVars, moneyVars,
                 registryVars>>

Unpause ==
  /\ paused
  /\ paused' = FALSE
  /\ UNCHANGED <<block, requestVars, status, processedMiner, voteVars, moneyVars,
                 registryVars>>

\* A block is mined.
Tick ==
  /\ block < MaxBlock
  /\ block' = block + 1
  /\ UNCHANGED <<paused, requestVars, status, processedMiner, voteVars, moneyVars,
                 registryVars>>

\* StakingHub moves by itself: miners join, leave, are moved or slashed by the owner.
RegistryStep ==
  /\ \/ \E w \in Churners, m \in Models : Join(w, m) \/ ChangeModel(w, m)
     \/ \E w \in Churners : Leave(w)
     \/ \E m \in Retirable : RegisterModel(m) \/ UnregisterModel(m)
  /\ UNCHANGED <<clockVars, requestVars, status, processedMiner, voteVars, moneyVars>>

WorkerStep(i, w) ==
  \/ SeizeMinerRole(i, w)
  \/ \E a \in Answers : SubmitSolution(i, w, a) \/ Commit(i, w, a)
  \/ Reveal(i, w)

Next ==
  \/ \E m \in Models, v \in Values, S \in SUBSET Workers : Infer(m, v, S)
  \/ \E i \in Ids, w \in Workers : WorkerStep(i, w)
  \/ \E i \in Ids : ResolveInference(i)
  \/ Pause \/ Unpause \/ Tick \/ RegistryStep

Spec == Init /\ [][Next]_vars

=============================================================================

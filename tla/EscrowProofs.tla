---------------------------- MODULE EscrowProofs ----------------------------
(***************************************************************************)
(* Theorems about the money of WorkerHub: that it implements the escrow of *)
(* InferenceEscrow, and that the hub always holds what it owes and nothing *)
(* more but for rounding.                                                  *)
(***************************************************************************)
EXTENDS WorkerHubProofs, SumLemmas

-----------------------------------------------------------------------------
(* What one step does to the hub's and the creators' balances.             *)

\* A fee comes in with a new inference.
Requested(i) ==
  /\ status[i] = "Nil" /\ status' = [status EXCEPT ![i] = "Solving"]
  /\ \A j \in Ids \ {i} : deal'[j] = deal[j]
  /\ Deposit(i)' \in Nat /\ Deposit(i)' <= eth[Creator]
  /\ eth'[Hub] = eth[Hub] + Deposit(i)'
  /\ eth'[Creator] = eth[Creator] - Deposit(i)'

\* It goes back whole.
Returned(i) ==
  /\ status[i] \in Open
  /\ \E s \in {"Killed", "Processed"} : status' = [status EXCEPT ![i] = s]
  /\ deal' = deal
  /\ eth'[Hub] = eth[Hub] - Deposit(i)
  /\ eth'[Creator] = eth[Creator] + Deposit(i)

\* It goes out to the workers and the protocol but for the dust.
PaidOut(i) ==
  /\ status[i] \in Open /\ status' = [status EXCEPT ![i] = "Transferred"]
  /\ deal' = deal
  /\ \E dust \in 0..DustBound : eth'[Hub] = eth[Hub] - Deposit(i) + dust
  /\ eth'[Creator] = eth[Creator]

\* No fee comes in or leaves; an open inference may go from one phase to the next.
Idle ==
  /\ \A i \in Ids : status'[i] = status[i] \/ (status[i] \in Open /\ status'[i] \in Open)
  /\ deal' = deal
  /\ eth'[Hub] = eth[Hub] /\ eth'[Creator] = eth[Creator]

MoneyStep == Idle \/ \E i \in Ids : Requested(i) \/ Returned(i) \/ PaidOut(i)

\* What a division leaves is less than the divisor.
LEMMA DivisionDust ==
  ASSUME NEW a \in Nat, NEW n \in Nat \ {0}
  PROVE  \E r \in 0..(n - 1) : a = (a \div n) * n + r
<1>1. a \div n \in Int /\ a = n * (a \div n) + (a % n) /\ a % n \in 0..(n - 1)
  OBVIOUS
<1>2. n * (a \div n) = (a \div n) * n
  BY <1>1
<1> QED BY <1>1, <1>2

\* The miner fee and the shares of n validators use up the value but for less than n units.
LEMMA SharesLeaveDust ==
  ASSUME TypeOK, NEW i \in Ids, NEW isMatch \in BOOLEAN, NEW maxCount \in Nat \ {0},
         isMatch => maxCount > 1
  PROVE  LET n == IF isMatch THEN maxCount - 1 ELSE maxCount
             minerFee == IF isMatch THEN MinerFee(i) ELSE 0
         IN \E r \in 0..(n - 1) :
              minerFee + Share(i, isMatch, maxCount) * n = deal[i].value - r
<1>1. deal[i].value \in Nat
  BY DEF TypeOK
<1>2. MinerFee(i) \in Nat /\ MinerFee(i) <= deal[i].value
  BY <1>1, PercentageBound, HubAssumption DEF MinerFee
<1>3. Share(i, isMatch, maxCount) \in Nat
  BY ShareIsNat
<1>4. CASE isMatch
  <2>1. /\ maxCount - 1 \in Nat \ {0} /\ deal[i].value - MinerFee(i) \in Nat
        /\ Share(i, isMatch, maxCount) = (deal[i].value - MinerFee(i)) \div (maxCount - 1)
    BY <1>1, <1>2, <1>4 DEF Share
  <2>2. PICK r \in 0..((maxCount - 1) - 1) :
           deal[i].value - MinerFee(i) = Share(i, isMatch, maxCount) * (maxCount - 1) + r
    BY <2>1, DivisionDust, ZenonT(30)
  <2>3. Share(i, isMatch, maxCount) * (maxCount - 1) \in Nat
    BY <1>3, <2>1
  <2>4. MinerFee(i) + Share(i, isMatch, maxCount) * (maxCount - 1) = deal[i].value - r
    BY <1>1, <1>2, <2>2, <2>3
  <2> QED BY <1>4, <2>2, <2>4
<1>5. CASE ~isMatch
  <2>1. Share(i, isMatch, maxCount) = deal[i].value \div maxCount
    BY <1>5 DEF Share
  <2>2. PICK r \in 0..(maxCount - 1) :
           deal[i].value = Share(i, isMatch, maxCount) * maxCount + r
    BY <1>1, <2>1, DivisionDust
  <2>3. Share(i, isMatch, maxCount) * maxCount \in Nat
    BY <1>3
  <2>4. 0 + Share(i, isMatch, maxCount) * maxCount = deal[i].value - r
    BY <1>1, <2>2, <2>3
  <2> QED BY <1>5, <2>2, <2>4
<1> QED BY <1>4, <1>5

\* The workers that gave an answer, and the validators among them.
VotersFor(i, dg, answer) == {w \in assigned[i] : dg[w] = answer}
HonestFor(i, dg, answer) == {w \in Validators(i) : dg[w] = answer}

\* The validators that are paid are as many as Share divides by, and fewer than the
\* workers: the miner either voted for the answer or is one of the others.
LEMMA HonestAreCounted ==
  ASSUME TypeOK, NEW i \in Ids, Cardinality(assigned[i]) = MinerRequirement,
         processedMiner[i] \in assigned[i], NEW answer, NEW dg,
         NEW maxCount \in Nat,
         maxCount = Cardinality(VotersFor(i, dg, answer))
  PROVE  /\ Cardinality(HonestFor(i, dg, answer))
              = IF dg[processedMiner[i]] = answer THEN maxCount - 1 ELSE maxCount
         /\ Cardinality(HonestFor(i, dg, answer)) < MinerRequirement
<1> DEFINE voters == VotersFor(i, dg, answer)
           honest == HonestFor(i, dg, answer)
           miner == processedMiner[i]
<1> USE DEF VotersFor, HonestFor
<1>1. IsFiniteSet(assigned[i])
  <2>1. assigned[i] \in SUBSET Workers
    BY DEF TypeOK
  <2> QED BY <2>1, HubAssumption, FS_Subset
<1>2. IsFiniteSet(voters)
  <2>1. voters \in SUBSET assigned[i]
    OBVIOUS
  <2> QED BY <1>1, <2>1, FS_Subset
<1>3. Cardinality(honest) = IF dg[miner] = answer THEN maxCount - 1 ELSE maxCount
  <2>1. CASE dg[miner] = answer
    <3>1. miner \in voters /\ honest = voters \ {miner}
      BY <2>1 DEF Validators
    <3>2. Cardinality(voters \ {miner}) = Cardinality(voters) - 1
      BY <1>2, <3>1, FS_RemoveElement
    <3> QED BY <2>1, <3>1, <3>2
  <2>2. CASE dg[miner] # answer
    <3>1. honest = voters
      BY <2>2 DEF Validators
    <3> QED BY <2>2, <3>1
  <2> QED BY <2>1, <2>2
<1>4. Cardinality(honest) < MinerRequirement
  <2>1. honest \in SUBSET (assigned[i] \ {miner})
    BY DEF Validators
  <2>2. /\ IsFiniteSet(assigned[i] \ {miner})
        /\ Cardinality(assigned[i] \ {miner}) = MinerRequirement - 1
    BY <1>1, FS_RemoveElement
  <2>3. Cardinality(honest) <= MinerRequirement - 1 /\ Cardinality(honest) \in Nat
    BY <2>1, <2>2, FS_Subset, FS_CardinalityType
  <2> QED BY <2>3, HubAssumption
<1> QED BY <1>3, <1>4

\* Paying the workers leaves less than one unit per paid validator in the hub.
LEMMA PaymentLeavesDust ==
  ASSUME TypeOK, NEW i \in Ids, Cardinality(assigned[i]) = MinerRequirement,
         processedMiner[i] \in assigned[i],
         NEW B \in Nat, NEW count \in [Answers -> 0..B], NEW dg,
         \A a \in Answers : count[a] = Cardinality(VotersFor(i, dg, a)),
         TransferFees(i, dg, count)
  PROVE  /\ \E dust \in 0..DustBound : eth'[Hub] = eth[Hub] - Deposit(i) + dust
         /\ eth'[Creator] = eth[Creator]
<1> DEFINE answer == MostVotedDigest(count)
           maxCount == count[answer]
           miner == processedMiner[i]
           isMatch == dg[miner] = answer
           minerFee == IF isMatch THEN MinerFee(i) ELSE 0
           share == Share(i, isMatch, maxCount)
           honest == HonestFor(i, dg, answer)
           n == IF isMatch THEN maxCount - 1 ELSE maxCount
           total == minerFee + share * Cardinality(honest)
                      + deal[i].feeL2 + deal[i].feeTreasury
<1>1. answer \in Answers /\ maxCount \in Nat
  BY MostVotedExists
<1>2. maxCount \in Nat \ {0}
  <2>1. maxCount >= Threshold(MinerRequirement)
    BY DEF TransferFees, Decided
  <2>2. Threshold(MinerRequirement) \in Nat /\ 2 * Threshold(MinerRequirement) > MinerRequirement
        /\ MinerRequirement \in Nat
    BY ThresholdIsTwoThirds, HubAssumption
  <2> HIDE DEF maxCount
  <2> QED BY <1>1, <2>1, <2>2
<1>3. PayWorkers(i, answer, dg, maxCount)
  BY DEF TransferFees
<1>4. isMatch \in BOOLEAN /\ (isMatch => maxCount > 1)
  BY <1>3 DEF PayWorkers
<1>5. Cardinality(honest) = n /\ n < MinerRequirement
  <2>1. maxCount = Cardinality(VotersFor(i, dg, answer))
    BY <1>1
  <2> HIDE DEF answer, maxCount
  <2> QED BY <1>1, <2>1, HonestAreCounted
<1>6. PICK r \in 0..(n - 1) : minerFee + share * n = deal[i].value - r
  <2> HIDE DEF maxCount, isMatch
  <2> QED BY <1>2, <1>4, SharesLeaveDust
<1>7. r \in 0..DustBound
  <2>1. n \in Nat
    <3> HIDE DEF maxCount, isMatch
    <3> QED BY <1>2, <1>4
  <2> HIDE DEF n
  <2>2. MinerRequirement \in Nat
    BY HubAssumption
  <2> QED BY <1>5, <1>6, <2>1, <2>2 DEF DustBound
<1>8. total = Deposit(i) - r
  <2>1. deal[i].value \in Nat /\ deal[i].feeL2 \in Nat /\ deal[i].feeTreasury \in Nat
    BY DEF TypeOK
  <2>2. minerFee + share * Cardinality(honest) = deal[i].value - r
    <3> HIDE DEF minerFee, share, honest, n
    <3> QED BY <1>5, <1>6
  <2> DEFINE paid == minerFee + share * Cardinality(honest)
  <2>3. total = paid + deal[i].feeL2 + deal[i].feeTreasury /\ paid = deal[i].value - r
    BY <2>2
  <2> HIDE DEF paid, total
  <2> QED BY <1>7, <2>1, <2>3 DEF Deposit
<1>9. eth' = [a \in Accounts |->
                CASE a = Hub -> eth[a] - total
                  [] a = L2Owner -> eth[a] + deal[i].feeL2
                  [] a = TreasuryAccount -> eth[a] + deal[i].feeTreasury
                  [] a \in honest -> eth[a] + share
                  [] a = miner -> eth[a] + minerFee
                  [] OTHER -> eth[a]]
  BY <1>3 DEF PayWorkers, HonestFor
<1>10. eth'[Hub] = eth[Hub] - total
  <2>1. Hub \notin honest /\ Hub # miner
    <3>1. assigned[i] \in SUBSET Workers /\ Hub \notin Workers
      BY HubAssumption DEF TypeOK
    <3> QED BY <3>1 DEF Validators, HonestFor
  <2>2. Hub \in Accounts /\ Hub # L2Owner /\ Hub # TreasuryAccount
    BY DEF Accounts, Hub, L2Owner, TreasuryAccount
  <2> HIDE DEF total, honest, share, minerFee
  <2> QED BY <1>9, <2>1, <2>2
<1>11. eth'[Creator] = eth[Creator]
  <2>1. Creator \notin honest /\ Creator # miner
    <3>1. assigned[i] \in SUBSET Workers /\ Creator \notin Workers
      BY HubAssumption DEF TypeOK
    <3> QED BY <3>1 DEF Validators, HonestFor
  <2>2. Creator \in Accounts /\ Creator # Hub /\ Creator # L2Owner /\ Creator # TreasuryAccount
    BY DEF Accounts, Creator, Hub, L2Owner, TreasuryAccount
  <2> HIDE DEF total, honest, share, minerFee
  <2> QED BY <1>9, <2>1, <2>2
<1>12. eth'[Hub] = eth[Hub] - Deposit(i) + r
  <2>1. eth[Hub] \in Nat /\ Deposit(i) \in Nat
    BY DEF TypeOK, Accounts, Deposit
  <2> HIDE DEF total
  <2> QED BY <1>7, <1>8, <1>10, <2>1, <1>6
<1> QED BY <1>7, <1>11, <1>12

\* A refund moves the deposit from the hub to the creator.
LEMMA RefundReturns ==
  ASSUME TypeOK, NEW i \in Ids, RefundCreator(i)
  PROVE  /\ eth'[Hub] = eth[Hub] - Deposit(i)
         /\ eth'[Creator] = eth[Creator] + Deposit(i)
BY DEF RefundCreator, TypeOK, Accounts, Hub, Creator

\* Settling a vote does the one or the other.
LEMMA SettleMoves ==
  ASSUME TypeOK, NEW i \in Ids, Cardinality(assigned[i]) = MinerRequirement,
         processedMiner[i] \in assigned[i], status[i] \in Open, deal' = deal,
         NEW B \in Nat, NEW count \in [Answers -> 0..B], NEW dg,
         \A a \in Answers : count[a] = Cardinality(VotersFor(i, dg, a)),
         SettleVote(i, dg, count)
  PROVE  Returned(i) \/ PaidOut(i)
<1>1. CASE TransferFees(i, dg, count)
  <2>1. /\ \E dust \in 0..DustBound : eth'[Hub] = eth[Hub] - Deposit(i) + dust
        /\ eth'[Creator] = eth[Creator]
    BY <1>1, PaymentLeavesDust
  <2>2. status' = [status EXCEPT ![i] = "Transferred"]
    BY <1>1 DEF TransferFees
  <2> QED BY <2>1, <2>2 DEF PaidOut
<1>2. CASE HandleNotEnoughVote(i, dg, count)
  <2>1. RefundCreator(i) /\ status' = [status EXCEPT ![i] = "Processed"]
    BY <1>2 DEF HandleNotEnoughVote
  <2> QED BY <2>1, RefundReturns DEF Returned
<1> QED BY <1>1, <1>2 DEF SettleVote

\* A request pays its fee in.
LEMMA InferMoves ==
  ASSUME IInv, NEW m \in Models, NEW v \in Values, NEW S \in SUBSET Workers, Infer(m, v, S)
  PROVE  \E i \in Ids : Requested(i)
<1> DEFINE feeL2 == Percentage(v, FeeL2Percentage)
           feeTreasury == Percentage(v, FeeTreasuryPercentage)
<1>1. TypeOK /\ PhaseInv
  BY DEF IInv
<1>0. PICK i \in Ids : i = inferenceNumber + 1
  BY <1>1, HubAssumption DEF Infer, Ids, TypeOK
<1>2. status[i] = "Nil"
  BY <1>0, <1>1 DEF PhaseInv, PhaseAt, TypeOK
<1>3. v \in Nat /\ feeL2 \in Nat /\ feeTreasury \in Nat /\ v - feeL2 - feeTreasury \in Nat
  <2>1. /\ v \in Nat
        /\ FeeL2Percentage \in 0..PERCENTAGE_DENOMINATOR
        /\ FeeTreasuryPercentage \in 0..(PERCENTAGE_DENOMINATOR - FeeL2Percentage)
    BY HubAssumption
  <2> QED BY <2>1, FeesBound
<1>4. /\ status' = [status EXCEPT ![i] = "Solving"]
      /\ deal' = [deal EXCEPT ![i] =
                    [value |-> v - feeL2 - feeTreasury, feeL2 |-> feeL2,
                     feeTreasury |-> feeTreasury,
                     submitTimeout |-> block + SubmitDuration]]
      /\ v <= eth[Creator]
      /\ eth' = [eth EXCEPT ![Creator] = @ - v, ![Hub] = @ + v]
  BY <1>0 DEF Infer
<1> HIDE DEF feeL2, feeTreasury
<1>5. Deposit(i)' = v
  <2>1. deal'[i] = [value |-> v - feeL2 - feeTreasury, feeL2 |-> feeL2,
                    feeTreasury |-> feeTreasury,
                    submitTimeout |-> block + SubmitDuration]
    BY <1>1, <1>2, <1>4 DEF TypeOK
  <2>2. Deposit(i)' = (v - feeL2 - feeTreasury) + feeL2 + feeTreasury
    BY <2>1 DEF Deposit
  <2> QED BY <1>3, <2>2
<1>6. eth'[Hub] = eth[Hub] + v /\ eth'[Creator] = eth[Creator] - v
  BY <1>1, <1>4 DEF TypeOK, Accounts, Hub, Creator
<1>7. \A j \in Ids \ {i} : deal'[j] = deal[j]
  BY <1>1, <1>4 DEF TypeOK
<1> QED BY <1>2, <1>3, <1>4, <1>5, <1>6, <1>7 DEF Requested

\* Of the worker's calls only the reveal that completes the vote moves money.
LEMMA RevealMoves ==
  ASSUME IInv, NEW i \in Ids, NEW w \in Workers, Reveal(i, w)
  PROVE  Idle \/ Returned(i) \/ PaidOut(i)
<1> DEFINE a == commitment[i][w]
           dg == [digest[i] EXCEPT ![w] = a]
           count == Tally(countDigest[i], a)
<1>1. /\ TypeOK /\ PhaseAt(i) /\ IInv' /\ a \in Answers
      /\ status[i] \in {"Commit", "Reveal"}
      /\ digest' = [digest EXCEPT ![i] = dg]
      /\ countDigest' = [countDigest EXCEPT ![i] = count]
      /\ assigned' = assigned /\ deal' = deal
  <2>1. TypeOK /\ PhaseAt(i)
    BY DEF IInv, PhaseInv
  <2>2. /\ status[i] \in {"Commit", "Reveal"} /\ a # None
        /\ digest' = [digest EXCEPT ![i] = dg]
        /\ countDigest' = [countDigest EXCEPT ![i] = count]
        /\ assigned' = assigned /\ deal' = deal
    BY DEF Reveal, requestVars
  <2>3. IInv'
    BY RevealInv
  <2> QED BY <2>1, <2>2, <2>3 DEF TypeOK
<1>2. digest'[i] = dg /\ countDigest'[i] = count
  BY <1>1 DEF TypeOK
<1>3. CASE LastReveal(i) /\ SettleVote(i, dg, count)
  <2>1. PICK B \in Nat : count \in [Answers -> 0..B]
    <3>1. /\ Cardinality(Workers) \in Nat
          /\ countDigest[i] \in [Answers -> 0..Cardinality(Workers)]
      BY TallyBounded DEF IInv
    <3>2. count \in [Answers -> 0..(Cardinality(Workers) + 1)]
      BY <1>1, <3>1 DEF Tally
    <3> QED BY <3>1, <3>2
  <2>2. Cardinality(assigned[i]) = MinerRequirement /\ processedMiner[i] \in assigned[i]
    BY <1>1 DEF PhaseAt
  <2>3. \A b \in Answers : count[b] = Cardinality(VotersFor(i, dg, b))
    BY <1>1, <1>2 DEF IInv, TallyMatchesVotes, TallyAt, Voters, VotersFor
  <2> HIDE DEF dg, count
  <2> QED BY <1>1, <1>3, <2>1, <2>2, <2>3, SettleMoves DEF Open
<1>4. CASE /\ ~LastReveal(i)
           /\ status' = [status EXCEPT ![i] = StatusAfterReveal(i)]
           /\ UNCHANGED <<moneyVars, registryVars>>
  BY <1>1, <1>4 DEF Idle, StatusAfterReveal, moneyVars, TypeOK, Open
<1> QED BY <1>3, <1>4 DEF Reveal

\* resolveInference returns the fee or pays it out.
LEMMA ResolveMoves ==
  ASSUME IInv, NEW i \in Ids, ResolveInference(i)
  PROVE  Returned(i) \/ PaidOut(i)
<1>1. /\ TypeOK /\ PhaseAt(i) /\ TallyAt(i)
      /\ deal' = deal
  BY DEF IInv, PhaseInv, TallyMatchesVotes, ResolveInference, requestVars
<1>2. CASE KillUnsolved(i)
  <2>1. /\ RefundCreator(i) /\ status[i] \in Open
        /\ status' = [status EXCEPT ![i] = "Killed"]
    BY <1>2 DEF KillUnsolved, Unsolved, Open
  <2> QED BY <1>1, <2>1, RefundReturns DEF Returned
<1>3. CASE AbandonCommit(i)
  <2>1. /\ RefundCreator(i) /\ status[i] \in Open
        /\ status' = [status EXCEPT ![i] = "Processed"]
    BY <1>3 DEF AbandonCommit, Open
  <2> QED BY <1>1, <2>1, RefundReturns DEF Returned
<1>4. CASE CloseReveal(i)
  <2>1. /\ SettleVote(i, digest[i], countDigest[i]) /\ status[i] = "Reveal"
        /\ Cardinality(assigned[i]) = MinerRequirement /\ processedMiner[i] \in assigned[i]
    BY <1>1, <1>4 DEF CloseReveal, PhaseAt
  <2>2. /\ Cardinality(Workers) \in Nat
        /\ countDigest[i] \in [Answers -> 0..Cardinality(Workers)]
    BY TallyBounded DEF IInv
  <2>3. \A b \in Answers :
          countDigest[i][b] = Cardinality(VotersFor(i, digest[i], b))
    BY <1>1 DEF TallyAt, Voters, VotersFor
  <2> QED BY <1>1, <2>1, <2>2, <2>3, SettleMoves DEF Open
<1> QED BY <1>2, <1>3, <1>4 DEF ResolveInference

\* Every step is one of these.
LEMMA StepMoves == IInv /\ [Next]_vars => MoneyStep
<1> SUFFICES ASSUME IInv, [Next]_vars PROVE MoneyStep
  OBVIOUS
<1>1. ASSUME NEW m \in Models, NEW v \in Values, NEW S \in SUBSET Workers, Infer(m, v, S)
      PROVE  MoneyStep
  BY <1>1, InferMoves DEF MoneyStep
<1>2. ASSUME NEW i \in Ids, NEW w \in Workers, WorkerStep(i, w)
      PROVE  MoneyStep
  <2>1. CASE SeizeMinerRole(i, w)
    BY <2>1 DEF SeizeMinerRole, requestVars, moneyVars, MoneyStep, Idle
  <2>2. ASSUME NEW a \in Answers, SubmitSolution(i, w, a) \/ Commit(i, w, a)
        PROVE  MoneyStep
    <3>1. /\ status[i] \in Open /\ status'[i] \in Open
          /\ \A j \in Ids \ {i} : status'[j] = status[j]
          /\ deal' = deal /\ eth' = eth
      BY <2>2 DEF SubmitSolution, Commit, requestVars, moneyVars, IInv, TypeOK, Open
    <3> QED BY <3>1 DEF MoneyStep, Idle
  <2>3. CASE Reveal(i, w)
    BY <2>3, RevealMoves DEF MoneyStep
  <2> QED BY <1>2, <2>1, <2>2, <2>3 DEF WorkerStep
<1>3. ASSUME NEW i \in Ids, ResolveInference(i)
      PROVE  MoneyStep
  BY <1>3, ResolveMoves DEF MoneyStep
<1>4. CASE Pause \/ Unpause \/ Tick \/ RegistryStep \/ UNCHANGED vars
  <2>1. UNCHANGED <<requestVars, status, moneyVars>>
    BY <1>4 DEF Pause, Unpause, Tick, RegistryStep, vars
  <2> QED BY <2>1 DEF requestVars, moneyVars, MoneyStep, Idle
<1> QED BY <1>1, <1>2, <1>3, <1>4 DEF Next

-----------------------------------------------------------------------------
(* What the hub holds.                                                     *)

PaidIds == {i \in Ids : status[i] = "Transferred"}

MoneyInv == HubSolvent /\ HubKeepsOnlyDust

\* There are finitely many inferences, and what is owed for them is a number of units.
LEMMA Owed ==
  ASSUME TypeOK
  PROVE  /\ IsFiniteSet(Ids) /\ IsFiniteSet(OpenIds) /\ IsFiniteSet(PaidIds)
         /\ \A i \in Ids : Deposit(i) \in Nat
         /\ Escrowed \in Nat /\ Cardinality(PaidIds) \in Nat
         /\ eth[Hub] \in Nat /\ eth[Creator] \in Nat
<1>1. IsFiniteSet(Ids)
  BY HubAssumption, FirstNumbers DEF Ids
<1>2. OpenIds \in SUBSET Ids /\ PaidIds \in SUBSET Ids
  BY DEF OpenIds, PaidIds
<1>3. IsFiniteSet(OpenIds) /\ IsFiniteSet(PaidIds) /\ Cardinality(PaidIds) \in Nat
  BY <1>1, <1>2, FS_Subset, FS_CardinalityType
<1>4. \A i \in Ids : Deposit(i) \in Nat
  BY DEF Deposit, TypeOK
<1>5. Escrowed \in Nat
  <2> DEFINE f == [i \in Ids |-> Deposit(i)]
  <2>1. \A i \in OpenIds : f[i] \in Nat
    BY <1>2, <1>4
  <2> HIDE DEF f
  <2>2. SumFunctionOnSet(f, OpenIds) \in Nat
    BY <1>3, <2>1, SumOfNaturals
  <2> QED BY <2>2 DEF Escrowed, f
<1>6. eth[Hub] \in Nat /\ eth[Creator] \in Nat
  BY DEF TypeOK, Accounts
<1> QED BY <1>1, <1>3, <1>4, <1>5, <1>6

LEMMA DustIsNat == DustBound \in Nat
BY HubAssumption DEF DustBound

\* What is owed without an inference that is open.
LEMMA OwedWithout ==
  ASSUME TypeOK, NEW i \in Ids, status[i] \in Open, deal' = deal, OpenIds' = OpenIds \ {i}
  PROVE  Escrowed' = Escrowed - Deposit(i)
<1> DEFINE f == [j \in Ids |-> Deposit(j)]
<1>1. i \in OpenIds /\ OpenIds \in SUBSET Ids
  BY DEF OpenIds
<1>2. \A j \in OpenIds : f[j] \in Nat /\ f[i] = Deposit(i)
  BY <1>1, Owed
<1>3. Escrowed' = SumFunctionOnSet(f, OpenIds \ {i})
  BY DEF Escrowed, Deposit
<1>4. Escrowed = SumFunctionOnSet(f, OpenIds)
  BY DEF Escrowed
<1> HIDE DEF f
<1>5. /\ SumFunctionOnSet(f, OpenIds) = f[i] + SumFunctionOnSet(f, OpenIds \ {i})
      /\ SumFunctionOnSet(f, OpenIds \ {i}) \in Int
  BY <1>1, <1>2, Owed, SumWithout
<1> QED BY <1>1, <1>2, <1>3, <1>4, <1>5, Owed

\* A new inference adds its fee to what is held and to what is owed.
LEMMA RequestedMoney ==
  ASSUME TypeOK, TypeOK', MoneyInv, NEW i \in Ids, Requested(i)
  PROVE  MoneyInv'
<1> DEFINE f == [j \in Ids |-> Deposit(j)]
           e == [j \in Ids |-> Deposit(j)']
<1>1. /\ status[i] = "Nil" /\ status' = [status EXCEPT ![i] = "Solving"]
      /\ Deposit(i)' \in Nat /\ eth'[Hub] = eth[Hub] + Deposit(i)'
      /\ \A j \in Ids \ {i} : deal'[j] = deal[j]
  BY DEF Requested
<1>2. OpenIds' = OpenIds \cup {i} /\ i \notin OpenIds /\ PaidIds' = PaidIds
  BY <1>1 DEF OpenIds, PaidIds, Open, TypeOK
<1>3. OpenIds \in SUBSET Ids
  BY DEF OpenIds
<1>4. \A j \in OpenIds : e[j] = f[j] /\ f[j] \in Nat
  <2>1. \A j \in Ids : Deposit(j) \in Nat
    BY Owed
  <2> QED BY <1>1, <1>2, <1>3, <2>1 DEF Deposit
<1>5. e[i] = Deposit(i)' /\ e[i] \in Nat
  BY <1>1
<1>6. Escrowed' = SumFunctionOnSet(e, OpenIds \cup {i}) /\ Escrowed = SumFunctionOnSet(f, OpenIds)
  BY <1>2 DEF Escrowed
<1> HIDE DEF e, f
<1>7. SumFunctionOnSet(e, OpenIds \cup {i}) = e[i] + SumFunctionOnSet(e, OpenIds)
  BY <1>2, <1>4, <1>5, Owed, SumAdd
<1>8. SumFunctionOnSet(e, OpenIds) = SumFunctionOnSet(f, OpenIds)
  BY <1>4, Owed, SumSame
<1>9. Escrowed' = Escrowed + Deposit(i)'
  BY <1>1, <1>5, <1>6, <1>7, <1>8, Owed
<1>10. /\ eth'[Hub] - Escrowed' = eth[Hub] - Escrowed
       /\ eth[Hub] >= Escrowed => eth'[Hub] >= Escrowed'
  BY <1>1, <1>9, Owed
<1> QED BY <1>2, <1>10 DEF MoneyInv, HubSolvent, HubKeepsOnlyDust, PaidIds

\* A refund takes the same from both.
LEMMA ReturnedMoney ==
  ASSUME TypeOK, TypeOK', MoneyInv, NEW i \in Ids, Returned(i)
  PROVE  MoneyInv'
<1>1. PICK s \in {"Killed", "Processed"} : status' = [status EXCEPT ![i] = s]
  BY DEF Returned
<1>2. status[i] \in Open /\ deal' = deal /\ eth'[Hub] = eth[Hub] - Deposit(i)
  BY DEF Returned
<1>3. OpenIds' = OpenIds \ {i} /\ PaidIds' = PaidIds
  BY <1>1, <1>2 DEF OpenIds, PaidIds, Open, TypeOK
<1>4. Escrowed' = Escrowed - Deposit(i)
  BY <1>2, <1>3, OwedWithout
<1>5. eth'[Hub] - Escrowed' = eth[Hub] - Escrowed /\ (eth[Hub] >= Escrowed => eth'[Hub] >= Escrowed')
  BY <1>2, <1>4, Owed
<1> QED BY <1>3, <1>5 DEF MoneyInv, HubSolvent, HubKeepsOnlyDust, PaidIds

\* A payment leaves its dust, and counts as one more that may.
LEMMA PaidOutMoney ==
  ASSUME TypeOK, TypeOK', MoneyInv, NEW i \in Ids, PaidOut(i)
  PROVE  MoneyInv'
<1>1. PICK dust \in 0..DustBound : eth'[Hub] = eth[Hub] - Deposit(i) + dust
  BY DEF PaidOut
<1>2. status[i] \in Open /\ deal' = deal /\ status' = [status EXCEPT ![i] = "Transferred"]
  BY DEF PaidOut
<1>3. OpenIds' = OpenIds \ {i} /\ PaidIds' = PaidIds \cup {i} /\ i \notin PaidIds
  BY <1>2 DEF OpenIds, PaidIds, Open, TypeOK
<1>4. Escrowed' = Escrowed - Deposit(i)
  BY <1>2, <1>3, OwedWithout
<1>5. Cardinality(PaidIds') = Cardinality(PaidIds) + 1
  BY <1>3, Owed, FS_AddElement
<1>6. /\ eth[Hub] \in Nat /\ Escrowed \in Nat /\ Deposit(i) \in Nat
      /\ DustBound \in Nat /\ Cardinality(PaidIds) \in Nat
  BY Owed, DustIsNat
<1>7. eth'[Hub] - Escrowed' = eth[Hub] - Escrowed + dust
  BY <1>1, <1>4, <1>6
<1>8. DustBound * Cardinality(PaidIds') = DustBound * Cardinality(PaidIds) + DustBound
  BY <1>5, <1>6
<1>9. HubSolvent'
  BY <1>1, <1>4, <1>6, <1>7 DEF MoneyInv, HubSolvent
<1>10. eth[Hub] - Escrowed <= DustBound * Cardinality(PaidIds)
  BY DEF MoneyInv, HubKeepsOnlyDust, PaidIds
<1>11. eth'[Hub] - Escrowed' <= DustBound * Cardinality(PaidIds')
  <2>1. DustBound * Cardinality(PaidIds) \in Int
    BY <1>6
  <2> QED BY <1>6, <1>7, <1>8, <1>10, <2>1
<1>12. HubKeepsOnlyDust'
  BY <1>11 DEF HubKeepsOnlyDust, PaidIds
<1> QED BY <1>9, <1>12 DEF MoneyInv

LEMMA MoneyNext == IInv /\ MoneyInv /\ [Next]_vars => MoneyInv'
<1> SUFFICES ASSUME IInv, MoneyInv, [Next]_vars PROVE MoneyInv'
  OBVIOUS
<1>1. TypeOK /\ TypeOK'
  BY NextInv DEF IInv
<1>2. MoneyStep
  BY StepMoves
<1>3. CASE Idle
  <2>1. /\ \A i \in Ids : status'[i] = status[i] \/ (status[i] \in Open /\ status'[i] \in Open)
        /\ deal' = deal /\ eth'[Hub] = eth[Hub]
    BY <1>3 DEF Idle
  <2>2. OpenIds' = OpenIds /\ PaidIds' = PaidIds
    BY <2>1 DEF OpenIds, PaidIds, Open
  <2>3. Escrowed' = Escrowed
    BY <2>1, <2>2 DEF Escrowed, Deposit
  <2> QED BY <2>1, <2>2, <2>3 DEF MoneyInv, HubSolvent, HubKeepsOnlyDust, PaidIds
<1> QED
  BY <1>1, <1>2, <1>3, RequestedMoney, ReturnedMoney, PaidOutMoney DEF MoneyStep

LEMMA MoneyInit == Init => MoneyInv
<1> SUFFICES ASSUME Init PROVE MoneyInv
  OBVIOUS
<1>1. OpenIds = {} /\ PaidIds = {} /\ eth[Hub] = 0
  BY DEF Init, OpenIds, PaidIds, Open, Accounts, Hub, Creator
<1>2. Escrowed = 0
  <2> DEFINE f == [i \in Ids |-> Deposit(i)]
  <2>1. SumFunctionOnSet(f, {}) = 0
    BY SumOfNone
  <2> QED BY <1>1, <2>1 DEF Escrowed
<1>3. HubSolvent
  BY <1>1, <1>2 DEF HubSolvent
<1>4. HubKeepsOnlyDust
  <2>1. Cardinality(PaidIds) = 0 /\ DustBound \in Nat
    BY <1>1, FS_EmptySet, DustIsNat
  <2>2. DustBound * Cardinality(PaidIds) = 0
    BY <2>1
  <2> QED BY <1>1, <1>2, <2>2 DEF HubKeepsOnlyDust, PaidIds
<1> QED BY <1>3, <1>4 DEF MoneyInv

\* The balance of the hub always covers every inference not settled yet, in whatever
\* order they are settled.
THEOREM HubStaysSolvent == Spec => []HubSolvent
<1>1. MoneyInv => HubSolvent
  BY DEF MoneyInv
<1>2. IInv /\ MoneyInv /\ [Next]_vars => MoneyInv'
  BY MoneyNext
<1> QED BY <1>1, <1>2, MoneyInit, Invariant, PTL DEF Spec

\* What it holds beyond that is less than one unit per paid validator.
THEOREM OnlyDustIsLeft == Spec => []HubKeepsOnlyDust
<1>1. MoneyInv => HubKeepsOnlyDust
  BY DEF MoneyInv
<1>2. IInv /\ MoneyInv /\ [Next]_vars => MoneyInv'
  BY MoneyNext
<1> QED BY <1>1, <1>2, MoneyInit, Invariant, PTL DEF Spec

-----------------------------------------------------------------------------
(* The escrow.                                                             *)

\* What the escrow sees of a status.
PhaseOf(s) ==
  CASE s = "Nil" -> "none"
    [] s \in Open -> "held"
    [] s = "Transferred" -> "paid"
    [] OTHER -> "refunded"

LEMMA PhaseOfStatus ==
  /\ PhaseOf("Nil") = "none"
  /\ \A s \in Open : PhaseOf(s) = "held"
  /\ PhaseOf("Transferred") = "paid"
  /\ PhaseOf("Killed") = "refunded" /\ PhaseOf("Processed") = "refunded"
BY DEF PhaseOf, Open

\* A change of one status is the change of one phase.
LEMMA PhaseStep ==
  ASSUME TypeOK, NEW i \in Ids, NEW s, status' = [status EXCEPT ![i] = s]
  PROVE  Phase[i] = PhaseOf(status[i]) /\ Phase' = [Phase EXCEPT ![i] = PhaseOf(s)]
<1>1. Phase = [j \in Ids |-> PhaseOf(status[j])] /\ Phase' = [j \in Ids |-> PhaseOf(status'[j])]
  BY DEF Phase, PhaseOf
<1>2. \A j \in Ids : status'[j] = IF j = i THEN s ELSE status[j]
  BY DEF TypeOK
<1> QED BY <1>1, <1>2

LEMMA RequestedIsHold ==
  ASSUME TypeOK, TypeOK', NEW i \in Ids, Requested(i)
  PROVE  Escrow!Hold(i)
<1> DEFINE v == Deposit(i)'
           f == [j \in Ids |-> Deposit(j)]
           e == [j \in Ids |-> Deposit(j)']
<1>1. Phase[i] = "none" /\ Phase' = [Phase EXCEPT ![i] = "held"]
  <2>1. status[i] = "Nil" /\ status' = [status EXCEPT ![i] = "Solving"] /\ "Solving" \in Open
    BY DEF Requested, Open
  <2>2. Phase[i] = PhaseOf(status[i]) /\ Phase' = [Phase EXCEPT ![i] = PhaseOf("Solving")]
    BY <2>1, PhaseStep
  <2>3. PhaseOf(status[i]) = "none" /\ PhaseOf("Solving") = "held"
    BY <2>1, PhaseOfStatus
  <2> QED BY <2>2, <2>3
<1>2. /\ v \in 0..eth[Creator]
      /\ eth'[Hub] = eth[Hub] + v /\ eth'[Creator] = eth[Creator] - v
  BY Owed DEF Requested
<1>3. e = [f EXCEPT ![i] = v]
  BY DEF Requested, Deposit
<1> HIDE DEF v
<1> QED BY <1>1, <1>2, <1>3 DEF Escrow!Hold

LEMMA ReturnedIsRefund ==
  ASSUME TypeOK, NEW i \in Ids, Returned(i)
  PROVE  Escrow!Refund(i)
<1> DEFINE f == [j \in Ids |-> Deposit(j)]
<1>1. Phase[i] = "held" /\ Phase' = [Phase EXCEPT ![i] = "refunded"]
  <2>1. PICK s \in {"Killed", "Processed"} : status' = [status EXCEPT ![i] = s]
    BY DEF Returned
  <2>2. status[i] \in Open /\ PhaseOf(s) = "refunded"
    BY PhaseOfStatus DEF Returned
  <2>3. Phase[i] = PhaseOf(status[i]) /\ Phase' = [Phase EXCEPT ![i] = PhaseOf(s)]
    BY <2>1, PhaseStep
  <2>4. PhaseOf(status[i]) = "held"
    BY <2>2, PhaseOfStatus
  <2> QED BY <2>2, <2>3, <2>4
<1>2. /\ eth'[Hub] = eth[Hub] - f[i] /\ eth'[Creator] = eth[Creator] + f[i]
      /\ f' = f
  BY DEF Returned, Deposit
<1> QED BY <1>1, <1>2 DEF Escrow!Refund

LEMMA PaidOutIsPayOut ==
  ASSUME TypeOK, NEW i \in Ids, PaidOut(i)
  PROVE  Escrow!PayOut(i)
<1> DEFINE f == [j \in Ids |-> Deposit(j)]
<1>1. Phase[i] = "held" /\ Phase' = [Phase EXCEPT ![i] = "paid"]
  <2>1. status[i] \in Open /\ status' = [status EXCEPT ![i] = "Transferred"]
    BY DEF PaidOut
  <2>2. /\ Phase[i] = PhaseOf(status[i])
        /\ Phase' = [Phase EXCEPT ![i] = PhaseOf("Transferred")]
    BY <2>1, PhaseStep
  <2>3. PhaseOf(status[i]) = "held" /\ PhaseOf("Transferred") = "paid"
    BY <2>1, PhaseOfStatus
  <2> QED BY <2>2, <2>3
<1>2. /\ \E dust \in 0..DustBound : eth'[Hub] = eth[Hub] - f[i] + dust
      /\ eth'[Creator] = eth[Creator] /\ f' = f
  BY DEF PaidOut, Deposit
<1> QED BY <1>1, <1>2 DEF Escrow!PayOut

LEMMA IdleStutters ==
  ASSUME Idle
  PROVE  UNCHANGED <<Phase, [i \in Ids |-> Deposit(i)], eth[Hub], eth[Creator]>>
<1>1. Phase' = Phase
  <2>1. Phase = [j \in Ids |-> PhaseOf(status[j])] /\ Phase' = [j \in Ids |-> PhaseOf(status'[j])]
    BY DEF Phase, PhaseOf
  <2>2. \A j \in Ids : PhaseOf(status'[j]) = PhaseOf(status[j])
    BY PhaseOfStatus DEF Idle
  <2> QED BY <2>1, <2>2
<1> QED BY <1>1 DEF Idle, Deposit

LEMMA StepIsEscrowStep ==
  IInv /\ [Next]_vars => [Escrow!Next]_(Escrow!escrowVars)
<1> SUFFICES ASSUME IInv, [Next]_vars
             PROVE  Escrow!Next \/ UNCHANGED Escrow!escrowVars
  OBVIOUS
<1>1. TypeOK /\ TypeOK'
  BY NextInv DEF IInv
<1>2. MoneyStep
  BY StepMoves
<1>3. CASE Idle
  BY <1>3, IdleStutters DEF Escrow!escrowVars
<1>4. ASSUME NEW i \in Ids, Requested(i) \/ Returned(i) \/ PaidOut(i)
      PROVE  Escrow!Next
  BY <1>1, <1>4, RequestedIsHold, ReturnedIsRefund, PaidOutIsPayOut DEF Escrow!Next
<1> QED BY <1>2, <1>3, <1>4 DEF MoneyStep

LEMMA InitIsEscrowInit == Init => Escrow!Init
<1> SUFFICES ASSUME Init PROVE Escrow!Init
  OBVIOUS
<1>1. Phase = [i \in Ids |-> "none"]
  <2>1. Phase = [i \in Ids |-> PhaseOf(status[i])]
    BY DEF Phase, PhaseOf
  <2>2. \A i \in Ids : PhaseOf(status[i]) = "none"
    BY PhaseOfStatus DEF Init
  <2> QED BY <2>1, <2>2
<1>2. [i \in Ids |-> Deposit(i)] = [i \in Ids |-> 0]
  BY DEF Init, Deposit, NoDeal
<1>3. eth[Hub] = 0 /\ eth[Creator] \in Nat
  BY HubAssumption DEF Init, Accounts, Hub, Creator
<1> QED BY <1>1, <1>2, <1>3 DEF Escrow!Init

\* Whatever the workers do and however the vote ends, a fee is held from its request on and
\* leaves once: back in full, or out but for the dust.
THEOREM EscrowImplemented == Spec => EscrowSpec
<1>1. IInv /\ [Next]_vars => [Escrow!Next]_(Escrow!escrowVars)
  BY StepIsEscrowStep
<1>2. Init => Escrow!Init
  BY InitIsEscrowInit
<1>3. Spec => Escrow!Init /\ [][Escrow!Next]_(Escrow!escrowVars)
  BY <1>1, <1>2, Invariant, PTL DEF Spec
<1> QED BY <1>3 DEF EscrowSpec, Escrow!Spec
=============================================================================

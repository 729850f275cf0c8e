-------------------------- MODULE WorkerHubProofs --------------------------
(***************************************************************************)
(* Theorems about WorkerHub for every number of workers, answers,          *)
(* inferences and blocks.                                                  *)
(***************************************************************************)
EXTENDS WorkerHubProps, FiniteSetTheorems, WellFoundedInduction, NaturalsInduction,
        TLAPS

-----------------------------------------------------------------------------
(* Arithmetic of the fees and of the vote.                                 *)

\* The threshold is two thirds rounded up, and more than half.
LEMMA ThresholdIsTwoThirds ==
  ASSUME NEW n \in Nat
  PROVE  /\ Threshold(n) \in Nat
         /\ 3 * Threshold(n) >= 2 * n
         /\ n > 0 => 2 * Threshold(n) > n
BY DEF Threshold

\* Integer division never gives out more than there is.
LEMMA DivisionBound ==
  ASSUME NEW a \in Nat, NEW k \in Nat \ {0}
  PROVE  a \div k \in Nat /\ k * (a \div k) <= a
<1>1. a \div k \in Int /\ a = k * (a \div k) + (a % k) /\ a % k \in 0..(k - 1)
  OBVIOUS
<1>2. a \div k \in Nat
  OBVIOUS
<1> QED BY <1>1, <1>2

\* A percentage of at most 100% takes at most the amount.
LEMMA PercentageBound ==
  ASSUME NEW v \in Nat, NEW p \in 0..PERCENTAGE_DENOMINATOR
  PROVE  Percentage(v, p) \in Nat /\ Percentage(v, p) <= v
<1>1. v * p \in Nat /\ v * p <= v * 10000
  BY DEF PERCENTAGE_DENOMINATOR
<1>2. (v * p) \div 10000 \in Nat /\ 10000 * ((v * p) \div 10000) <= v * p
  BY <1>1, DivisionBound
<1>3. ASSUME NEW x \in Nat, NEW y \in Nat, 10000 * x <= y, y <= v * 10000
      PROVE  x <= v
  BY <1>3
<1>4. (v * p) \div 10000 <= v
  BY <1>1, <1>2, <1>3
<1> QED BY <1>2, <1>4 DEF Percentage, PERCENTAGE_DENOMINATOR

\* The two protocol fees together take at most the amount.
LEMMA FeesBound ==
  ASSUME NEW v \in Nat, NEW p \in 0..PERCENTAGE_DENOMINATOR,
         NEW q \in 0..(PERCENTAGE_DENOMINATOR - p)
  PROVE  /\ Percentage(v, p) \in Nat /\ Percentage(v, q) \in Nat
         /\ v - Percentage(v, p) - Percentage(v, q) \in Nat
<1>1. p \in Nat /\ q \in Nat /\ p + q <= 10000
  BY DEF PERCENTAGE_DENOMINATOR
<1>2. v * p \in Nat /\ v * q \in Nat /\ v * (p + q) <= v * 10000
  BY <1>1
<1>3. v * p + v * q <= v * 10000
  BY <1>1, <1>2
<1>4. /\ (v * p) \div 10000 \in Nat /\ 10000 * ((v * p) \div 10000) <= v * p
      /\ (v * q) \div 10000 \in Nat /\ 10000 * ((v * q) \div 10000) <= v * q
  BY <1>2, DivisionBound
<1> QED BY <1>3, <1>4 DEF Percentage, PERCENTAGE_DENOMINATOR

\* A tally with an upper bound has a most voted digest.
LEMMA MostVotedExists ==
  ASSUME NEW B \in Nat, NEW count \in [Answers -> 0..B]
  PROVE  /\ MostVotedDigest(count) \in Answers
         /\ \A a \in Answers : count[a] <= count[MostVotedDigest(count)]
<1> DEFINE T == {B - count[a] : a \in Answers}
<1>1. T \subseteq Nat /\ T # {}
  BY HubAssumption
<1>2. PICK x \in T : \A y \in T : ~ (<<y, x>> \in OpToRel(<, Nat))
  BY <1>1, NatLessThanWellFounded, WFMin
<1>3. PICK a \in Answers : x = B - count[a]
  BY <1>2
<1>4. ASSUME NEW b \in Answers
      PROVE  count[b] <= count[a]
  <2>1. B - count[b] \in T /\ B - count[b] \in Nat /\ x \in Nat
    BY <1>1, <1>2
  <2>2. ~ (B - count[b] < x)
    BY <1>2, <2>1 DEF OpToRel
  <2> QED BY <1>3, <2>1, <2>2
<1> QED BY <1>4 DEF MostVotedDigest
-----------------------------------------------------------------------------
(* Types.                                                                  *)

IInv == TypeOK /\ PhaseInv /\ TallyMatchesVotes /\ RevealPhaseIncomplete

\* A tally never exceeds the number of workers.
LEMMA TallyBounded ==
  ASSUME TypeOK, TallyMatchesVotes, NEW i \in Ids
  PROVE  /\ Cardinality(Workers) \in Nat
         /\ countDigest[i] \in [Answers -> 0..Cardinality(Workers)]
<1>1. Cardinality(Workers) \in Nat
  BY HubAssumption, FS_CardinalityType
<1>2. ASSUME NEW a \in Answers
      PROVE  countDigest[i][a] \in 0..Cardinality(Workers)
  <2>1. Voters(i, a) \in SUBSET Workers
    BY DEF Voters, TypeOK
  <2>2. Cardinality(Voters(i, a)) <= Cardinality(Workers)
    BY <2>1, HubAssumption, FS_Subset
  <2>3. countDigest[i][a] = Cardinality(Voters(i, a)) /\ countDigest[i][a] \in Nat
    BY DEF TallyMatchesVotes, TallyAt, TypeOK
  <2> QED BY <1>1, <2>2, <2>3
<1> QED BY <1>1, <1>2 DEF TypeOK

\* What a validator is paid, and what all of them are, is a number of units.
LEMMA ShareIsNat ==
  ASSUME TypeOK, NEW i \in Ids, NEW isMatch \in BOOLEAN, NEW maxCount \in Nat,
         maxCount > 0, isMatch => maxCount > 1
  PROVE  /\ MinerFee(i) \in Nat
         /\ Share(i, isMatch, maxCount) \in Nat
<1>1. deal[i].value \in Nat
  BY DEF TypeOK
<1>2. MinerFee(i) \in Nat /\ MinerFee(i) <= deal[i].value
  BY <1>1, PercentageBound, HubAssumption DEF MinerFee
<1>3. CASE isMatch
  <2>1. deal[i].value - MinerFee(i) \in Nat /\ maxCount - 1 \in Nat \ {0}
    BY <1>1, <1>2, <1>3
  <2>2. (deal[i].value - MinerFee(i)) \div (maxCount - 1) \in Nat
    BY <2>1, DivisionBound
  <2> QED BY <1>2, <1>3, <2>2 DEF Share
<1>4. CASE ~isMatch
  <2>1. deal[i].value \div maxCount \in Nat
    BY <1>1, DivisionBound
  <2> QED BY <1>2, <1>4, <2>1 DEF Share
<1> QED BY <1>3, <1>4

\* Settling a vote keeps the balances, the penalties, the registry and the status typed.
LEMMA SettleVoteType ==
  ASSUME TypeOK, NEW i \in Ids, Cardinality(assigned[i]) = MinerRequirement,
         NEW B \in Nat, NEW count \in [Answers -> 0..B],
         NEW dg \in [Workers -> Answers \cup {None}],
         SettleVote(i, dg, count)
  PROVE  /\ eth' \in [Accounts -> Nat]
         /\ penalties' \in [Ids -> [Workers -> Penalties]]
         /\ RegistryTypeOK'
         /\ status' = [status EXCEPT ![i] = status'[i]]
         /\ status'[i] \in {"Transferred", "Processed"}
<1>1. CASE TransferFees(i, dg, count)
  <2> DEFINE answer == MostVotedDigest(count)
             maxCount == count[answer]
             isMatch == dg[processedMiner[i]] = answer
             minerFee == IF isMatch THEN MinerFee(i) ELSE 0
             share == Share(i, isMatch, maxCount)
             honest == {w \in Validators(i) : dg[w] = answer}
             total == minerFee + share * Cardinality(honest)
                        + deal[i].feeL2 + deal[i].feeTreasury
  <2>1. answer \in Answers /\ maxCount \in Nat
    BY MostVotedExists
  <2>2. maxCount >= Threshold(MinerRequirement)
    BY <1>1 DEF TransferFees, Decided
  <2>3. maxCount > 0
    BY <2>1, <2>2, ThresholdIsTwoThirds, HubAssumption
  <2>4. PayWorkers(i, answer, dg, maxCount)
    BY <1>1 DEF TransferFees
  <2>5. isMatch => maxCount > 1
    BY <2>4 DEF PayWorkers
  <2>6. MinerFee(i) \in Nat /\ share \in Nat
    <3> HIDE DEF maxCount, isMatch
    <3>1. isMatch \in BOOLEAN
      BY DEF isMatch
    <3> QED BY <2>1, <2>3, <2>5, <3>1, ShareIsNat
  <2>7. Cardinality(honest) \in Nat
    <3>1. honest \in SUBSET Workers
      BY DEF TypeOK, Validators
    <3> QED BY <3>1, HubAssumption, FS_Subset, FS_CardinalityType
  <2>8. deal[i].feeL2 \in Nat /\ deal[i].feeTreasury \in Nat
    BY DEF TypeOK
  <2>9. minerFee \in Nat /\ share * Cardinality(honest) \in Nat
    BY <2>6, <2>7
  <2>10. total \in Nat
    BY <2>8, <2>9
  <2>11. /\ total <= eth[Hub]
         /\ eth' = [a \in Accounts |->
                  CASE a = Hub -> eth[a] - total
                    [] a = L2Owner -> eth[a] + deal[i].feeL2
                    [] a = TreasuryAccount -> eth[a] + deal[i].feeTreasury
                    [] a \in honest -> eth[a] + share
                    [] a = processedMiner[i] -> eth[a] + minerFee
                    [] OTHER -> eth[a]]
    BY <2>4 DEF PayWorkers
  <2>12. eth' \in [Accounts -> Nat]
    <3> HIDE DEF honest, total, share, minerFee
    <3>1. eth \in [Accounts -> Nat] /\ Hub \in Accounts
      BY DEF TypeOK, Accounts
    <3>2. ASSUME NEW a \in Accounts
          PROVE  eth'[a] \in Nat
      BY <2>6, <2>8, <2>9, <2>10, <2>11, <3>1
    <3> QED BY <2>11, <3>2
  <2> QED
    BY <1>1, <2>12 DEF TransferFees, Penalise, Slash, TypeOK, RegistryTypeOK, Penalties
<1>2. CASE HandleNotEnoughVote(i, dg, count)
  <2>1. Deposit(i) \in Nat
    BY DEF Deposit, TypeOK
  <2>2. eth' \in [Accounts -> Nat]
    BY <1>2, <2>1 DEF HandleNotEnoughVote, RefundCreator, TypeOK, Accounts
  <2> QED
    BY <1>2, <2>2
    DEF HandleNotEnoughVote, Penalise, Slash, TypeOK, RegistryTypeOK, Penalties
<1> QED BY <1>1, <1>2 DEF SettleVote
-----------------------------------------------------------------------------
(* The inductive step, one lemma per action.                               *)

\* The votes of an inference that a step does not touch keep their tally.
LEMMA TallyFrame ==
  ASSUME NEW j \in Ids, TallyAt(j),
         assigned'[j] = assigned[j], processedMiner'[j] = processedMiner[j],
         commitment'[j] = commitment[j], digest'[j] = digest[j],
         totalCommit'[j] = totalCommit[j], totalReveal'[j] = totalReveal[j],
         countDigest'[j] = countDigest[j]
  PROVE  TallyAt(j)'
BY DEF TallyAt, Committers, Revealers, Voters, Validators

\* Before the first commitment every tally is zero.
LEMMA NoVotes ==
  ASSUME TypeOK, NEW j \in Ids, PhaseAt(j), TallyAt(j),
         status[j] \in {"Nil", "Solving"}
  PROVE  /\ \A w \in Workers : commitment[j][w] = None /\ digest[j][w] = None
         /\ totalCommit[j] = 0 /\ totalReveal[j] = 0
         /\ \A a \in Answers : countDigest[j][a] = 0
<1>1. \A w \in Workers : commitment[j][w] = None /\ digest[j][w] = None
  BY DEF PhaseAt, TypeOK
<1>2. Committers(j) = {} /\ Revealers(j) = {}
  BY <1>1 DEF Committers, Revealers, Validators, TypeOK
<1>3. \A a \in Answers : Voters(j, a) = {}
  BY <1>1, HubAssumption DEF Voters, TypeOK
<1> QED BY <1>1, <1>2, <1>3, FS_EmptySet DEF TallyAt

\* With no commitment recorded the tally is right whoever is assigned.
LEMMA NoVotesTally ==
  ASSUME NEW j \in Ids, assigned'[j] \in SUBSET Workers,
         \A w \in Workers : commitment'[j][w] = None /\ digest'[j][w] = None,
         totalCommit'[j] = 0, totalReveal'[j] = 0,
         \A a \in Answers : countDigest'[j][a] = 0
  PROVE  TallyAt(j)'
<1>1. Committers(j)' = {} /\ Revealers(j)' = {}
  BY DEF Committers, Revealers, Validators
<1>2. \A a \in Answers : Voters(j, a)' = {}
  BY HubAssumption DEF Voters
<1> QED BY <1>1, <1>2, FS_EmptySet DEF TallyAt

\* A request takes a new number, of which nothing was recorded before.
LEMMA InferInv ==
  ASSUME IInv, NEW m \in Models, NEW v \in Values, NEW S \in SUBSET Workers, Infer(m, v, S)
  PROVE  IInv'
<1> DEFINE i == inferenceNumber + 1
<1> USE DEF IInv
<1>1. i \in Ids /\ status[i] = "Nil" /\ processedMiner[i] = None
  <2>1. i \in Ids
    BY HubAssumption DEF Infer, Ids, TypeOK
  <2> QED BY <2>1 DEF PhaseInv, PhaseAt, TypeOK
<1>2. TypeOK'
  <2>1. v \in Nat
    BY HubAssumption
  <2>2. /\ Percentage(v, FeeL2Percentage) \in Nat
        /\ Percentage(v, FeeTreasuryPercentage) \in Nat
        /\ v - Percentage(v, FeeL2Percentage) - Percentage(v, FeeTreasuryPercentage) \in Nat
    <3>1. /\ FeeL2Percentage \in 0..PERCENTAGE_DENOMINATOR
          /\ FeeTreasuryPercentage \in 0..(PERCENTAGE_DENOMINATOR - FeeL2Percentage)
      BY HubAssumption
    <3> QED BY <2>1, <3>1, PercentageBound, FeesBound
  <2>3. deal' \in [Ids -> [value : Nat, feeL2 : Nat, feeTreasury : Nat, submitTimeout : Nat]]
    <3>1. block + SubmitDuration \in Nat
      BY HubAssumption DEF TypeOK
    <3> QED BY <1>1, <2>2, <3>1 DEF Infer, TypeOK
  <2>4. eth' \in [Accounts -> Nat]
    <3>1. Creator \in Accounts /\ Hub \in Accounts
      BY DEF Accounts
    <3>2. eth \in [Accounts -> Nat] /\ v <= eth[Creator]
          /\ eth' = [eth EXCEPT ![Creator] = @ - v, ![Hub] = @ + v]
      BY DEF Infer, TypeOK
    <3>3. eth[Creator] \in Nat /\ eth[Creator] - v \in Nat /\ eth[Creator] - v + v \in Nat
          /\ eth[Hub] + v \in Nat
      BY <2>1, <3>1, <3>2
    <3> QED BY <3>1, <3>2, <3>3 DEF Creator, Hub
  <2>5. inferenceNumber' \in 0..MaxInferences
    BY <1>1 DEF Infer, Ids
  <2>6. status' \in [Ids -> Statuses]
    BY <1>1 DEF Infer, TypeOK, Statuses
  <2>7. assigned' \in [Ids -> SUBSET Workers]
    BY <1>1 DEF Infer, TypeOK
  <2> QED
    BY <2>3, <2>4, <2>5, <2>6, <2>7
    DEF Infer, TypeOK, clockVars, voteVars, registryVars, RegistryTypeOK
<1>3. PhaseInv'
  <2> SUFFICES ASSUME NEW j \in Ids PROVE PhaseAt(j)'
    BY DEF PhaseInv
  <2>1. PhaseAt(j)
    BY DEF PhaseInv
  <2>2. CASE j = i
    BY <1>1, <2>1, <2>2 DEF Infer, PhaseAt, TypeOK, voteVars
  <2>3. CASE j # i
    BY <2>1, <2>3 DEF Infer, PhaseAt, TypeOK, voteVars, Ids
  <2> QED BY <2>2, <2>3
<1>4. TallyMatchesVotes'
  <2> SUFFICES ASSUME NEW j \in Ids PROVE TallyAt(j)'
    BY DEF TallyMatchesVotes
  <2>1. TallyAt(j) /\ PhaseAt(j)
    BY DEF TallyMatchesVotes, PhaseInv
  <2>2. CASE j = i
    BY <1>1, <1>2, <2>1, <2>2, NoVotes, NoVotesTally DEF Infer, voteVars, TypeOK
  <2>3. CASE j # i
    BY <2>1, <2>3, TallyFrame DEF Infer, TypeOK, voteVars
  <2> QED BY <2>2, <2>3
<1>5. RevealPhaseIncomplete'
  BY <1>1 DEF RevealPhaseIncomplete, Infer, TypeOK, voteVars
<1> QED BY <1>2, <1>3, <1>4, <1>5

\* Seizing the miner role takes one worker out of the validators; nobody can have voted yet.
LEMMA SeizeMinerRoleInv ==
  ASSUME IInv, NEW i \in Ids, NEW w \in Workers, SeizeMinerRole(i, w)
  PROVE  IInv'
<1> USE DEF IInv
<1>1. status[i] = "Solving"
  BY DEF SeizeMinerRole, PhaseInv, PhaseAt
<1>2. TypeOK'
  BY DEF SeizeMinerRole, TypeOK, clockVars, requestVars, voteVars, moneyVars, registryVars,
         RegistryTypeOK
<1>3. PhaseInv'
  <2> SUFFICES ASSUME NEW j \in Ids PROVE PhaseAt(j)'
    BY DEF PhaseInv
  <2>1. PhaseAt(j)
    BY DEF PhaseInv
  <2> QED
    BY <1>1, <2>1, NoneAssumption DEF SeizeMinerRole, PhaseAt, TypeOK, requestVars, voteVars
<1>4. TallyMatchesVotes'
  <2> SUFFICES ASSUME NEW j \in Ids PROVE TallyAt(j)'
    BY DEF TallyMatchesVotes
  <2>1. TallyAt(j) /\ PhaseAt(j)
    BY DEF TallyMatchesVotes, PhaseInv
  <2>2. CASE j = i
    BY <1>1, <1>2, <2>1, <2>2, NoVotes, NoVotesTally
    DEF SeizeMinerRole, voteVars, requestVars, TypeOK
  <2>3. CASE j # i
    BY <2>1, <2>3, TallyFrame DEF SeizeMinerRole, TypeOK, voteVars, requestVars
  <2> QED BY <2>2, <2>3
<1>5. RevealPhaseIncomplete'
  BY DEF RevealPhaseIncomplete, SeizeMinerRole, voteVars
<1> QED BY <1>2, <1>3, <1>4, <1>5

\* A solution records the miner's answer, the first vote.
LEMMA SubmitSolutionInv ==
  ASSUME IInv, NEW i \in Ids, NEW w \in Workers, NEW a \in Answers, SubmitSolution(i, w, a)
  PROVE  IInv'
<1> USE DEF IInv
<1>1. /\ status[i] = "Solving" /\ w \in assigned[i] /\ processedMiner[i] = w
      /\ PhaseAt(i) /\ TallyAt(i)
  BY DEF SubmitSolution, PhaseInv, TallyMatchesVotes
<1>2. TypeOK'
  <2>1. countDigest' \in [Ids -> [Answers -> Nat]]
    BY DEF SubmitSolution, TypeOK, Tally
  <2>2. digest' \in [Ids -> [Workers -> Answers \cup {None}]]
        /\ commitment' \in [Ids -> [Workers -> Answers \cup {None}]]
    BY DEF SubmitSolution, TypeOK
  <2>3. status' \in [Ids -> Statuses]
    BY DEF SubmitSolution, TypeOK, Statuses
  <2> QED
    BY <2>1, <2>2, <2>3
    DEF SubmitSolution, TypeOK, clockVars, requestVars, moneyVars, registryVars,
        RegistryTypeOK
<1>3. /\ \A v \in Workers : commitment[i][v] = None /\ digest[i][v] = None
      /\ totalCommit[i] = 0 /\ totalReveal[i] = 0
      /\ \A b \in Answers : countDigest[i][b] = 0
  BY <1>1, NoVotes
<1>4. PhaseInv'
  <2> SUFFICES ASSUME NEW j \in Ids PROVE PhaseAt(j)'
    BY DEF PhaseInv
  <2>1. PhaseAt(j)
    BY DEF PhaseInv
  <2>2. CASE j = i
    BY <1>1, <1>3, <2>1, <2>2, HubAssumption, NoneAssumption
    DEF SubmitSolution, PhaseAt, TypeOK, requestVars
  <2>3. CASE j # i
    BY <2>1, <2>3 DEF SubmitSolution, PhaseAt, TypeOK, requestVars
  <2> QED BY <2>2, <2>3
<1>5. TallyMatchesVotes'
  <2> SUFFICES ASSUME NEW j \in Ids PROVE TallyAt(j)'
    BY DEF TallyMatchesVotes
  <2>1. CASE j = i
    <3>1. /\ digest'[i] = [v \in Workers |-> IF v = w THEN a ELSE None]
          /\ commitment'[i] = [v \in Workers |-> IF v = w THEN a ELSE None]
          /\ assigned' = assigned /\ processedMiner' = processedMiner
          /\ totalCommit' = totalCommit /\ totalReveal' = totalReveal
      BY <1>3 DEF SubmitSolution, TypeOK, requestVars
    <3>2. assigned[i] \in SUBSET Workers
      BY DEF TypeOK
    <3>3. Committers(i)' = {} /\ Revealers(i)' = {}
      BY <1>1, <3>1, <3>2 DEF Committers, Revealers, Validators
    <3>4. totalCommit'[i] = Cardinality(Committers(i)')
          /\ totalReveal'[i] = Cardinality(Revealers(i)')
      BY <1>3, <3>1, <3>3, FS_EmptySet
    <3>5. ASSUME NEW b \in Answers
          PROVE  countDigest'[i][b] = Cardinality(Voters(i, b)')
      <4>1. countDigest'[i][b] = IF b = a THEN 1 ELSE 0
        BY <1>3 DEF SubmitSolution, Tally, TypeOK
      <4>2. Voters(i, b)' = IF b = a THEN {w} ELSE {}
        BY <1>1, <3>1, <3>2, HubAssumption DEF Voters
      <4>3. Cardinality({w}) = 1 /\ Cardinality({}) = 0
        BY FS_Singleton, FS_EmptySet
      <4> QED BY <4>1, <4>2, <4>3
    <3>6. \A v \in Workers \ assigned'[i] : commitment'[i][v] = None /\ digest'[i][v] = None
      BY <1>1, <3>1
    <3> QED BY <2>1, <3>4, <3>5, <3>6 DEF TallyAt
  <2>2. CASE j # i
    <3>1. TallyAt(j)
      BY DEF TallyMatchesVotes
    <3> QED BY <2>2, <3>1, TallyFrame DEF SubmitSolution, TypeOK, requestVars
  <2> QED BY <2>1, <2>2
<1>6. RevealPhaseIncomplete'
  BY DEF RevealPhaseIncomplete, SubmitSolution, TypeOK
<1> QED BY <1>2, <1>4, <1>5, <1>6

\* A commitment is counted once.
LEMMA CommitInv ==
  ASSUME IInv, NEW i \in Ids, NEW w \in Workers, NEW a \in Answers, Commit(i, w, a)
  PROVE  IInv'
<1> USE DEF IInv
<1>1. /\ status[i] = "Commit" /\ w \in Validators(i) /\ w \in assigned[i]
      /\ w # processedMiner[i] /\ commitment[i][w] = None /\ digest[i][w] = None
      /\ PhaseAt(i) /\ TallyAt(i)
  <2>1. PhaseAt(i) /\ TallyAt(i)
    BY DEF PhaseInv, TallyMatchesVotes
  <2>2. status[i] = "Commit" /\ w \in Validators(i) /\ commitment[i][w] = None
    BY DEF Commit
  <2> QED BY <2>1, <2>2 DEF Validators, PhaseAt
<1>2. a # None
  BY HubAssumption
<1>3. TypeOK'
  <2>1. totalCommit' \in [Ids -> Nat]
    BY DEF Commit, TypeOK
  <2>2. commitment' \in [Ids -> [Workers -> Answers \cup {None}]]
    BY DEF Commit, TypeOK
  <2>3. status' \in [Ids -> Statuses]
    BY DEF Commit, TypeOK, Statuses
  <2> QED
    BY <2>1, <2>2, <2>3
    DEF Commit, TypeOK, clockVars, requestVars, moneyVars, registryVars, RegistryTypeOK
<1>4. status'[i] \in {"Commit", "Reveal"}
  BY <1>1 DEF Commit, TypeOK
<1>5. PhaseInv'
  <2> SUFFICES ASSUME NEW j \in Ids PROVE PhaseAt(j)'
    BY DEF PhaseInv
  <2>1. PhaseAt(j)
    BY DEF PhaseInv
  <2>2. CASE j = i
    <3>1. /\ commitment'[i] = [commitment[i] EXCEPT ![w] = a]
          /\ UNCHANGED <<inferenceNumber, assigned, processedMiner, digest, totalReveal>>
      BY DEF Commit, TypeOK, requestVars
    <3>2. ASSUME NEW v \in Workers, digest'[i][v] # None
          PROVE  commitment'[i][v] = digest'[i][v]
      <4>1. v # w
        BY <1>1, <3>1, <3>2
      <4> QED BY <1>1, <3>1, <3>2, <4>1 DEF PhaseAt, TypeOK
    <3> QED BY <1>1, <1>4, <2>2, <3>1, <3>2 DEF PhaseAt
  <2>3. CASE j # i
    BY <2>1, <2>3 DEF Commit, PhaseAt, TypeOK, requestVars
  <2> QED BY <2>2, <2>3
<1>6. TallyMatchesVotes'
  <2> SUFFICES ASSUME NEW j \in Ids PROVE TallyAt(j)'
    BY DEF TallyMatchesVotes
  <2>1. CASE j = i
    <3>1. /\ commitment'[i] = [commitment[i] EXCEPT ![w] = a]
          /\ totalCommit'[i] = totalCommit[i] + 1
          /\ UNCHANGED <<assigned, processedMiner, digest, totalReveal, countDigest>>
      BY DEF Commit, TypeOK, requestVars
    <3>2. Committers(i)' = Committers(i) \cup {w}
      BY <1>1, <1>2, <3>1 DEF Committers, Validators, TypeOK
    <3>3. w \notin Committers(i) /\ IsFiniteSet(Committers(i))
      <4>1. Committers(i) \in SUBSET Workers
        BY DEF Committers, Validators, TypeOK
      <4> QED BY <1>1, <4>1, HubAssumption, FS_Subset DEF Committers
    <3>4. totalCommit'[i] = Cardinality(Committers(i)')
      <4>1. Cardinality(Committers(i) \cup {w}) = Cardinality(Committers(i)) + 1
        BY <3>3, FS_AddElement
      <4> QED BY <1>1, <3>1, <3>2, <4>1 DEF TallyAt
    <3>5. Revealers(i)' = Revealers(i) /\ \A b \in Answers : Voters(i, b)' = Voters(i, b)
      BY <3>1 DEF Revealers, Voters, Validators
    <3>6. \A v \in Workers \ assigned'[i] : commitment'[i][v] = None /\ digest'[i][v] = None
      BY <1>1, <3>1 DEF TallyAt, TypeOK
    <3> QED BY <1>1, <2>1, <3>1, <3>4, <3>5, <3>6 DEF TallyAt
  <2>2. CASE j # i
    <3>1. TallyAt(j)
      BY DEF TallyMatchesVotes
    <3> QED BY <2>2, <3>1, TallyFrame DEF Commit, TypeOK, requestVars
  <2> QED BY <2>1, <2>2
<1>7. RevealPhaseIncomplete'
  <2> SUFFICES ASSUME NEW j \in Ids, status'[j] = "Reveal"
               PROVE  totalReveal'[j] < totalCommit'[j]
    BY DEF RevealPhaseIncomplete
  <2>1. CASE j = i
    BY <1>1, <2>1 DEF Commit, PhaseAt, TypeOK
  <2>2. CASE j # i
    BY <2>2 DEF RevealPhaseIncomplete, Commit, TypeOK
  <2> QED BY <2>1, <2>2
<1> QED BY <1>3, <1>5, <1>6, <1>7

\* A settlement touches nothing the tallies of the inferences are about.
LEMMA RevealTally ==
  ASSUME IInv, NEW i \in Ids, NEW w \in Workers, Reveal(i, w), NEW j \in Ids
  PROVE  /\ TallyAt(j)'
         /\ totalReveal'[i] <= totalCommit'[i]
<1> USE DEF IInv
<1> DEFINE a == commitment[i][w]
<1>1. /\ w \in Validators(i) /\ w \in assigned[i] /\ a \in Answers
      /\ a # None /\ digest[i][w] = None
      /\ PhaseAt(i) /\ TallyAt(i)
  <2>1. PhaseAt(i) /\ TallyAt(i)
    BY DEF PhaseInv, TallyMatchesVotes
  <2>2. w \in Validators(i) /\ a # None /\ digest[i][w] = None
    BY DEF Reveal
  <2> QED BY <2>1, <2>2 DEF Validators, TypeOK
<1>2. /\ digest' = [digest EXCEPT ![i] = [digest[i] EXCEPT ![w] = a]]
      /\ totalReveal' = [totalReveal EXCEPT ![i] = @ + 1]
      /\ countDigest' = [countDigest EXCEPT ![i] = Tally(countDigest[i], a)]
      /\ UNCHANGED <<assigned, processedMiner, commitment, totalCommit>>
  BY DEF Reveal, requestVars
<1>3. digest'[i] = [digest[i] EXCEPT ![w] = a] /\ totalReveal'[i] = totalReveal[i] + 1
  BY <1>2 DEF TypeOK
<1>4. Revealers(i)' = Revealers(i) \cup {w}
  BY <1>1, <1>2, <1>3 DEF Revealers, Validators, TypeOK
<1>5. w \notin Revealers(i) /\ IsFiniteSet(Revealers(i))
  <2>1. Revealers(i) \in SUBSET Workers
    BY DEF Revealers, Validators, TypeOK
  <2> QED BY <1>1, <2>1, HubAssumption, FS_Subset DEF Revealers
<1>6. totalReveal'[i] = Cardinality(Revealers(i)')
  <2>1. Cardinality(Revealers(i) \cup {w}) = Cardinality(Revealers(i)) + 1
    BY <1>5, FS_AddElement
  <2> QED BY <1>1, <1>3, <1>4, <2>1 DEF TallyAt
<1>7. totalReveal'[i] <= totalCommit'[i]
  <2>1. Revealers(i) \cup {w} \in SUBSET Committers(i)
    BY <1>1 DEF Revealers, Committers, Validators, PhaseAt, TypeOK
  <2>2. IsFiniteSet(Committers(i))
    <3>1. Committers(i) \in SUBSET Workers
      BY DEF Committers, Validators, TypeOK
    <3> QED BY <3>1, HubAssumption, FS_Subset
  <2>3. Cardinality(Revealers(i) \cup {w}) <= Cardinality(Committers(i))
    BY <2>1, <2>2, FS_Subset
  <2> QED BY <1>1, <1>2, <1>4, <1>6, <2>3 DEF TallyAt
<1>8. TallyAt(j)'
  <2>1. CASE j = i
    <3>1. Committers(i)' = Committers(i)
      BY <1>2 DEF Committers, Validators
    <3>2. ASSUME NEW b \in Answers
          PROVE  countDigest'[i][b] = Cardinality(Voters(i, b)')
      <4>1. CASE b = a
        <5>1. Voters(i, b)' = Voters(i, b) \cup {w}
          BY <1>1, <1>2, <1>3, <4>1 DEF Voters, TypeOK
        <5>2. w \notin Voters(i, b) /\ IsFiniteSet(Voters(i, b))
          <6>1. Voters(i, b) \in SUBSET Workers
            BY DEF Voters, TypeOK
          <6> QED BY <1>1, <4>1, <6>1, HubAssumption, FS_Subset DEF Voters
        <5>3. Cardinality(Voters(i, b) \cup {w}) = Cardinality(Voters(i, b)) + 1
          BY <5>2, FS_AddElement
        <5>4. countDigest'[i][b] = countDigest[i][b] + 1
          BY <1>2, <4>1 DEF Tally, TypeOK
        <5> QED BY <1>1, <5>1, <5>3, <5>4 DEF TallyAt
      <4>2. CASE b # a
        <5>1. Voters(i, b)' = Voters(i, b)
          BY <1>1, <1>2, <1>3, <4>2, HubAssumption DEF Voters, TypeOK
        <5>2. countDigest'[i][b] = countDigest[i][b]
          BY <1>2, <4>2 DEF Tally, TypeOK
        <5> QED BY <1>1, <5>1, <5>2 DEF TallyAt
      <4> QED BY <4>1, <4>2
    <3>3. \A v \in Workers \ assigned'[i] : commitment'[i][v] = None /\ digest'[i][v] = None
      BY <1>1, <1>2, <1>3 DEF TallyAt, TypeOK
    <3> QED BY <1>1, <1>2, <1>6, <2>1, <3>1, <3>2, <3>3 DEF TallyAt
  <2>2. CASE j # i
    <3>1. TallyAt(j)
      BY DEF TallyMatchesVotes
    <3> QED BY <1>2, <2>2, <3>1, TallyFrame DEF TypeOK
  <2> QED BY <2>1, <2>2
<1> QED BY <1>7, <1>8

\* A reveal adds a vote to the tally of its answer, and the last one settles.
LEMMA RevealInv ==
  ASSUME IInv, NEW i \in Ids, NEW w \in Workers, Reveal(i, w)
  PROVE  IInv'
<1> USE DEF IInv
<1> DEFINE a == commitment[i][w]
           dg == [digest[i] EXCEPT ![w] = a]
           count == Tally(countDigest[i], a)
<1>1. /\ status[i] \in {"Commit", "Reveal"} /\ w \in assigned[i] /\ w # processedMiner[i]
      /\ a \in Answers /\ a # None /\ digest[i][w] = None /\ PhaseAt(i)
  <2>1. PhaseAt(i)
    BY DEF PhaseInv
  <2>2. /\ status[i] \in {"Commit", "Reveal"} /\ w \in Validators(i)
        /\ a # None /\ digest[i][w] = None
    BY DEF Reveal
  <2> QED BY <2>1, <2>2 DEF Validators, TypeOK
<1>2. /\ digest' = [digest EXCEPT ![i] = dg]
      /\ totalReveal' = [totalReveal EXCEPT ![i] = @ + 1]
      /\ countDigest' = [countDigest EXCEPT ![i] = count]
      /\ UNCHANGED <<clockVars, requestVars, processedMiner, commitment, totalCommit>>
  BY DEF Reveal
<1>3. dg \in [Workers -> Answers \cup {None}] /\ count \in [Answers -> Nat]
  BY <1>1 DEF TypeOK, Tally
<1>4. PICK B \in Nat : count \in [Answers -> 0..B]
  <2>1. /\ Cardinality(Workers) \in Nat
        /\ countDigest[i] \in [Answers -> 0..Cardinality(Workers)]
    BY TallyBounded
  <2>2. count \in [Answers -> 0..(Cardinality(Workers) + 1)]
    BY <2>1, <1>1 DEF Tally
  <2> QED BY <2>1, <2>2
<1>5. /\ eth' \in [Accounts -> Nat]
      /\ penalties' \in [Ids -> [Workers -> Penalties]]
      /\ RegistryTypeOK'
      /\ status' = [status EXCEPT ![i] = status'[i]]
      /\ status'[i] \in {"Transferred", "Processed", "Reveal"}
      /\ status'[i] = "Reveal" => ~LastReveal(i)
  <2>1. CASE LastReveal(i) /\ SettleVote(i, dg, count)
    <3>1. Cardinality(assigned[i]) = MinerRequirement
      BY <1>1 DEF PhaseAt
    <3> HIDE DEF dg, count
    <3> QED BY <1>3, <1>4, <2>1, <3>1, SettleVoteType
  <2>2. CASE /\ ~LastReveal(i)
             /\ status' = [status EXCEPT ![i] = StatusAfterReveal(i)]
             /\ UNCHANGED <<moneyVars, registryVars>>
    BY <2>2 DEF TypeOK, StatusAfterReveal, moneyVars, registryVars, RegistryTypeOK
  <2> QED BY <2>1, <2>2 DEF Reveal
<1>6. TypeOK'
  <2>1. digest' \in [Ids -> [Workers -> Answers \cup {None}]]
    BY <1>2, <1>3 DEF TypeOK
  <2>2. totalReveal' \in [Ids -> Nat]
    BY <1>2 DEF TypeOK
  <2>3. countDigest' \in [Ids -> [Answers -> Nat]]
    BY <1>2, <1>3 DEF TypeOK
  <2>4. status' \in [Ids -> Statuses]
    BY <1>5 DEF TypeOK, Statuses
  <2> QED
    BY <1>2, <1>5, <2>1, <2>2, <2>3, <2>4 DEF TypeOK, clockVars, requestVars
<1>7. PhaseInv'
  <2> SUFFICES ASSUME NEW j \in Ids PROVE PhaseAt(j)'
    BY DEF PhaseInv
  <2>1. PhaseAt(j)
    BY DEF PhaseInv
  <2>2. CASE j = i
    <3>1. /\ digest'[i] = dg /\ status[i] \notin {"Nil", "Solving"}
          /\ status'[i] \notin {"Nil", "Solving", "Commit"}
          /\ UNCHANGED <<inferenceNumber, assigned, processedMiner, commitment>>
      BY <1>1, <1>2, <1>5 DEF TypeOK, requestVars
    <3>2. ASSUME NEW v \in Workers, digest'[i][v] # None
          PROVE  commitment'[i][v] = digest'[i][v]
      BY <1>1, <3>1, <3>2 DEF PhaseAt, TypeOK
    <3>3. /\ i > inferenceNumber' => FALSE
          /\ Cardinality(assigned'[i]) = MinerRequirement
          /\ processedMiner'[i] # None /\ processedMiner'[i] \in assigned'[i]
      BY <1>1, <3>1 DEF PhaseAt
    <3>4. status'[i] = "Reveal" => digest'[i][processedMiner'[i]] # None
      BY <1>1, <3>1, <3>3 DEF PhaseAt, TypeOK
    <3> QED BY <2>2, <3>1, <3>2, <3>3, <3>4 DEF PhaseAt
  <2>3. CASE j # i
    BY <1>2, <1>5, <2>1, <2>3 DEF PhaseAt, TypeOK, requestVars
  <2> QED BY <2>2, <2>3
<1>8. TallyMatchesVotes'
  BY RevealTally DEF TallyMatchesVotes
<1>9. RevealPhaseIncomplete'
  <2> SUFFICES ASSUME NEW j \in Ids, status'[j] = "Reveal"
               PROVE  totalReveal'[j] < totalCommit'[j]
    BY DEF RevealPhaseIncomplete
  <2>1. CASE j = i
    <3>1. totalReveal'[i] <= totalCommit'[i]
      BY RevealTally
    <3>2. totalReveal'[i] # totalCommit'[i]
      BY <1>2, <1>5, <2>1 DEF LastReveal, TypeOK
    <3>3. totalReveal'[i] \in Nat /\ totalCommit'[i] \in Nat
      BY <1>2 DEF TypeOK
    <3> QED BY <2>1, <3>1, <3>2, <3>3
  <2>2. CASE j # i
    BY <1>2, <1>5, <2>2 DEF RevealPhaseIncomplete, TypeOK
  <2> QED BY <2>1, <2>2
<1> QED BY <1>6, <1>7, <1>8, <1>9

\* A refund and a penalty keep the balances, the penalties and the registry typed.
LEMMA RefundPenaltyType ==
  ASSUME TypeOK, NEW i \in Ids, NEW S, NEW penalty \in Penalties,
         RefundCreator(i), Penalise(i, S, penalty)
  PROVE  /\ eth' \in [Accounts -> Nat]
         /\ penalties' \in [Ids -> [Workers -> Penalties]]
         /\ RegistryTypeOK'
<1>1. Deposit(i) \in Nat
  BY DEF Deposit, TypeOK
<1>2. eth' \in [Accounts -> Nat]
  BY <1>1 DEF RefundCreator, TypeOK, Accounts
<1> QED BY <1>2 DEF Penalise, Slash, TypeOK, RegistryTypeOK

\* resolveInference refunds, settles or changes nothing.
LEMMA ResolveInferenceInv ==
  ASSUME IInv, NEW i \in Ids, ResolveInference(i)
  PROVE  IInv'
<1> USE DEF IInv
<1>1. UNCHANGED <<clockVars, requestVars, processedMiner, voteVars>> /\ PhaseAt(i)
  BY DEF ResolveInference, PhaseInv
<1>2. /\ eth' \in [Accounts -> Nat]
      /\ penalties' \in [Ids -> [Workers -> Penalties]]
      /\ RegistryTypeOK'
      /\ status' = [status EXCEPT ![i] = status'[i]]
      /\ status'[i] \in Settled
      /\ status[i] # "Nil" /\ processedMiner[i] # None
  <2>1. CASE KillUnsolved(i)
    BY <2>1, RefundPenaltyType DEF KillUnsolved, Unsolved, TypeOK, Settled, Penalties
  <2>2. CASE AbandonCommit(i)
    BY <1>1, <2>2, RefundPenaltyType
    DEF AbandonCommit, PhaseAt, TypeOK, Settled, Penalties
  <2>3. CASE CloseReveal(i)
    <3>1. /\ Cardinality(assigned[i]) = MinerRequirement
          /\ status[i] = "Reveal" /\ processedMiner[i] # None
      BY <1>1, <2>3 DEF CloseReveal, PhaseAt
    <3>2. /\ Cardinality(Workers) \in Nat
          /\ countDigest[i] \in [Answers -> 0..Cardinality(Workers)]
      BY TallyBounded
    <3>3. digest[i] \in [Workers -> Answers \cup {None}]
      BY DEF TypeOK
    <3>4. SettleVote(i, digest[i], countDigest[i])
      BY <2>3 DEF CloseReveal
    <3> QED BY <3>1, <3>2, <3>3, <3>4, SettleVoteType DEF Settled
  <2> QED BY <2>1, <2>2, <2>3 DEF ResolveInference
<1>3. TypeOK'
  <2>1. status' \in [Ids -> Statuses]
    BY <1>2 DEF TypeOK, Statuses, Settled
  <2> QED BY <1>1, <1>2, <2>1 DEF TypeOK, clockVars, requestVars, voteVars
<1>4. PhaseInv'
  <2> SUFFICES ASSUME NEW j \in Ids PROVE PhaseAt(j)'
    BY DEF PhaseInv
  <2>1. PhaseAt(j)
    BY DEF PhaseInv
  <2>2. CASE j = i
    BY <1>1, <1>2, <2>1, <2>2 DEF PhaseAt, TypeOK, requestVars, voteVars, Settled
  <2>3. CASE j # i
    BY <1>1, <1>2, <2>1, <2>3 DEF PhaseAt, TypeOK, requestVars, voteVars
  <2> QED BY <2>2, <2>3
<1>5. TallyMatchesVotes'
  BY <1>1, TallyFrame DEF TallyMatchesVotes, requestVars, voteVars
<1>6. RevealPhaseIncomplete'
  BY <1>1, <1>2 DEF RevealPhaseIncomplete, TypeOK, voteVars, Settled
<1> QED BY <1>3, <1>4, <1>5, <1>6

\* The steps that move no inference: the clock, the pause and StakingHub.
LEMMA EnvironmentInv ==
  ASSUME IInv, Pause \/ Unpause \/ Tick \/ RegistryStep \/ UNCHANGED vars
  PROVE  IInv'
<1> USE DEF IInv
<1>1. UNCHANGED <<requestVars, status, processedMiner, voteVars, moneyVars>>
  BY DEF Pause, Unpause, Tick, RegistryStep, vars
<1>2. TypeOK'
  <2>1. block' \in 0..MaxBlock /\ paused' \in BOOLEAN
    <3>1. MaxBlock \in Nat /\ block \in 0..MaxBlock /\ paused \in BOOLEAN
      BY HubAssumption DEF TypeOK
    <3>2. /\ block' = block \/ (block < MaxBlock /\ block' = block + 1)
          /\ paused' = paused \/ paused' \in BOOLEAN
      BY DEF Pause, Unpause, Tick, RegistryStep, vars, clockVars
    <3> QED BY <3>1, <3>2
  <2>2. RegistryTypeOK'
    <3>1. CASE RegistryStep
      BY <3>1, HubAssumption
      DEF RegistryStep, Join, Leave, ChangeModel, RegisterModel, UnregisterModel,
          RegistryTypeOK, TypeOK
    <3>2. CASE UNCHANGED registryVars
      BY <3>2 DEF registryVars, RegistryTypeOK, TypeOK
    <3> QED BY <3>1, <3>2 DEF Pause, Unpause, Tick, vars
  <2> QED
    BY <1>1, <2>1, <2>2 DEF TypeOK, requestVars, voteVars, moneyVars
<1>3. PhaseInv'
  BY <1>1 DEF PhaseInv, PhaseAt, requestVars, voteVars
<1>4. TallyMatchesVotes'
  BY <1>1, TallyFrame DEF TallyMatchesVotes, requestVars, voteVars
<1>5. RevealPhaseIncomplete'
  BY <1>1 DEF RevealPhaseIncomplete, voteVars
<1> QED BY <1>2, <1>3, <1>4, <1>5

\* At the start there is no inference.
LEMMA InitInv == Init => IInv
<1> SUFFICES ASSUME Init PROVE IInv
  OBVIOUS
<1>1. TypeOK
  <2>1. eth \in [Accounts -> Nat]
    BY HubAssumption DEF Init
  <2>2. block \in 0..MaxBlock /\ inferenceNumber \in 0..MaxInferences
    BY HubAssumption DEF Init
  <2> QED
    BY <2>1, <2>2
    DEF Init, RegistryInit, TypeOK, RegistryTypeOK, Statuses, Penalties, NoDeal
<1>2. PhaseInv
  BY DEF Init, PhaseInv, PhaseAt
<1>3. TallyMatchesVotes
  <2> SUFFICES ASSUME NEW i \in Ids PROVE TallyAt(i)
    BY DEF TallyMatchesVotes
  <2> QED BY <1>1, <1>2, FS_EmptySet
          DEF Init, TallyAt, Committers, Revealers, Voters, Validators, TypeOK
<1>4. RevealPhaseIncomplete
  BY DEF Init, RevealPhaseIncomplete
<1> QED BY <1>1, <1>2, <1>3, <1>4 DEF IInv

\* Every step keeps the invariant.
LEMMA NextInv == IInv /\ [Next]_vars => IInv'
<1> SUFFICES ASSUME IInv, [Next]_vars PROVE IInv'
  OBVIOUS
<1>1. ASSUME NEW m \in Models, NEW v \in Values, NEW S \in SUBSET Workers, Infer(m, v, S)
      PROVE  IInv'
  BY <1>1, InferInv
<1>2. ASSUME NEW i \in Ids, NEW w \in Workers, WorkerStep(i, w)
      PROVE  IInv'
  BY <1>2, SeizeMinerRoleInv, SubmitSolutionInv, CommitInv, RevealInv DEF WorkerStep
<1>3. ASSUME NEW i \in Ids, ResolveInference(i)
      PROVE  IInv'
  BY <1>3, ResolveInferenceInv
<1>4. CASE Pause \/ Unpause \/ Tick \/ RegistryStep \/ UNCHANGED vars
  BY <1>4, EnvironmentInv
<1> QED BY <1>1, <1>2, <1>3, <1>4 DEF Next

\* The inductive invariant: the types, the phases, the tallies and the unfinished reveal
\* phase, none of which is preserved without the others.
THEOREM Invariant == Spec => []IInv
<1>1. Init => IInv
  BY InitInv
<1>2. IInv /\ [Next]_vars => IInv'
  BY NextInv
<1> QED BY <1>1, <1>2, PTL DEF Spec
-----------------------------------------------------------------------------
(* The theorems.                                                           *)

\* No balance goes negative, and every variable keeps its type.
THEOREM TypeCorrect == Spec => []TypeOK
<1>1. IInv => TypeOK
  BY DEF IInv
<1> QED BY <1>1, Invariant, PTL

\* The settlement's counters agree with the assignments after every interleaving of the
\* workers' calls.
THEOREM TalliesCorrect == Spec => []TallyMatchesVotes
<1>1. IInv => TallyMatchesVotes
  BY DEF IInv
<1> QED BY <1>1, Invariant, PTL

\* Each phase of an inference has the assignments the contract takes for granted.
THEOREM PhasesCorrect == Spec => []PhaseInv
<1>1. IInv => PhaseInv
  BY DEF IInv
<1> QED BY <1>1, Invariant, PTL

\* The reveal that completes a vote settles it: no complete vote is left open.
THEOREM NoCompleteVoteOpen == Spec => []RevealPhaseIncomplete
<1>1. IInv => RevealPhaseIncomplete
  BY DEF IInv
<1> QED BY <1>1, Invariant, PTL

\* Two answers cannot both reach the threshold: each worker votes once, and the threshold
\* is more than half of the assigned workers.
THEOREM WinnerIsUnique == Spec => []SingleWinner
<1>1. IInv => SingleWinner
  <2> SUFFICES ASSUME IInv, NEW i \in Ids, NEW a \in Answers, NEW b \in Answers,
                      assigned[i] # {}, a # b,
                      countDigest[i][a] >= Threshold(Cardinality(assigned[i])),
                      countDigest[i][b] >= Threshold(Cardinality(assigned[i]))
               PROVE  FALSE
    BY DEF SingleWinner
  <2>1. /\ countDigest[i][a] = Cardinality(Voters(i, a))
        /\ countDigest[i][b] = Cardinality(Voters(i, b))
    BY DEF IInv, TallyMatchesVotes, TallyAt
  <2>2. Voters(i, a) \in SUBSET assigned[i] /\ Voters(i, b) \in SUBSET assigned[i]
    BY DEF Voters
  <2>3. Voters(i, a) \cap Voters(i, b) = {}
    BY DEF Voters
  <2>4. IsFiniteSet(assigned[i])
    <3>1. assigned[i] \in SUBSET Workers
      BY DEF IInv, TypeOK
    <3> QED BY <3>1, HubAssumption, FS_Subset
  <2>5. Cardinality(assigned[i]) \in Nat \ {0}
    BY <2>4, FS_CardinalityType, FS_EmptySet
  <2>6. /\ Cardinality(Voters(i, a)) \in Nat /\ Cardinality(Voters(i, b)) \in Nat
    BY <2>2, <2>4, FS_Subset, FS_CardinalityType
  <2>7. /\ 2 * Threshold(Cardinality(assigned[i])) > Cardinality(assigned[i])
        /\ Threshold(Cardinality(assigned[i])) \in Nat
    BY <2>5, ThresholdIsTwoThirds
  <2>8. Cardinality(Voters(i, a)) + Cardinality(Voters(i, b)) > Cardinality(assigned[i])
    BY <2>1, <2>5, <2>6, <2>7
  <2>9. Voters(i, a) \cap Voters(i, b) # {}
    BY <2>2, <2>4, <2>8, FS_MajoritiesIntersect
  <2> QED BY <2>3, <2>9
<1> QED BY <1>1, Invariant, PTL

\* The commitments of an inference are final once a validator's answer is public.
THEOREM CommitmentsFinal == Spec => NoCommitAfterReveal
<1> DEFINE Final == \A i \in Ids : Revealers(i) # {} => commitment'[i] = commitment[i]
<1>1. IInv /\ [Next]_vars => [Final]_vars
  <2> SUFFICES ASSUME IInv, Next, NEW i \in Ids, Revealers(i) # {}
               PROVE  commitment'[i] = commitment[i]
    OBVIOUS
  <2>1. status[i] \notin {"Nil", "Solving", "Commit"}
    <3>1. TypeOK /\ PhaseAt(i) /\ TallyAt(i)
      BY DEF IInv, PhaseInv, TallyMatchesVotes
    <3>2. IsFiniteSet(Revealers(i))
      <4>1. Revealers(i) \in SUBSET Workers
        BY <3>1 DEF Revealers, Validators, TypeOK
      <4> QED BY <4>1, HubAssumption, FS_Subset
    <3>3. totalReveal[i] # 0
      BY <3>1, <3>2, FS_EmptySet DEF TallyAt
    <3> QED BY <3>1, <3>3, NoVotes DEF PhaseAt
  <2>2. ASSUME NEW j \in Ids, NEW w \in Workers, WorkerStep(j, w)
        PROVE  commitment'[i] = commitment[i]
    BY <2>1, <2>2
    DEF WorkerStep, SeizeMinerRole, SubmitSolution, Commit, Reveal, voteVars, IInv, TypeOK
  <2>3. CASE \E m \in Models, v \in Values, S \in SUBSET Workers : Infer(m, v, S)
    BY <2>3 DEF Infer, voteVars
  <2>4. CASE \E j \in Ids : ResolveInference(j)
    BY <2>4 DEF ResolveInference, voteVars
  <2>5. CASE Pause \/ Unpause \/ Tick \/ RegistryStep
    BY <2>5 DEF Pause, Unpause, Tick, RegistryStep, voteVars
  <2> QED BY <2>2, <2>3, <2>4, <2>5 DEF Next
<1>2. Spec => [][Final]_vars
  BY <1>1, Invariant, PTL DEF Spec
<1> QED BY <1>2 DEF NoCommitAfterReveal
-----------------------------------------------------------------------------
(* Who is paid and who is fined.  Both properties speak of settled         *)
(* inferences, whose votes no longer change; they are inductive with the   *)
(* fact that nobody is penalised before the settlement.                    *)

PaidAt(i) ==
  status[i] = "Transferred" =>
    \E a \in Answers : 3 * Cardinality(Voters(i, a)) >= 2 * Cardinality(assigned[i])

HonestAt(i) ==
  \A w \in Workers : digest[i][w] # None /\ penalties[i][w] # "none" =>
    /\ status[i] = "Transferred"
    /\ \E a \in Answers \ {digest[i][w]} :
         3 * Cardinality(Voters(i, a)) >= 2 * Cardinality(assigned[i])

UnsettledAt(i) ==
  status[i] \in Open \cup {"Nil"} => \A w \in Workers : penalties[i][w] = "none"

FairAt(i) == PaidAt(i) /\ HonestAt(i) /\ UnsettledAt(i)
FairInv == \A i \in Ids : FairAt(i)

\* An inference whose status, votes and penalties a step leaves alone.
LEMMA FairFrame ==
  ASSUME NEW j \in Ids, FairAt(j),
         status'[j] = status[j], penalties'[j] = penalties[j],
         digest'[j] = digest[j], assigned'[j] = assigned[j]
  PROVE  FairAt(j)'
BY DEF FairAt, PaidAt, HonestAt, UnsettledAt, Voters

\* An inference that stays open, whatever its votes.
LEMMA FairOpen ==
  ASSUME NEW j \in Ids, FairAt(j), status[j] \in Open \cup {"Nil"},
         status'[j] \in Open, penalties'[j] = penalties[j]
  PROVE  FairAt(j)'
BY DEF FairAt, PaidAt, HonestAt, UnsettledAt, Open

\* A refund penalises only workers that showed no answer.
LEMMA FairRefund ==
  ASSUME TypeOK, NEW j \in Ids, FairAt(j), status[j] \in Open,
         status'[j] \in {"Killed", "Processed"}, NEW S, NEW penalty,
         Penalise(j, S, penalty), \A w \in S : digest'[j][w] = None
  PROVE  FairAt(j)'
<1>1. \A w \in Workers :
        penalties'[j][w] = IF w \in S THEN penalty ELSE penalties[j][w]
  BY DEF Penalise, TypeOK
<1> QED BY <1>1 DEF FairAt, PaidAt, HonestAt, UnsettledAt, Open

\* Settling a vote, for an inference whose tally is right.
LEMMA FairSettle ==
  ASSUME TypeOK, NEW i \in Ids, FairAt(i), status[i] \in Open,
         NEW B \in Nat, NEW count \in [Answers -> 0..B],
         NEW dg \in [Workers -> Answers \cup {None}],
         SettleVote(i, dg, count), digest'[i] = dg, assigned'[i] = assigned[i],
         \A a \in Answers : count[a] = Cardinality(Voters(i, a)'),
         status'[i] \in {"Transferred", "Processed"},
         status' = [status EXCEPT ![i] = status'[i]]
  PROVE  FairAt(i)'
<1>1. CASE TransferFees(i, dg, count)
  <2> DEFINE answer == MostVotedDigest(count)
  <2>1. answer \in Answers /\ count[answer] \in Nat
    <3>1. MostVotedDigest(count) \in Answers
      BY MostVotedExists
    <3> QED BY <3>1
  <2>2. Cardinality(assigned[i]) \in Nat
    <3>1. assigned[i] \in SUBSET Workers
      BY DEF TypeOK
    <3> QED BY <3>1, HubAssumption, FS_Subset, FS_CardinalityType
  <2>3. 3 * Cardinality(Voters(i, answer)') >= 2 * Cardinality(assigned'[i])
    <3>1. count[answer] >= Threshold(Cardinality(assigned[i]))
      BY <1>1 DEF TransferFees, Decided
    <3>2. /\ Threshold(Cardinality(assigned[i])) \in Nat
          /\ 3 * Threshold(Cardinality(assigned[i])) >= 2 * Cardinality(assigned[i])
      BY <2>2, ThresholdIsTwoThirds
    <3> HIDE DEF answer
    <3>3. count[answer] = Cardinality(Voters(i, answer)')
      BY <2>1
    <3> QED BY <2>1, <2>2, <3>1, <3>2, <3>3
  <2>4. status'[i] = "Transferred"
    BY <1>1 DEF TransferFees, TypeOK
  <2>5. ASSUME NEW w \in Workers, digest'[i][w] # None, penalties'[i][w] # "none"
        PROVE  digest'[i][w] # answer
    <3>1. penalties[i][w] = "none"
      BY DEF FairAt, UnsettledAt
    <3>2. penalties'[i][w] = IF w \in Losers(i, dg, answer) THEN "fined"
                             ELSE penalties[i][w]
      BY <1>1 DEF TransferFees, Penalise, TypeOK
    <3> QED BY <2>5, <3>1, <3>2 DEF Losers
  <2> HIDE DEF answer
  <2> QED BY <2>1, <2>3, <2>4, <2>5 DEF FairAt, PaidAt, HonestAt, UnsettledAt, Open
<1>2. CASE HandleNotEnoughVote(i, dg, count)
  <2>1. status'[i] = "Processed"
    BY <1>2 DEF HandleNotEnoughVote, TypeOK
  <2>2. Penalise(i, Silent(i, dg), "deactivated")
    BY <1>2 DEF HandleNotEnoughVote
  <2>3. \A w \in Silent(i, dg) : digest'[i][w] = None
    BY DEF Silent
  <2> HIDE DEF Silent
  <2> QED BY <2>1, <2>2, <2>3, FairRefund
<1> QED BY <1>1, <1>2 DEF SettleVote

\* A reveal settles only an inference whose votes are then final.
LEMMA FairReveal ==
  ASSUME IInv, FairInv, NEW i \in Ids, NEW w \in Workers, Reveal(i, w)
  PROVE  FairInv'
<1> DEFINE a == commitment[i][w]
           dg == [digest[i] EXCEPT ![w] = a]
           count == Tally(countDigest[i], a)
<1>1. /\ TypeOK /\ PhaseAt(i) /\ FairAt(i) /\ IInv'
      /\ status[i] \in {"Commit", "Reveal"} /\ a \in Answers
      /\ digest' = [digest EXCEPT ![i] = dg]
      /\ countDigest' = [countDigest EXCEPT ![i] = count]
      /\ assigned' = assigned
  <2>1. TypeOK /\ PhaseAt(i) /\ FairAt(i)
    BY DEF IInv, PhaseInv, FairInv
  <2>2. /\ status[i] \in {"Commit", "Reveal"} /\ a # None
        /\ digest' = [digest EXCEPT ![i] = dg]
        /\ countDigest' = [countDigest EXCEPT ![i] = count]
        /\ assigned' = assigned
    BY DEF Reveal, requestVars
  <2>3. IInv'
    BY RevealInv
  <2> QED BY <2>1, <2>2, <2>3 DEF TypeOK
<1>2. dg \in [Workers -> Answers \cup {None}] /\ digest'[i] = dg /\ countDigest'[i] = count
  BY <1>1 DEF TypeOK
<1>3. PICK B \in Nat : count \in [Answers -> 0..B]
  <2>1. /\ Cardinality(Workers) \in Nat
        /\ countDigest[i] \in [Answers -> 0..Cardinality(Workers)]
    BY TallyBounded DEF IInv
  <2>2. count \in [Answers -> 0..(Cardinality(Workers) + 1)]
    BY <1>1, <2>1 DEF Tally
  <2> QED BY <2>1, <2>2
<1>4. \A b \in Answers : count[b] = Cardinality(Voters(i, b)')
  BY <1>1, <1>2 DEF IInv, TallyMatchesVotes, TallyAt
<1>5. /\ FairAt(i)'
      /\ status' = [status EXCEPT ![i] = status'[i]]
      /\ \A j \in Ids \ {i} : penalties'[j] = penalties[j]
  <2>1. CASE LastReveal(i) /\ SettleVote(i, dg, count)
    <3>1. Cardinality(assigned[i]) = MinerRequirement
      BY <1>1 DEF PhaseAt
    <3> HIDE DEF dg, count
    <3>2. /\ status' = [status EXCEPT ![i] = status'[i]]
          /\ status'[i] \in {"Transferred", "Processed"}
      BY <1>1, <1>2, <1>3, <2>1, <3>1, SettleVoteType
    <3>3. FairAt(i)'
      BY <1>1, <1>2, <1>3, <1>4, <2>1, <3>2, FairSettle DEF Open
    <3>4. \A j \in Ids \ {i} : penalties'[j] = penalties[j]
      BY <1>1, <2>1
      DEF SettleVote, TransferFees, HandleNotEnoughVote, Penalise, TypeOK
    <3> QED BY <3>2, <3>3, <3>4
  <2>2. CASE /\ ~LastReveal(i)
             /\ status' = [status EXCEPT ![i] = StatusAfterReveal(i)]
             /\ UNCHANGED <<moneyVars, registryVars>>
    <3>1. /\ status' = [status EXCEPT ![i] = status'[i]] /\ status'[i] = "Reveal"
          /\ penalties' = penalties
      BY <1>1, <2>2 DEF TypeOK, StatusAfterReveal, moneyVars
    <3> QED BY <1>1, <3>1, FairOpen DEF Open
  <2> QED BY <2>1, <2>2 DEF Reveal
<1>6. ASSUME NEW j \in Ids, j # i
      PROVE  FairAt(j)'
  <2>1. FairAt(j)
    BY DEF FairInv
  <2> QED BY <1>1, <1>5, <1>6, <2>1, FairFrame DEF TypeOK
<1> QED BY <1>5, <1>6 DEF FairInv

\* So does resolveInference.
LEMMA FairResolve ==
  ASSUME IInv, FairInv, NEW i \in Ids, ResolveInference(i)
  PROVE  FairInv'
<1>1. /\ TypeOK /\ PhaseAt(i) /\ TallyAt(i) /\ FairAt(i)
      /\ UNCHANGED <<processedMiner, assigned, commitment, digest, countDigest>>
  BY DEF IInv, PhaseInv, TallyMatchesVotes, FairInv, ResolveInference, requestVars, voteVars
<1>2. /\ FairAt(i)'
      /\ status' = [status EXCEPT ![i] = status'[i]]
      /\ \A j \in Ids \ {i} : penalties'[j] = penalties[j]
  <2>1. CASE KillUnsolved(i)
    <3>1. /\ status[i] = "Solving" /\ processedMiner[i] \in Workers
          /\ status' = [status EXCEPT ![i] = status'[i]] /\ status'[i] = "Killed"
          /\ Penalise(i, {processedMiner[i]}, "fined")
      BY <1>1, <2>1 DEF KillUnsolved, Unsolved, TypeOK
    <3>2. digest'[i][processedMiner[i]] = None
      BY <1>1, <3>1, NoVotes
    <3>3. FairAt(i)'
      BY <1>1, <3>1, <3>2, FairRefund DEF Open
    <3> QED BY <1>1, <3>1, <3>3 DEF Penalise, TypeOK
  <2>2. CASE AbandonCommit(i)
    <3>1. /\ status[i] = "Commit"
          /\ status' = [status EXCEPT ![i] = status'[i]] /\ status'[i] = "Processed"
          /\ Penalise(i, NotCommitted(i), "deactivated")
      BY <1>1, <2>2 DEF AbandonCommit, TypeOK
    <3>2. \A w \in NotCommitted(i) : digest'[i][w] = None
      BY <1>1 DEF NotCommitted, PhaseAt, TypeOK
    <3> HIDE DEF NotCommitted
    <3>3. FairAt(i)'
      BY <1>1, <3>1, <3>2, FairRefund DEF Open
    <3> QED BY <1>1, <3>1, <3>3 DEF Penalise, TypeOK
  <2>3. CASE CloseReveal(i)
    <3>1. /\ SettleVote(i, digest[i], countDigest[i]) /\ status[i] = "Reveal"
          /\ Cardinality(assigned[i]) = MinerRequirement
      BY <1>1, <2>3 DEF CloseReveal, PhaseAt
    <3>2. /\ Cardinality(Workers) \in Nat
          /\ countDigest[i] \in [Answers -> 0..Cardinality(Workers)]
      BY TallyBounded DEF IInv
    <3>3. digest[i] \in [Workers -> Answers \cup {None}]
      BY <1>1 DEF TypeOK
    <3>4. /\ status' = [status EXCEPT ![i] = status'[i]]
          /\ status'[i] \in {"Transferred", "Processed"}
      BY <1>1, <3>1, <3>2, <3>3, SettleVoteType
    <3>5. \A b \in Answers : countDigest[i][b] = Cardinality(Voters(i, b)')
      BY <1>1 DEF TallyAt, Voters
    <3>6. FairAt(i)'
      BY <1>1, <3>1, <3>2, <3>3, <3>4, <3>5, FairSettle DEF Open
    <3>7. \A j \in Ids \ {i} : penalties'[j] = penalties[j]
      BY <1>1, <3>1
      DEF SettleVote, TransferFees, HandleNotEnoughVote, Penalise, TypeOK
    <3> QED BY <3>4, <3>6, <3>7
  <2> QED BY <2>1, <2>2, <2>3 DEF ResolveInference
<1>3. ASSUME NEW j \in Ids, j # i
      PROVE  FairAt(j)'
  <2>1. FairAt(j)
    BY DEF FairInv
  <2> QED BY <1>1, <1>2, <1>3, <2>1, FairFrame DEF TypeOK
<1> QED BY <1>2, <1>3 DEF FairInv

\* Every step keeps FairInv.
LEMMA FairNext == IInv /\ FairInv /\ [Next]_vars => FairInv'
<1> SUFFICES ASSUME IInv, FairInv, [Next]_vars PROVE FairInv'
  OBVIOUS
<1>1. TypeOK /\ PhaseInv /\ \A j \in Ids : FairAt(j)
  BY DEF IInv, FairInv
<1>2. ASSUME NEW m \in Models, NEW v \in Values, NEW S \in SUBSET Workers, Infer(m, v, S)
      PROVE  FairInv'
  <2>0. PICK i \in Ids : i = inferenceNumber + 1
    BY <1>1, <1>2, HubAssumption DEF Infer, Ids, TypeOK
  <2>1. status[i] = "Nil"
    BY <1>1, <2>0 DEF PhaseInv, PhaseAt, TypeOK
  <2>2. /\ status' = [status EXCEPT ![i] = "Solving"]
        /\ assigned' = [assigned EXCEPT ![i] = S]
        /\ penalties' = penalties /\ digest' = digest
    BY <1>2, <2>0 DEF Infer, voteVars
  <2>3. FairAt(i)'
    BY <1>1, <2>1, <2>2, FairOpen DEF TypeOK, Open
  <2>4. \A j \in Ids \ {i} : FairAt(j)'
    BY <1>1, <2>1, <2>2, FairFrame DEF TypeOK
  <2> QED BY <2>3, <2>4 DEF FairInv
<1>3. ASSUME NEW i \in Ids, NEW w \in Workers, WorkerStep(i, w)
      PROVE  FairInv'
  <2>1. CASE SeizeMinerRole(i, w)
    BY <1>1, <2>1, FairFrame DEF SeizeMinerRole, requestVars, voteVars, moneyVars, FairInv
  <2>2. ASSUME NEW a \in Answers, SubmitSolution(i, w, a) \/ Commit(i, w, a)
        PROVE  FairInv'
    <3>1. /\ status[i] \in Open /\ status'[i] \in Open
          /\ status' = [status EXCEPT ![i] = status'[i]]
          /\ \A j \in Ids \ {i} : digest'[j] = digest[j]
          /\ assigned' = assigned /\ penalties' = penalties
      BY <1>1, <2>2 DEF SubmitSolution, Commit, requestVars, moneyVars, TypeOK, Open
    <3>2. FairAt(i)'
      BY <1>1, <3>1, FairOpen
    <3>3. \A j \in Ids \ {i} : FairAt(j)'
      BY <1>1, <3>1, FairFrame DEF TypeOK
    <3> QED BY <3>2, <3>3 DEF FairInv
  <2>3. CASE Reveal(i, w)
    BY <2>3, FairReveal
  <2> QED BY <1>3, <2>1, <2>2, <2>3 DEF WorkerStep
<1>4. ASSUME NEW i \in Ids, ResolveInference(i)
      PROVE  FairInv'
  BY <1>4, FairResolve
<1>5. CASE Pause \/ Unpause \/ Tick \/ RegistryStep \/ UNCHANGED vars
  <2>1. UNCHANGED <<requestVars, status, voteVars, moneyVars>>
    BY <1>5 DEF Pause, Unpause, Tick, RegistryStep, vars
  <2> QED BY <1>1, <2>1, FairFrame DEF FairInv, requestVars, voteVars, moneyVars
<1> QED BY <1>2, <1>3, <1>4, <1>5 DEF Next

\* FairInv holds in every reachable state.
LEMMA FairInvariant == Spec => []FairInv
<1>1. Init => FairInv
  BY DEF Init, FairInv, FairAt, PaidAt, HonestAt, UnsettledAt
<1>2. IInv /\ FairInv /\ [Next]_vars => FairInv'
  BY FairNext
<1> QED BY <1>1, <1>2, Invariant, PTL DEF Spec

\* A fee leaves the hub only for an answer of two thirds of the assigned workers.
THEOREM PaymentNeedsTwoThirds == Spec => []PaidMeansTwoThirds
<1>1. FairInv => PaidMeansTwoThirds
  BY DEF FairInv, FairAt, PaidAt, PaidMeansTwoThirds
<1> QED BY <1>1, FairInvariant, PTL

\* A worker that answered is fined only when two thirds of the workers gave another answer.
THEOREM HonestWorkersSafe == Spec => []HonestWorkerSafe
<1>1. FairInv => HonestWorkerSafe
  BY DEF FairInv, FairAt, HonestAt, HonestWorkerSafe
<1> QED BY <1>1, FairInvariant, PTL

-----------------------------------------------------------------------------
(* The deadlines.                                                          *)

\* The time a worker without an answer had for its next duty is over.
DutyOver(i, w) ==
  IF w = processedMiner[i] THEN block > SubmitTimeout(i)
  ELSE IF commitment[i][w] # None THEN block > RevealTimeout(i)
  ELSE block >= CommitTimeout(i)

\* A later deadline implies the earlier one.
LEMMA DeadlinesOrdered ==
  ASSUME TypeOK, NEW i \in Ids
  PROVE  /\ block > RevealTimeout(i) => block > CommitTimeout(i)
         /\ block > CommitTimeout(i) => block >= CommitTimeout(i)
<1>1. /\ SubmitTimeout(i) \in Nat /\ CommitDuration \in Nat /\ RevealDuration \in Nat
      /\ block \in Int
  BY HubAssumption DEF TypeOK, SubmitTimeout
<1> QED BY <1>1 DEF RevealTimeout, CommitTimeout

\* Only the workers named are penalised.
LEMMA OnlyThePenalised ==
  ASSUME TypeOK, NEW i \in Ids, NEW S, NEW penalty, Penalise(i, S, penalty),
         NEW j \in Ids, NEW w \in Workers, penalties'[j][w] # penalties[j][w]
  PROVE  j = i /\ w \in S
BY DEF Penalise, TypeOK

\* Settling a vote penalises workers that showed no answer, or that lost the vote.
LEMMA SettlePenalises ==
  ASSUME TypeOK, NEW i \in Ids, NEW dg, NEW count, SettleVote(i, dg, count),
         NEW j \in Ids, NEW w \in Workers, penalties'[j][w] # penalties[j][w]
  PROVE  j = i /\ w \in assigned[i]
<1>1. CASE TransferFees(i, dg, count)
  BY <1>1, OnlyThePenalised DEF TransferFees, Losers
<1>2. CASE HandleNotEnoughVote(i, dg, count)
  BY <1>2, OnlyThePenalised DEF HandleNotEnoughVote, Silent
<1> QED BY <1>1, <1>2 DEF SettleVote

\* The commit window of an inference is over early only when every validator committed.
LEMMA AllCommitted ==
  ASSUME TypeOK, NEW i \in Ids, TallyAt(i), PhaseAt(i), processedMiner[i] # None,
         totalCommit[i] = Cardinality(assigned[i]) - 1, NEW w \in Validators(i)
  PROVE  commitment[i][w] # None
<1>1. IsFiniteSet(assigned[i])
  <2>1. assigned[i] \in SUBSET Workers
    BY DEF TypeOK
  <2> QED BY <2>1, HubAssumption, FS_Subset
<1>2. processedMiner[i] \in assigned[i]
  BY DEF PhaseAt
<1>3. /\ IsFiniteSet(Validators(i))
      /\ Cardinality(Validators(i)) = Cardinality(assigned[i]) - 1
  BY <1>1, <1>2, FS_RemoveElement DEF Validators
<1>4. Committers(i) \subseteq Validators(i)
  BY DEF Committers
<1>5. Cardinality(Committers(i)) = Cardinality(Validators(i))
  BY <1>3 DEF TallyAt
<1>6. Committers(i) = Validators(i)
  BY <1>3, <1>4, <1>5, FS_Subset
<1> QED BY <1>6 DEF Committers

\* The reveal that completes the vote leaves only those silent that did not commit in time.
LEMMA RevealDeadline ==
  ASSUME IInv, NEW i \in Ids, NEW v \in Workers, Reveal(i, v), NEW j \in Ids,
         NEW w \in Workers, penalties'[j][w] # penalties[j][w], digest'[j][w] = None
  PROVE  DutyOver(j, w)
<1> DEFINE a == commitment[i][v]
           dg == [digest[i] EXCEPT ![v] = a]
           count == Tally(countDigest[i], a)
<1>1. /\ TypeOK /\ PhaseAt(i) /\ TallyAt(i) /\ IInv'
      /\ status[i] \in {"Commit", "Reveal"} /\ CommitWindowOver(i) /\ v \in Validators(i)
      /\ digest[i][v] = None /\ a # None
      /\ digest' = [digest EXCEPT ![i] = dg]
      /\ totalReveal' = [totalReveal EXCEPT ![i] = @ + 1]
      /\ UNCHANGED <<assigned, processedMiner, commitment, totalCommit>>
  BY RevealInv DEF IInv, PhaseInv, TallyMatchesVotes, Reveal, requestVars
<1>2. LastReveal(i) /\ SettleVote(i, dg, count)
  BY DEF Reveal, moneyVars
<1>3. j = i /\ w \in assigned[i]
  <2> HIDE DEF dg, count
  <2> QED BY <1>1, <1>2, SettlePenalises
<1>4. digest'[i] = dg /\ digest[i] \in [Workers -> Answers \cup {None}]
  BY <1>1 DEF TypeOK
<1>5. w # processedMiner[i] /\ processedMiner[i] # None /\ w # v
  <2>1. digest[i][processedMiner[i]] # None /\ processedMiner[i] # None
    BY <1>1 DEF PhaseAt
  <2>2. v # processedMiner[i]
    BY <1>1 DEF Validators
  <2>3. processedMiner[i] \in Workers
    BY <1>1, <2>1 DEF TypeOK
  <2> QED BY <1>1, <1>3, <1>4, <2>1, <2>2, <2>3
<1>6. w \in Validators(i)
  BY <1>3, <1>5 DEF Validators
<1>7. commitment[i][w] = None
  <2>1. TypeOK' /\ TallyAt(i)' /\ PhaseAt(i)'
    BY <1>1 DEF IInv, PhaseInv, TallyMatchesVotes
  <2>2. totalReveal'[i] = totalCommit'[i]
    BY <1>1, <1>2 DEF LastReveal, TypeOK
  <2>3. Revealers(i)' = Committers(i)'
    <3>1. Revealers(i)' \subseteq Committers(i)'
      BY <2>1 DEF Revealers, Committers, Validators, PhaseAt, TypeOK
    <3>2. IsFiniteSet(Committers(i)')
      <4>1. Committers(i)' \in SUBSET Workers
        BY <2>1 DEF Committers, Validators, TypeOK
      <4> QED BY <4>1, HubAssumption, FS_Subset
    <3>3. Cardinality(Revealers(i)') = Cardinality(Committers(i)')
      BY <2>1, <2>2 DEF TallyAt
    <3> QED BY <3>1, <3>2, <3>3, FS_Subset
  <2> QED BY <1>1, <1>3, <1>6, <2>3 DEF Revealers, Committers, Validators
<1>8. block >= CommitTimeout(i)
  BY <1>1, <1>5, <1>6, <1>7, AllCommitted DEF CommitWindowOver
<1> QED BY <1>3, <1>5, <1>7, <1>8 DEF DutyOver

\* resolveInference penalises whoever missed the deadline of the phase it closes.
LEMMA ResolveDeadline ==
  ASSUME IInv, NEW i \in Ids, ResolveInference(i), NEW j \in Ids,
         NEW w \in Workers, penalties'[j][w] # penalties[j][w], digest'[j][w] = None
  PROVE  DutyOver(j, w)
<1>1. /\ TypeOK /\ PhaseAt(i) /\ TallyAt(i) /\ digest' = digest
  BY DEF IInv, PhaseInv, TallyMatchesVotes, ResolveInference, voteVars
<1>2. CASE KillUnsolved(i)
  <2>1. j = i /\ w = processedMiner[i]
    BY <1>1, <1>2, OnlyThePenalised DEF KillUnsolved
  <2>2. SubmitTimeout(i) < block
    BY <1>2 DEF KillUnsolved, Unsolved
  <2>3. SubmitTimeout(i) \in Int /\ block \in Int
    BY <1>1 DEF TypeOK, SubmitTimeout
  <2> QED BY <2>1, <2>2, <2>3 DEF DutyOver
<1>3. CASE AbandonCommit(i)
  <2>1. j = i /\ w \in NotCommitted(i)
    BY <1>1, <1>3, OnlyThePenalised DEF AbandonCommit
  <2>2. status[i] = "Commit" /\ CommitTimeout(i) < block
    BY <1>3 DEF AbandonCommit
  <2>3. commitment[i][w] = None /\ w # processedMiner[i]
    BY <1>1, <2>1, <2>2 DEF NotCommitted, PhaseAt, TypeOK
  <2>4. CommitTimeout(i) \in Int /\ block \in Int
    BY <1>1, HubAssumption DEF TypeOK, SubmitTimeout, CommitTimeout
  <2> QED BY <2>1, <2>2, <2>3, <2>4 DEF DutyOver
<1>4. CASE CloseReveal(i)
  <2>1. /\ SettleVote(i, digest[i], countDigest[i]) /\ status[i] = "Reveal"
        /\ RevealOver(i)
    BY <1>4 DEF CloseReveal
  <2>2. j = i /\ w \in assigned[i]
    BY <1>1, <2>1, SettlePenalises
  <2>3. w # processedMiner[i]
    BY <1>1, <2>1, <2>2 DEF PhaseAt
  <2>4. RevealTimeout(i) < block
    <3>1. totalReveal[i] < totalCommit[i]
      BY <2>1 DEF IInv, RevealPhaseIncomplete
    <3>2. totalReveal[i] \in Nat /\ totalCommit[i] \in Nat
      BY <1>1 DEF TypeOK
    <3> QED BY <2>1, <3>1, <3>2 DEF RevealOver
  <2>5. block > RevealTimeout(i) /\ block >= CommitTimeout(i)
    <3>1. RevealTimeout(i) \in Int /\ block \in Int
      BY <1>1, HubAssumption DEF TypeOK, SubmitTimeout, CommitTimeout, RevealTimeout
    <3> QED BY <1>1, <2>4, <3>1, DeadlinesOrdered
  <2> QED BY <2>2, <2>3, <2>5 DEF DutyOver
<1> QED BY <1>2, <1>3, <1>4 DEF ResolveInference

LEMMA PenaltyDeadline ==
  ASSUME IInv, Next, NEW j \in Ids, NEW w \in Workers,
         penalties'[j][w] # penalties[j][w], digest'[j][w] = None
  PROVE  DutyOver(j, w)
<1>1. ASSUME NEW m \in Models, NEW v \in Values, NEW S \in SUBSET Workers, Infer(m, v, S)
      PROVE  FALSE
  BY <1>1 DEF Infer
<1>2. ASSUME NEW i \in Ids, NEW v \in Workers, WorkerStep(i, v)
      PROVE  DutyOver(j, w)
  <2>1. SeizeMinerRole(i, v) => FALSE
    BY DEF SeizeMinerRole, moneyVars
  <2>2. ASSUME NEW a \in Answers, SubmitSolution(i, v, a) \/ Commit(i, v, a)
        PROVE  FALSE
    BY <2>2 DEF SubmitSolution, Commit, moneyVars
  <2> QED BY <1>2, <2>1, <2>2, RevealDeadline DEF WorkerStep
<1>3. ASSUME NEW i \in Ids, ResolveInference(i)
      PROVE  DutyOver(j, w)
  BY <1>3, ResolveDeadline
<1>4. CASE Pause \/ Unpause \/ Tick \/ RegistryStep
  BY <1>4 DEF Pause, Unpause, Tick, RegistryStep, moneyVars
<1> QED BY <1>1, <1>2, <1>3, <1>4 DEF Next

\* Whoever is penalised without having shown an answer had its time: nobody is by the
\* reveal that completes a vote early, nor while a deadline of its phase runs.
THEOREM DeadlinesRespected == Spec => PenaltyOnlyAfterDeadline
<1> DEFINE OnTime ==
      \A i \in Ids, w \in Workers :
        penalties'[i][w] # penalties[i][w] /\ digest'[i][w] = None =>
          IF w = processedMiner[i] THEN block > SubmitTimeout(i)
          ELSE IF commitment[i][w] # None THEN block > RevealTimeout(i)
          ELSE block >= CommitTimeout(i)
<1>1. IInv /\ [Next]_vars => [OnTime]_vars
  <2> SUFFICES ASSUME IInv, Next, NEW i \in Ids, NEW w \in Workers,
                      penalties'[i][w] # penalties[i][w], digest'[i][w] = None
               PROVE  DutyOver(i, w)
    BY DEF DutyOver
  <2> QED BY PenaltyDeadline
<1>2. Spec => [][OnTime]_vars
  BY <1>1, Invariant, PTL DEF Spec
<1> QED BY <1>2 DEF PenaltyOnlyAfterDeadline

=============================================================================

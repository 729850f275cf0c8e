------------------------------- MODULE StakingHub -------------------------------
(***************************************************************************)
(* The registry of miners and models: who serves which model, what each    *)
(* miner has at stake or is withdrawing, when it may come back after a     *)
(* penalty and what reward its epochs of service have earned.  One action  *)
(* per external function that changes any of this; each is a transaction.  *)
(*                                                                         *)
(* The clock is the block number: timestamps advance with it.  The tier of *)
(* a miner or model only says whether it is registered (maximumTier is 1,  *)
(* and the tiers of models are assumed to fit 16 bits).  Nothing ever      *)
(* pauses this contract.  Every miner joined after the boost of long       *)
(* service was introduced, so that the contract knows since when it serves.*)
(***************************************************************************)
EXTENDS Integers, FiniteSets, FiniteSetsExt

CONSTANTS
  Miners, Models,
  None,                 \* the zero address
  Churners,             \* the miners that do more than register and join
  StakeValues,          \* values the owner may give minerMinimumStake
  RateValues,           \* values of a miner's reward in one epoch
  FinePct,              \* finePercentage, in percent
  UnstakeDelay,         \* unstakeDelayTime
  PenaltyDuration,      \* penaltyDuration, in blocks
  BlocksPerEpoch,
  BoostPeriod,          \* the 30 days of service for which rewards grow by 5 percent, in blocks
  Funding,              \* wEAI provided for rewards
  StakeCap,             \* bound on what all miners have in the contract
  MaxBlock,             \* bound on the blocks
  MaxSettings           \* bound on the owner's changes of values and models

ASSUME StakingAssumption ==
  /\ None \notin Miners \cup Models
  /\ IsFiniteSet(Miners) /\ Churners \subseteq Miners /\ Models # {}
  /\ StakeValues \subseteq Nat \ {0} /\ StakeValues # {}
  /\ RateValues \subseteq Nat /\ RateValues # {}
  /\ FinePct \in 0..100 /\ UnstakeDelay \in Nat /\ PenaltyDuration \in Nat
  /\ BlocksPerEpoch \in Nat \ {0} /\ BoostPeriod \in Nat \ {0} /\ Funding \in Nat /\ StakeCap \in Nat
  /\ MaxBlock \in Nat /\ MaxSettings \in Nat

VARIABLES
  block,
  models,                 \* modelAddresses: the registered models
  miners,                 \* miners[w]: stake, model, lastClaimedEpoch, activeTime, registered,
                          \* and boost[w]: service until, and in force since, its last change
  minerAddresses,         \* the miners that are available
  minerAddressesByModel,  \* and those of each model
  unstakeRequests,        \* unstakeRequests[w]: what w is withdrawing, and from when on
  minerRewards,           \* minerRewards[w]: rewards kept for w
  minStake, rate, settings,
  held,                   \* wEAI of the contract
  served,                 \* history: epochs that ended while the miner was available
  rewarded,               \* history: rewards transferred to the miner
  onDuty,                 \* history: blocks during which it was
  bannedUntil,            \* history: when the miner's latest penalty is over
  raised,                 \* history: the minimum was raised under available miners
  lowRate, topRate        \* history: the lowest and the highest rate there was

sets == <<minerAddresses, minerAddressesByModel>>
parameters == <<minStake, rate, settings, raised, lowRate, topRate>>
history == <<served, onDuty, rewarded, bannedUntil>>
vars == <<block, models, miners, sets, unstakeRequests, minerRewards,
          parameters, held, history>>

NewMiner == [registered |-> FALSE, stake |-> 0, model |-> None,
             lastClaimed |-> 0, activeTime |-> 0, reserved |-> 0, since |-> 0]

Init ==
  /\ block = 0
  /\ models = Models
  /\ miners = [w \in Miners |-> NewMiner]
  /\ minerAddresses = {} /\ minerAddressesByModel = [m \in Models |-> {}]
  /\ unstakeRequests = [w \in Miners |-> [stake |-> 0, unlockAt |-> 0]]
  /\ minerRewards = [w \in Miners |-> 0]
  /\ minStake \in StakeValues /\ rate \in RateValues
  /\ settings = 0 /\ raised = FALSE /\ lowRate = rate /\ topRate = rate
  /\ held = Funding
  /\ served = [w \in Miners |-> 0] /\ onDuty = [w \in Miners |-> 0]
  /\ rewarded = [w \in Miners |-> 0]
  /\ bannedUntil = [w \in Miners |-> 0]

\* Every function first brings currentEpoch up to date, for all the epochs that passed,
\* so that where it is read it only depends on the block.
CurrentEpoch == block \div BlocksPerEpoch

NextBlock ==
  /\ block < MaxBlock
  /\ block' = block + 1
  /\ served' = [w \in Miners |->
       served[w] + IF w \in minerAddresses /\ block' % BlocksPerEpoch = 0 THEN 1 ELSE 0]
  /\ onDuty' = [w \in Miners |-> onDuty[w] + IF w \in minerAddresses THEN 1 ELSE 0]
  /\ UNCHANGED <<models, miners, sets, unstakeRequests, minerRewards,
                 parameters, held, rewarded, bannedUntil>>

-----------------------------------------------------------------------------
(* The owner's settings.                                                    *)

SetMinerMinimumStake(v) ==
  /\ settings < MaxSettings /\ settings' = settings + 1
  /\ minStake' = v
  /\ raised' = (raised \/ (v > minStake /\ minerAddresses # {}))
  /\ UNCHANGED <<block, models, miners, sets, unstakeRequests, minerRewards, rate,
                 lowRate, topRate, held, history>>

SetNewRewardInEpoch(r) ==
  /\ settings < MaxSettings /\ settings' = settings + 1
  /\ rate' = r
  /\ lowRate' = IF r < lowRate THEN r ELSE lowRate
  /\ topRate' = IF r > topRate THEN r ELSE topRate
  /\ UNCHANGED <<block, models, miners, sets, unstakeRequests, minerRewards, minStake,
                 raised, held, history>>

RegisterModel(m) ==
  /\ settings < MaxSettings /\ settings' = settings + 1
  /\ m \notin models
  /\ models' = models \cup {m}
  /\ UNCHANGED <<block, miners, sets, unstakeRequests, minerRewards, minStake, rate,
                 raised, lowRate, topRate, held, history>>

UnregisterModel(m) ==
  /\ settings < MaxSettings /\ settings' = settings + 1
  /\ m \in models
  /\ models' = models \ {m}
  /\ UNCHANGED <<block, miners, sets, unstakeRequests, minerRewards, minStake, rate,
                 raised, lowRate, topRate, held, history>>

-----------------------------------------------------------------------------
(* Registering, joining and leaving.                                        *)

InContract(w) == miners[w].stake + unstakeRequests[w].stake
AllStakes == SumFunctionOnSet([w \in Miners |-> InContract(w)], Miners)

RegisterMiner(w, m) ==
  /\ ~miners[w].registered /\ m \in models
  /\ AllStakes + minStake <= StakeCap
  /\ miners' = [miners EXCEPT ![w].registered = TRUE, ![w].stake = minStake, ![w].model = m]
  /\ held' = held + minStake
  /\ UNCHANGED <<block, models, sets, unstakeRequests, minerRewards, parameters, history>>

AddTo(w, m) == [minerAddressesByModel EXCEPT ![m] = @ \cup {w}]
TakeFrom(w, m) == [minerAddressesByModel EXCEPT ![m] = @ \ {w}]
KeepOldModel(w, from, to) == AddTo(w, to)
MoveTo(w, from, to) == [TakeFrom(w, from) EXCEPT ![to] = @ \cup {w}]

\* Inserting what is in a set, or erasing what is not, reverts.
ForceChangeModelForMiner(w, m) ==
  LET from == miners[w].model
  IN /\ m \in models /\ w \in minerAddresses /\ from # m
     /\ w \in minerAddressesByModel[from] /\ w \notin minerAddressesByModel[m]
     /\ minerAddressesByModel' = MoveTo(w, from, m)
     /\ miners' = [miners EXCEPT ![w].model = m]
     /\ UNCHANGED <<block, models, minerAddresses, unstakeRequests, minerRewards,
                    parameters, held, history>>

LastClaimed(w) == miners[w].lastClaimed
\* No reward is due for the epochs before a miner joins.
StartEpoch(w) == CurrentEpoch
Since(w) == miners[w].since
\* Time away is no service.
StartTime(w) == block

JoinForMinting(w) ==
  LET m == miners[w].model
  IN /\ miners[w].registered
     /\ miners[w].stake >= minStake
     /\ block >= miners[w].activeTime
     /\ w \notin minerAddressesByModel[m] \cup minerAddresses
     /\ minerAddressesByModel' = AddTo(w, m)
     /\ minerAddresses' = minerAddresses \cup {w}
     /\ miners' = [miners EXCEPT ![w].lastClaimed = StartEpoch(w), ![w].since = StartTime(w)]
     /\ UNCHANGED <<block, models, unstakeRequests, minerRewards, parameters, held, history>>

\* The percentage of the rate that a miner earns after time t of service: 5 more for every
\* period, up to 60.
Multiplier(t) ==
  LET periods == t \div BoostPeriod
  IN 100 + 5 * (IF periods >= 12 THEN 12 ELSE periods)

\* The service of an available miner.
Service(w) == miners[w].reserved + block - miners[w].since

\* rewardToClaim: nothing new for a miner that is not available.  All its epochs are paid
\* at the rate and with the multiplier of this moment.
RewardToClaim(w) ==
  minerRewards[w] +
    IF w \in minerAddresses /\ CurrentEpoch > miners[w].lastClaimed
      THEN ((CurrentEpoch - miners[w].lastClaimed) * rate * Multiplier(Service(w))) \div 100
      ELSE 0

\* _claimReward without a transfer.
KeepReward(w) == minerRewards' = [minerRewards EXCEPT ![w] = RewardToClaim(w)]

Cleared(r) == NewMiner
ModelKept(r) == [r EXCEPT !.registered = FALSE, !.stake = 0]
Unregistered(r) == [r EXCEPT !.registered = FALSE, !.stake = 0, !.model = None]

UnregisterMiner(w) ==
  LET r == Unregistered(miners[w])
  IN /\ miners[w].registered
     /\ \/ /\ w \in minerAddresses
           /\ w \in minerAddressesByModel[miners[w].model]
           /\ KeepReward(w)
           /\ miners' = [miners EXCEPT ![w] = [r EXCEPT !.lastClaimed = CurrentEpoch,
                                                       !.reserved = 0, !.since = block]]
           /\ minerAddresses' = minerAddresses \ {w}
           /\ minerAddressesByModel' = TakeFrom(w, miners[w].model)
        \/ /\ w \notin minerAddresses
           /\ miners' = [miners EXCEPT ![w] = r]
           /\ UNCHANGED <<sets, minerRewards>>
     /\ unstakeRequests' = [unstakeRequests EXCEPT
                              ![w] = [stake |-> InContract(w), unlockAt |-> block + UnstakeDelay]]
     /\ UNCHANGED <<block, models, parameters, held, history>>

-----------------------------------------------------------------------------
(* Stakes.                                                                  *)

IncreaseMinerStake(w, amount) ==
  /\ miners[w].registered
  /\ AllStakes + amount <= StakeCap
  /\ miners' = [miners EXCEPT ![w].stake = @ + amount]
  /\ held' = held + amount
  /\ UNCHANGED <<block, models, sets, unstakeRequests, minerRewards, parameters, history>>

UnstakeForMiner(w) ==
  LET stake == unstakeRequests[w].stake
  IN /\ block >= unstakeRequests[w].unlockAt
     /\ stake # 0 /\ stake <= held
     /\ unstakeRequests' = [unstakeRequests EXCEPT ![w].stake = 0]
     /\ held' = held - stake
     /\ UNCHANGED <<block, models, miners, sets, minerRewards, parameters, history>>

\* A miner without a model is given one, as at its registration.
RestakeForMiner(w, m) ==
  /\ unstakeRequests[w].stake # 0
  /\ IF miners[w].model = None THEN m \in models ELSE m = miners[w].model
  /\ unstakeRequests' = [unstakeRequests EXCEPT ![w].stake = 0]
  /\ miners' = [miners EXCEPT ![w].registered = TRUE, ![w].model = m,
                              ![w].stake = @ + unstakeRequests[w].stake]
  /\ UNCHANGED <<block, models, sets, minerRewards, parameters, held, history>>

-----------------------------------------------------------------------------
(* Penalties and rewards.                                                   *)

Fine == (minStake * FinePct) \div 100

\* By the owner or WorkerHub.  The whole fine goes to the treasury, even if the stake
\* is smaller.
SlashMiner(w, isFined) ==
  LET m == miners[w].model
      inModel == w \in minerAddressesByModel[m]
      fine == IF isFined THEN Fine ELSE 0
  IN /\ w \in minerAddresses
     /\ fine <= held
     /\ KeepReward(w)
     /\ minerAddressesByModel' = TakeFrom(w, m)
     /\ minerAddresses' = IF inModel THEN minerAddresses \ {w} ELSE minerAddresses
     /\ miners' = [miners EXCEPT
                     ![w].lastClaimed = CurrentEpoch,
                     ![w].activeTime = block + PenaltyDuration,
                     ![w].stake = IF @ < fine THEN 0 ELSE @ - fine,
                     ![w].reserved = IF isFined THEN 0 ELSE Service(w),
                     ![w].since = block]
     /\ held' = held - fine
     /\ bannedUntil' = [bannedUntil EXCEPT ![w] = block + PenaltyDuration]
     /\ UNCHANGED <<block, models, unstakeRequests, parameters, served, onDuty, rewarded>>

ClaimReward(w) ==
  LET reward == RewardToClaim(w)
  IN /\ reward <= held
     /\ miners' = [miners EXCEPT ![w].lastClaimed = CurrentEpoch]
     /\ minerRewards' = [minerRewards EXCEPT ![w] = 0]
     /\ held' = held - reward
     /\ rewarded' = [rewarded EXCEPT ![w] = @ + reward]
     /\ UNCHANGED <<block, models, sets, unstakeRequests, parameters, served, onDuty,
                    bannedUntil>>

-----------------------------------------------------------------------------
Owner ==
  \/ \E v \in StakeValues : SetMinerMinimumStake(v)
  \/ \E r \in RateValues : SetNewRewardInEpoch(r)
  \/ \E m \in Models : RegisterModel(m) \/ UnregisterModel(m)

Newcomer(w) == (\E m \in Models : RegisterMiner(w, m)) \/ JoinForMinting(w)

Churner(w) ==
  \/ \E m \in Models : RestakeForMiner(w, m) \/ ForceChangeModelForMiner(w, m)
  \/ UnregisterMiner(w) \/ UnstakeForMiner(w)
  \/ \E amount \in StakeValues : IncreaseMinerStake(w, amount)
  \/ \E isFined \in BOOLEAN : SlashMiner(w, isFined)
  \/ ClaimReward(w)

Next ==
  \/ NextBlock \/ Owner
  \/ \E w \in Miners : Newcomer(w)
  \/ \E w \in Churners : Churner(w)

Spec == Init /\ [][Next]_vars
=============================================================================

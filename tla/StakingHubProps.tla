---------------------------- MODULE StakingHubProps ----------------------------
(***************************************************************************)
(* What StakingHub owes its miners and WorkerHub.                          *)
(***************************************************************************)
EXTENDS StakingHub

MinerType ==
  [registered : BOOLEAN, stake : Nat, model : Models \cup {None},
   lastClaimed : Nat, activeTime : Nat, reserved : Nat, since : Nat]

\* Every variable keeps its type; in particular no stake and no balance is negative,
\* and a miner is registered exactly when it has a model.
TypeOK ==
  /\ block \in Nat
  /\ models \subseteq Models
  /\ miners \in [Miners -> MinerType]
  /\ \A w \in Miners : miners[w].registered <=> miners[w].model # None
  /\ minerAddresses \subseteq Miners
  /\ minerAddressesByModel \in [Models -> SUBSET Miners]
  /\ unstakeRequests \in [Miners -> [stake : Nat, unlockAt : Nat]]
  /\ minerRewards \in [Miners -> Nat]
  /\ minStake \in StakeValues /\ rate \in RateValues
  /\ settings \in Nat /\ raised \in BOOLEAN /\ lowRate \in Nat /\ topRate \in Nat
  /\ held \in Nat
  /\ served \in [Miners -> Nat] /\ onDuty \in [Miners -> Nat] /\ rewarded \in [Miners -> Nat]
  /\ bannedUntil \in [Miners -> Nat]

\* The two records of who is available agree: a miner is in the set of all miners
\* exactly when it is in the set of its own model, it is in no other model's set, and it
\* is registered.  Otherwise a slash would leave the miner available (_slashMiner takes
\* it out of both sets or of neither).
SetsAgree ==
  /\ \A w \in Miners, m \in Models :
       w \in minerAddressesByModel[m] <=> (w \in minerAddresses /\ miners[w].model = m)
  /\ \A w \in minerAddresses : miners[w].registered

\* Nobody is available before its latest penalty is over, also not by unregistering,
\* withdrawing or restaking and registering again.
PenaltyServed == \A w \in minerAddresses : block >= bannedUntil[w]

\* The most a miner can have earned: the highest rate there was, for every epoch that ended
\* while it was available, with the boost of all the time it ever was.
MostEarned(w) == (topRate * served[w] * Multiplier(onDuty[w])) \div 100

\* What a miner has been paid and what it can claim together are the reward of the epochs
\* that ended while it was available, whatever it did in between: at least the lowest rate
\* there was for each of them, and at most MostEarned.  An epoch before it joined, during a
\* penalty or already claimed, and a boost for time away, would be too much; an epoch
\* forgotten by a slash, a move or a departure would be too little.
RewardsEarned ==
  \A w \in Miners :
    LET due == rewarded[w] + RewardToClaim(w)
    IN lowRate * served[w] <= due /\ due <= MostEarned(w)

\* The stakes and the withdrawals of all miners are in the contract, as long as what was
\* provided for rewards covers what the miners can have earned.  (Rewards and stakes are
\* one balance, and a claim only fails if all of it is too little.)  Not so after the
\* minimum stake was raised while miners were available: a fine, of which the whole leaves
\* the contract, is then more than a stake may hold.
StakesBacked ==
  ~raised /\ SumFunctionOnSet([w \in Miners |-> MostEarned(w)], Miners) <= Funding
    => AllStakes <= held

-----------------------------------------------------------------------------
\* The model whose set the miner is in.
ServedModel(w) ==
  IF \E m \in Models : w \in minerAddressesByModel[m]
    THEN CHOOSE m \in Models : w \in minerAddressesByModel[m] ELSE None

Registry == INSTANCE MinerRegistry
  WITH Workers <- Miners, minerModel <- [w \in Miners |-> ServedModel(w)]

\* What the specification of WorkerHub assumes of the registry is what StakingHub does:
\* the miners of the models' sets join, leave, change and are slashed as in MinerRegistry.
RegistrySpec == Registry!RegistrySpec
=============================================================================

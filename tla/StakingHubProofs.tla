---------------------------- MODULE StakingHubProofs ----------------------------
(***************************************************************************)
(* Theorems about StakingHub, for every set of miners and models and every *)
(* setting: its types, the agreement of its two records of who is          *)
(* available, that nobody is available during a penalty, that rewards are  *)
(* earned and stakes backed.                                               *)
(***************************************************************************)
EXTENDS StakingHubProps, SumLemmas, TLAPS

\* A miner's own clock never runs out before the penalty it stands for, and its service is
\* never counted from a time to come.
ClockKept ==
  \A w \in Miners : miners[w].activeTime >= bannedUntil[w] /\ miners[w].since <= block

\* The inductive invariant.
IInv == TypeOK /\ SetsAgree /\ ClockKept /\ PenaltyServed

-----------------------------------------------------------------------------
(* Arithmetic.                                                              *)

\* Epochs are counted from 0.
LEMMA EpochIsNat ==
  ASSUME block \in Nat
  PROVE  CurrentEpoch \in Nat
BY StakingAssumption DEF CurrentEpoch

\* A fine is an amount of tokens.
LEMMA FineIsNat ==
  ASSUME minStake \in StakeValues
  PROVE  Fine \in Nat
<1>1. minStake \in Nat /\ FinePct \in Nat
  BY StakingAssumption
<1>2. minStake * FinePct \in Nat
  BY <1>1
<1> QED BY <1>2 DEF Fine

\* A quotient of natural numbers is one.
LEMMA QuotientIsNat == ASSUME NEW a \in Nat, NEW b \in Nat \ {0} PROVE a \div b \in Nat
OBVIOUS

\* The rate is paid at least once.
LEMMA MultiplierIsNat ==
  ASSUME NEW t \in Nat
  PROVE  Multiplier(t) \in Nat /\ Multiplier(t) >= 100
<1> DEFINE p == t \div BoostPeriod
           c == IF p >= 12 THEN 12 ELSE p
<1>1. p \in Nat
  BY QuotientIsNat, StakingAssumption
<1> HIDE DEF p
<1>2. c \in Nat
  BY <1>1
<1>3. Multiplier(t) = 100 + 5 * c
  BY DEF Multiplier, p
<1> HIDE DEF c
<1> QED BY <1>2, <1>3

\* The service of a miner is a span of time.
LEMMA ServiceIsNat ==
  ASSUME TypeOK, ClockKept, NEW w \in Miners
  PROVE  Service(w) \in Nat
<1>1. /\ miners[w].reserved \in Nat /\ miners[w].since \in Nat /\ block \in Nat
      /\ miners[w].since <= block
  BY DEF TypeOK, MinerType, ClockKept
<1> QED BY <1>1 DEF Service

\* What the epochs since the last claim are worth.
New(w) == ((CurrentEpoch - miners[w].lastClaimed) * rate * Multiplier(Service(w))) \div 100

\* A reward is an amount of tokens.
LEMMA RewardIsNat ==
  ASSUME TypeOK, ClockKept, NEW w \in Miners
  PROVE  RewardToClaim(w) \in Nat
<1>1. CurrentEpoch \in Nat /\ rate \in Nat /\ Multiplier(Service(w)) \in Nat
  BY EpochIsNat, MultiplierIsNat, ServiceIsNat, StakingAssumption DEF TypeOK
<1>2. miners[w].lastClaimed \in Nat /\ minerRewards[w] \in Nat
  BY DEF TypeOK, MinerType
<1>3. CASE w \in minerAddresses /\ CurrentEpoch > miners[w].lastClaimed
  <2> DEFINE n == CurrentEpoch - miners[w].lastClaimed
             k == Multiplier(Service(w))
  <2>1. n \in Nat /\ k \in Nat
    BY <1>1, <1>2, <1>3
  <2> HIDE DEF n, k
  <2>2. n * rate \in Nat
    BY <2>1, <1>1
  <2>3. n * rate * k \in Nat
    BY <2>1, <2>2
  <2>4. (n * rate * k) \div 100 \in Nat
    BY <2>3
  <2>5. RewardToClaim(w) = minerRewards[w] + ((n * rate * k) \div 100)
    BY <1>3 DEF RewardToClaim, n, k
  <2> QED BY <1>2, <2>4, <2>5
<1>4. CASE ~(w \in minerAddresses /\ CurrentEpoch > miners[w].lastClaimed)
  BY <1>2, <1>4 DEF RewardToClaim
<1> QED BY <1>3, <1>4

-----------------------------------------------------------------------------
(* The initial state.                                                       *)

\* At the start nobody is registered, so that every part of the invariant holds.
LEMMA InitInv == Init => IInv
<1> SUFFICES ASSUME Init PROVE IInv
  OBVIOUS
<1>1. TypeOK
  BY StakingAssumption DEF Init, TypeOK, MinerType, NewMiner
<1>2. SetsAgree /\ ClockKept /\ PenaltyServed
  BY StakingAssumption DEF Init, SetsAgree, ClockKept, PenaltyServed, NewMiner
<1> QED BY <1>1, <1>2 DEF IInv

-----------------------------------------------------------------------------
(* The steps.  Each lemma is about one function of the contract.            *)

\* Time only takes miners further from their penalties.
LEMMA NextBlockInv == ASSUME IInv, NextBlock PROVE IInv'
<1>1. block' = block + 1 /\ block \in Nat
  BY DEF NextBlock, IInv, TypeOK
<1>2. served' \in [Miners -> Nat] /\ onDuty' \in [Miners -> Nat]
  BY DEF NextBlock, IInv, TypeOK
<1>3. TypeOK'
  BY <1>1, <1>2 DEF NextBlock, IInv, TypeOK, MinerType, sets, parameters
<1>4. SetsAgree' /\ ClockKept'
  <2>1. SetsAgree'
    BY DEF NextBlock, IInv, SetsAgree, sets
  <2>2. UNCHANGED <<miners, bannedUntil>> /\ \A w \in Miners : miners[w].since \in Nat
    BY DEF NextBlock, IInv, TypeOK, MinerType
  <2> QED BY <1>1, <2>1, <2>2 DEF IInv, ClockKept
<1>5. PenaltyServed'
  <2> SUFFICES ASSUME NEW w \in minerAddresses' PROVE (block >= bannedUntil[w])'
    BY DEF PenaltyServed
  <2>1. w \in minerAddresses /\ w \in Miners /\ bannedUntil'[w] = bannedUntil[w]
    BY DEF NextBlock, sets, IInv, TypeOK
  <2>2. bannedUntil[w] \in Nat /\ block >= bannedUntil[w]
    BY <2>1 DEF IInv, TypeOK, PenaltyServed
  <2> QED BY <1>1, <2>1, <2>2
<1> QED BY <1>3, <1>4, <1>5 DEF IInv

\* The owner's values and the list of models are read elsewhere, but no record changes.
LEMMA OwnerInv == ASSUME IInv, Owner PROVE IInv'
<1>1. UNCHANGED <<block, miners, sets, unstakeRequests, minerRewards, held, history>>
  BY DEF Owner, SetMinerMinimumStake, SetNewRewardInEpoch, RegisterModel, UnregisterModel
<1>2. /\ models \subseteq Models /\ minStake \in StakeValues /\ rate \in RateValues
      /\ settings \in Nat /\ raised \in BOOLEAN /\ lowRate \in Nat /\ topRate \in Nat
      /\ RateValues \subseteq Nat
  BY StakingAssumption DEF IInv, TypeOK
<1> DEFINE Typed ==
      /\ models' \subseteq Models /\ minStake' \in StakeValues /\ rate' \in RateValues
      /\ settings' \in Nat /\ raised' \in BOOLEAN /\ lowRate' \in Nat /\ topRate' \in Nat
<1>3. Typed
  <2>1. ASSUME NEW v \in StakeValues, SetMinerMinimumStake(v) PROVE Typed
    <3>1. settings' = settings + 1 /\ minStake' = v /\ UNCHANGED <<models, rate, lowRate, topRate>>
      BY <2>1 DEF SetMinerMinimumStake
    <3>2. raised' \in BOOLEAN
      BY <2>1 DEF SetMinerMinimumStake
    <3> QED BY <1>2, <3>1, <3>2
  <2>2. ASSUME NEW r \in RateValues, SetNewRewardInEpoch(r) PROVE Typed
    <3>1. settings' = settings + 1 /\ rate' = r /\ UNCHANGED <<models, minStake, raised>>
      BY <2>2 DEF SetNewRewardInEpoch
    <3>2. lowRate' \in Nat /\ topRate' \in Nat
      BY <1>2, <2>2 DEF SetNewRewardInEpoch
    <3> QED BY <1>2, <3>1, <3>2
  <2>3. ASSUME NEW m \in Models, RegisterModel(m) \/ UnregisterModel(m) PROVE Typed
    BY <1>2, <2>3 DEF RegisterModel, UnregisterModel
  <2> QED BY <2>1, <2>2, <2>3 DEF Owner
<1>4. TypeOK'
  BY <1>1, <1>3 DEF IInv, TypeOK, MinerType, sets, history
<1>5. SetsAgree' /\ ClockKept' /\ PenaltyServed'
  BY <1>1 DEF IInv, SetsAgree, ClockKept, PenaltyServed, sets, history
<1> QED BY <1>4, <1>5 DEF IInv

-----------------------------------------------------------------------------

\* What the functions about one miner leave alone.
LEMMA Parameters ==
  ASSUME IInv, UNCHANGED <<block, models, parameters>>
  PROVE  /\ (block \in Nat)' /\ (models \subseteq Models)'
         /\ (minStake \in StakeValues)' /\ (rate \in RateValues)'
         /\ (settings \in Nat)' /\ (raised \in BOOLEAN)'
         /\ (lowRate \in Nat)' /\ (topRate \in Nat)'
BY DEF IInv, TypeOK, parameters

\* Stakes move between a miner, its request and its wallet: none of the sets and clocks
\* changes, and the miner stays registered, or is registered now, with a model.
LEMMA StakeStepInv ==
  ASSUME IInv, NEW w \in Miners, NEW m \in Models,
         \/ RegisterMiner(w, m)
         \/ RestakeForMiner(w, m)
         \/ UnstakeForMiner(w)
         \/ \E amount \in StakeValues : IncreaseMinerStake(w, amount)
  PROVE  IInv'
<1>1. UNCHANGED <<block, models, parameters, sets, minerRewards, history>>
  BY DEF RegisterMiner, RestakeForMiner, UnstakeForMiner, IncreaseMinerStake
<1> DEFINE Changes ==
      /\ \A x \in Miners \ {w} : miners'[x] = miners[x]
      /\ miners' \in [Miners -> MinerType] /\ miners'[w].activeTime = miners[w].activeTime
      /\ miners'[w].since = miners[w].since
      /\ held' \in Nat /\ unstakeRequests' \in [Miners -> [stake : Nat, unlockAt : Nat]]
      /\ miners'[w].registered <=> miners'[w].model # None
      /\ miners[w].registered => miners'[w].registered /\ miners'[w].model = miners[w].model
<1>2. Changes
  <2> USE DEF IInv, TypeOK, MinerType
  <2>0. minStake \in Nat /\ \A v \in StakeValues : v \in Nat
    BY StakingAssumption
  <2>00. None \notin Models
    BY StakingAssumption
  <2>1. CASE RegisterMiner(w, m)
    BY <2>0, <2>00, <2>1 DEF RegisterMiner
  <2>2. CASE RestakeForMiner(w, m)
    <3> DEFINE r == [miners[w] EXCEPT !.registered = TRUE, !.model = m,
                                      !.stake = @ + unstakeRequests[w].stake]
    <3>1. miners' = [miners EXCEPT ![w] = r]
      BY <2>2 DEF RestakeForMiner
    <3>2. miners[w] \in MinerType /\ unstakeRequests[w].stake \in Nat
      OBVIOUS
    <3>3. /\ r \in MinerType /\ r.registered /\ r.model = m
          /\ r.activeTime = miners[w].activeTime /\ r.since = miners[w].since
      <4> DEFINE n == miners[w].stake + unstakeRequests[w].stake
      <4>1. n \in Nat /\ r = [miners[w] EXCEPT !.registered = TRUE, !.model = m, !.stake = n]
        BY <3>2
      <4> HIDE DEF n, r
      <4> QED BY <3>2, <4>1
    <3>4. miners[w].registered => m = miners[w].model
      BY <2>2 DEF RestakeForMiner
    <3>5. held' \in Nat /\ unstakeRequests' \in [Miners -> [stake : Nat, unlockAt : Nat]]
      BY <2>2 DEF RestakeForMiner
    <3> HIDE DEF r
    <3> QED BY <2>00, <3>1, <3>3, <3>4, <3>5
  <2>3. CASE UnstakeForMiner(w)
    BY <2>3 DEF UnstakeForMiner
  <2>4. ASSUME NEW amount \in StakeValues, IncreaseMinerStake(w, amount) PROVE Changes
    <3> DEFINE r == [miners[w] EXCEPT !.stake = @ + amount]
    <3>1. miners' = [miners EXCEPT ![w] = r]
      BY <2>4 DEF IncreaseMinerStake
    <3>2. miners[w] \in MinerType /\ amount \in Nat
      BY <2>0
    <3>3. /\ r \in MinerType /\ r.registered = miners[w].registered
          /\ r.model = miners[w].model /\ r.activeTime = miners[w].activeTime
          /\ r.since = miners[w].since
      BY <3>2, SMTT(20)
    <3>4. held' \in Nat /\ unstakeRequests' \in [Miners -> [stake : Nat, unlockAt : Nat]]
      BY <2>0, <2>4 DEF IncreaseMinerStake
    <3> HIDE DEF r
    <3> QED BY <3>1, <3>3, <3>4
  <2> QED BY <2>1, <2>2, <2>3, <2>4
<1>3. TypeOK'
  <2>1. \A x \in Miners : miners'[x].registered <=> miners'[x].model # None
    BY <1>2 DEF IInv, TypeOK
  <2> HIDE DEF Changes
  <2>2. /\ miners' \in [Miners -> MinerType] /\ held' \in Nat
        /\ unstakeRequests' \in [Miners -> [stake : Nat, unlockAt : Nat]]
    BY <1>2 DEF Changes
  <2> QED BY <1>1, <2>1, <2>2, Parameters DEF IInv, TypeOK, sets, history
<1>4. SetsAgree'
  <2>1. \A x \in minerAddresses : miners'[x].registered /\ miners'[x].model = miners[x].model
    BY <1>2 DEF IInv, SetsAgree, TypeOK
  <2>2. UNCHANGED <<minerAddresses, minerAddressesByModel>> /\ minerAddresses \subseteq Miners
    BY <1>1 DEF sets, IInv, TypeOK
  <2> HIDE DEF Changes
  <2> QED BY <2>1, <2>2 DEF IInv, SetsAgree
<1>5. ClockKept' /\ PenaltyServed'
  <2>1. UNCHANGED <<block, bannedUntil, minerAddresses>>
    BY <1>1 DEF sets, history
  <2>2. \A x \in Miners : miners'[x].activeTime = miners[x].activeTime
                         /\ miners'[x].since = miners[x].since
    BY <1>2
  <2> HIDE DEF Changes
  <2> QED BY <2>1, <2>2 DEF IInv, ClockKept, PenaltyServed
<1> QED BY <1>3, <1>4, <1>5 DEF IInv

\* What the functions that move a miner between the sets share: one miner's record, its
\* kept reward and its request change, and the contract's balance with them.
LEMMA TypesKept ==
  ASSUME TypeOK, NEW w \in Miners, NEW r \in MinerType,
         UNCHANGED <<block, models, parameters, served, onDuty>>,
         miners' = [miners EXCEPT ![w] = r], r.registered <=> r.model # None,
         minerAddresses' \subseteq Miners,
         minerAddressesByModel' \in [Models -> SUBSET Miners],
         unstakeRequests' \in [Miners -> [stake : Nat, unlockAt : Nat]],
         minerRewards' \in [Miners -> Nat], held' \in Nat,
         rewarded' \in [Miners -> Nat], bannedUntil' \in [Miners -> Nat]
  PROVE  TypeOK'
<1>1. miners' \in [Miners -> MinerType]
  BY DEF TypeOK
<1>2. \A x \in Miners : miners'[x].registered <=> miners'[x].model # None
  BY DEF TypeOK
<1> QED BY <1>1, <1>2 DEF TypeOK, parameters

\* Keeping a reward keeps the type of the rewards.
LEMMA KeepRewardType ==
  ASSUME TypeOK, ClockKept, NEW w \in Miners, KeepReward(w)
  PROVE  minerRewards' \in [Miners -> Nat]
BY RewardIsNat DEF KeepReward, TypeOK

\* The owner moves an available miner: it leaves one model's set and enters another's.
LEMMA ForceChangeInv ==
  ASSUME IInv, NEW w \in Miners, NEW m \in Models, ForceChangeModelForMiner(w, m)
  PROVE  IInv'
<1> DEFINE r == [miners[w] EXCEPT !.model = m]
<1>0. miners[w] \in MinerType /\ w \in minerAddresses /\ m # None /\ miners[w].registered
  BY StakingAssumption DEF ForceChangeModelForMiner, IInv, TypeOK, SetsAgree
<1>1. /\ miners' = [miners EXCEPT ![w] = r] /\ r \in MinerType
      /\ r.registered /\ r.model = m /\ r.activeTime = miners[w].activeTime
      /\ r.since = miners[w].since
  BY <1>0 DEF ForceChangeModelForMiner, MinerType
<1>2. miners[w].model \in Models
  BY <1>0 DEF IInv, TypeOK, MinerType
<1>3. \A k \in Models :
        minerAddressesByModel'[k] = IF k = m THEN minerAddressesByModel[k] \cup {w}
                                    ELSE minerAddressesByModel[k] \ {w}
  BY <1>0, <1>2 DEF ForceChangeModelForMiner, MoveTo, TakeFrom, IInv, TypeOK, SetsAgree
<1>4. minerAddressesByModel' \in [Models -> SUBSET Miners]
  BY <1>2 DEF ForceChangeModelForMiner, MoveTo, TakeFrom, IInv, TypeOK
<1>5. UNCHANGED <<block, models, minerAddresses, unstakeRequests, minerRewards, parameters,
                  held, served, onDuty, rewarded, bannedUntil>>
  BY DEF ForceChangeModelForMiner, history
<1> HIDE DEF r
<1>6. TypeOK'
  BY <1>0, <1>1, <1>4, <1>5, TypesKept DEF IInv, TypeOK
<1>7. \A x \in Miners : miners'[x] = IF x = w THEN r ELSE miners[x]
  BY <1>1 DEF IInv, TypeOK
<1>8. SetsAgree'
  <2>1. ASSUME NEW x \in Miners, NEW k \in Models
        PROVE  x \in minerAddressesByModel'[k] <=> (x \in minerAddresses /\ miners'[x].model = k)
    <3>1. x \in minerAddressesByModel[k] <=> (x \in minerAddresses /\ miners[x].model = k)
      BY DEF IInv, SetsAgree
    <3>2. CASE x = w
      <4>1. miners'[x].model = m /\ x \in minerAddresses
        BY <1>0, <1>1, <1>7, <3>2
      <4>2. x \in minerAddressesByModel'[k] <=> k = m
        BY <1>3, <3>2
      <4> QED BY <4>1, <4>2
    <3>3. CASE x # w
      BY <1>3, <1>7, <3>1, <3>3
    <3> QED BY <3>2, <3>3
  <2>2. \A x \in minerAddresses : miners'[x].registered
    BY <1>1, <1>7 DEF IInv, SetsAgree, TypeOK
  <2> QED BY <1>5, <2>1, <2>2 DEF SetsAgree
<1>9. ClockKept' /\ PenaltyServed'
  BY <1>1, <1>5, <1>7 DEF IInv, ClockKept, PenaltyServed
<1> QED BY <1>6, <1>8, <1>9 DEF IInv

\* A miner enters both sets, after its penalty.
LEMMA JoinInv ==
  ASSUME IInv, NEW w \in Miners, JoinForMinting(w)
  PROVE  IInv'
<1> DEFINE m == miners[w].model
           r == [miners[w] EXCEPT !.lastClaimed = StartEpoch(w), !.since = StartTime(w)]
<1>0. miners[w] \in MinerType /\ miners[w].registered /\ m \in Models /\ w \notin minerAddresses
  BY DEF JoinForMinting, IInv, TypeOK, MinerType
<1>1. StartEpoch(w) \in Nat /\ StartTime(w) = block /\ block \in Nat
  BY EpochIsNat DEF StartEpoch, StartTime, IInv, TypeOK
<1>2. /\ miners' = [miners EXCEPT ![w] = r] /\ r \in MinerType
      /\ r.registered = miners[w].registered /\ r.model = m
      /\ r.activeTime = miners[w].activeTime /\ r.since = block
  BY <1>0, <1>1 DEF JoinForMinting, MinerType
<1>3. /\ minerAddressesByModel' \in [Models -> SUBSET Miners]
      /\ minerAddresses' = minerAddresses \cup {w}
      /\ \A k \in Models : minerAddressesByModel'[k] =
           IF k = m THEN minerAddressesByModel[k] \cup {w} ELSE minerAddressesByModel[k]
  BY <1>0 DEF JoinForMinting, AddTo, IInv, TypeOK
<1>4. UNCHANGED <<block, models, unstakeRequests, minerRewards, parameters,
                  held, served, onDuty, rewarded, bannedUntil>>
  BY DEF JoinForMinting, history
<1>5. block >= miners[w].activeTime /\ miners[w].activeTime >= bannedUntil[w]
  BY DEF JoinForMinting, IInv, ClockKept
<1> HIDE DEF r, m
<1>6. r.registered <=> r.model # None
  BY <1>2 DEF IInv, TypeOK, m
<1>7. TypeOK'
  BY <1>2, <1>3, <1>4, <1>6, TypesKept DEF IInv, TypeOK
<1>8. \A x \in Miners : miners'[x] = IF x = w THEN r ELSE miners[x]
  BY <1>2 DEF IInv, TypeOK
<1>9. SetsAgree'
  <2>1. ASSUME NEW x \in Miners, NEW k \in Models
        PROVE  x \in minerAddressesByModel'[k] <=> (x \in minerAddresses' /\ miners'[x].model = k)
    <3>1. x \in minerAddressesByModel[k] <=> (x \in minerAddresses /\ miners[x].model = k)
      BY DEF IInv, SetsAgree
    <3>2. CASE x = w
      BY <1>0, <1>2, <1>3, <1>8, <3>1, <3>2 DEF m
    <3>3. CASE x # w
      BY <1>3, <1>8, <3>1, <3>3
    <3> QED BY <3>2, <3>3
  <2>2. ASSUME NEW x \in minerAddresses' PROVE miners'[x].registered
    <3>1. x = w \/ (x \in minerAddresses /\ x # w)
      BY <1>3
    <3>2. minerAddresses \subseteq Miners /\ \A y \in minerAddresses : miners[y].registered
      BY DEF IInv, TypeOK, SetsAgree
    <3>3. CASE x = w
      BY <1>0, <1>2, <1>8, <3>3
    <3>4. CASE x \in minerAddresses /\ x # w
      BY <1>8, <3>2, <3>4
    <3> QED BY <3>1, <3>3, <3>4
  <2> QED BY <2>1, <2>2 DEF SetsAgree
<1>10. ClockKept'
  BY <1>1, <1>2, <1>4, <1>8 DEF IInv, ClockKept
<1>11. PenaltyServed'
  <2>1. block \in Nat /\ miners[w].activeTime \in Nat /\ bannedUntil[w] \in Nat
    BY <1>0 DEF IInv, TypeOK, MinerType
  <2> QED BY <2>1, <1>3, <1>4, <1>5 DEF IInv, PenaltyServed
<1> QED BY <1>7, <1>9, <1>10, <1>11 DEF IInv

\* Leaving for good takes a miner out of both sets or finds it in neither, and keeps the
\* time before which it may not come back.
LEMMA UnregisterInv ==
  ASSUME IInv, NEW w \in Miners, UnregisterMiner(w)
  PROVE  IInv'
<1> DEFINE m == miners[w].model
           q == [Unregistered(miners[w]) EXCEPT !.lastClaimed = CurrentEpoch,
                                                !.reserved = 0, !.since = block]
<1>0. /\ miners[w] \in MinerType /\ CurrentEpoch \in Nat /\ m \in Models /\ block \in Nat
  BY EpochIsNat DEF UnregisterMiner, IInv, TypeOK, MinerType
<1>1. PICK r \in {Unregistered(miners[w]), q} : miners' = [miners EXCEPT ![w] = r]
  BY DEF UnregisterMiner
<1>2. /\ r \in MinerType /\ ~r.registered /\ r.model = None
      /\ r.activeTime = miners[w].activeTime /\ r.since \in {miners[w].since, block}
  <2> DEFINE u == Unregistered(miners[w])
  <2>1. /\ u \in MinerType /\ ~u.registered /\ u.model = None
        /\ u.activeTime = miners[w].activeTime /\ u.since = miners[w].since
    BY <1>0 DEF Unregistered, MinerType
  <2>2. q = [u EXCEPT !.lastClaimed = CurrentEpoch, !.reserved = 0, !.since = block]
    OBVIOUS
  <2> HIDE DEF u, q
  <2>3. /\ q \in MinerType /\ ~q.registered /\ q.model = None
        /\ q.activeTime = miners[w].activeTime /\ q.since = block
    BY <1>0, <2>1, <2>2 DEF MinerType
  <2>4. r = u \/ r = q
    BY DEF u
  <2> QED BY <2>1, <2>3, <2>4
<1>3. /\ minerAddressesByModel' \in [Models -> SUBSET Miners]
      /\ minerAddresses' = minerAddresses \ {w}
      /\ \A k \in Models : minerAddressesByModel'[k] = minerAddressesByModel[k] \ {w}
  <2>1. CASE w \in minerAddresses
    <3>1. minerAddresses' = minerAddresses \ {w}
          /\ minerAddressesByModel' = [minerAddressesByModel EXCEPT ![m] = @ \ {w}]
      BY <2>1 DEF UnregisterMiner, TakeFrom
    <3>2. minerAddressesByModel \in [Models -> SUBSET Miners]
          /\ \A k \in Models : w \in minerAddressesByModel[k] => k = m
      BY DEF IInv, TypeOK, SetsAgree
    <3> HIDE DEF m, q
    <3> QED BY <1>0, <3>1, <3>2
  <2>2. CASE w \notin minerAddresses
    BY <2>2 DEF UnregisterMiner, sets, IInv, TypeOK, SetsAgree
  <2> QED BY <2>1, <2>2
<1>4. minerRewards' \in [Miners -> Nat]
  BY KeepRewardType DEF UnregisterMiner, IInv, TypeOK
<1>5. unstakeRequests' \in [Miners -> [stake : Nat, unlockAt : Nat]]
  <2>1. block + UnstakeDelay \in Nat
    BY StakingAssumption DEF IInv, TypeOK
  <2>2. InContract(w) \in Nat
    BY <1>0 DEF InContract, IInv, TypeOK, MinerType
  <2> QED BY <2>1, <2>2 DEF UnregisterMiner, IInv, TypeOK
<1>6. UNCHANGED <<block, models, parameters, held, served, onDuty, rewarded, bannedUntil>>
  BY DEF UnregisterMiner, history
<1> HIDE DEF m, q
<1>7. TypeOK'
  BY <1>1, <1>2, <1>3, <1>4, <1>5, <1>6, TypesKept DEF IInv, TypeOK
<1>8. \A x \in Miners : miners'[x] = IF x = w THEN r ELSE miners[x]
  BY <1>1 DEF IInv, TypeOK
<1>9. SetsAgree'
  BY <1>2, <1>3, <1>8, StakingAssumption DEF IInv, SetsAgree, TypeOK
<1>10. ClockKept' /\ PenaltyServed'
  <2>1. PenaltyServed'
    BY <1>3, <1>6 DEF IInv, PenaltyServed
  <2>2. \A x \in Miners : /\ miners'[x].activeTime = miners[x].activeTime
                         /\ miners'[x].since \in {miners[x].since, block}
    BY <1>2, <1>8
  <2> QED BY <1>0, <1>6, <2>1, <2>2 DEF IInv, ClockKept
<1> QED BY <1>7, <1>9, <1>10 DEF IInv

\* A penalty takes the miner out of both sets, as they agree on it, and its clock runs
\* as long as the penalty.
LEMMA SlashInv ==
  ASSUME IInv, NEW w \in Miners, NEW isFined \in BOOLEAN, SlashMiner(w, isFined)
  PROVE  IInv'
<1> DEFINE m == miners[w].model
           fine == IF isFined THEN Fine ELSE 0
           stake == IF miners[w].stake < fine THEN 0 ELSE miners[w].stake - fine
           until == block + PenaltyDuration
           time == IF isFined THEN 0 ELSE Service(w)
           r == [miners[w] EXCEPT !.lastClaimed = CurrentEpoch, !.activeTime = until,
                                  !.stake = stake, !.reserved = time, !.since = block]
<1>0. /\ miners[w] \in MinerType /\ CurrentEpoch \in Nat /\ block \in Nat /\ until \in Nat
      /\ fine \in Nat /\ w \in minerAddresses /\ miners[w].registered /\ m \in Models
      /\ w \in minerAddressesByModel[m] /\ held \in Nat /\ fine <= held
  <2>1. /\ miners[w] \in MinerType /\ block \in Nat /\ held \in Nat /\ w \in minerAddresses
        /\ fine <= held
    BY DEF IInv, TypeOK, SlashMiner
  <2>2. CurrentEpoch \in Nat /\ until \in Nat
    BY <2>1, EpochIsNat, StakingAssumption
  <2>3. fine \in Nat
    BY FineIsNat DEF IInv, TypeOK
  <2>4. miners[w].registered /\ m \in Models
    BY <2>1 DEF IInv, TypeOK, SetsAgree, MinerType
  <2>5. w \in minerAddressesByModel[m]
    BY <2>1, <2>4 DEF IInv, SetsAgree
  <2> HIDE DEF m, fine, until
  <2> QED BY <2>1, <2>2, <2>3, <2>4, <2>5
<1>1. stake \in Nat /\ time \in Nat
  <2>0. time \in Nat
    BY ServiceIsNat DEF IInv
  <2>1. miners[w].stake \in Nat
    BY <1>0 DEF MinerType
  <2> HIDE DEF fine, time
  <2> QED BY <1>0, <2>0, <2>1
<1>2. miners' = [miners EXCEPT ![w] = r]
  BY DEF SlashMiner
<1>3. /\ r \in MinerType /\ r.registered /\ r.model = m /\ r.activeTime = until
      /\ r.since = block
  <2> HIDE DEF stake, until, time
  <2> QED BY <1>0, <1>1 DEF MinerType
<1>4. /\ minerAddresses' = minerAddresses \ {w}
      /\ minerAddressesByModel' = [minerAddressesByModel EXCEPT ![m] = @ \ {w}]
      /\ held' = held - fine
      /\ bannedUntil' = [bannedUntil EXCEPT ![w] = until]
      /\ KeepReward(w)
      /\ UNCHANGED <<block, models, unstakeRequests, parameters, served, onDuty, rewarded>>
  BY <1>0 DEF SlashMiner, TakeFrom
<1> HIDE DEF r, stake, fine, until, time
<1>5. /\ held' \in Nat /\ bannedUntil' \in [Miners -> Nat]
      /\ minerAddressesByModel' \in [Models -> SUBSET Miners]
  BY <1>0, <1>4 DEF IInv, TypeOK
<1>6. minerRewards' \in [Miners -> Nat]
  BY <1>4, KeepRewardType DEF IInv
<1>7. r.model # None
  BY <1>0, <1>3, StakingAssumption
<1>8. TypeOK'
  BY <1>2, <1>3, <1>4, <1>5, <1>6, <1>7, TypesKept DEF IInv, TypeOK
<1>9. \A x \in Miners : miners'[x] = IF x = w THEN r ELSE miners[x]
  BY <1>2 DEF IInv, TypeOK
<1>10. SetsAgree'
  <2>1. ASSUME NEW x \in Miners, NEW k \in Models
        PROVE  x \in minerAddressesByModel'[k] <=> (x \in minerAddresses' /\ miners'[x].model = k)
    <3>1. x \in minerAddressesByModel[k] <=> (x \in minerAddresses /\ miners[x].model = k)
      BY DEF IInv, SetsAgree
    <3>2. minerAddressesByModel'[k] =
            IF k = m THEN minerAddressesByModel[k] \ {w} ELSE minerAddressesByModel[k]
      BY <1>0, <1>4 DEF IInv, TypeOK
    <3>3. CASE x = w
      BY <1>4, <3>1, <3>2, <3>3
    <3>4. CASE x # w
      BY <1>4, <1>9, <3>1, <3>2, <3>4
    <3> QED BY <3>3, <3>4
  <2>2. \A x \in minerAddresses' : miners'[x].registered
    BY <1>4, <1>9 DEF IInv, SetsAgree, TypeOK
  <2> QED BY <2>1, <2>2 DEF SetsAgree
<1>11. \A x \in Miners : bannedUntil'[x] = IF x = w THEN until ELSE bannedUntil[x]
  BY <1>4 DEF IInv, TypeOK
<1>12. ClockKept'
  BY <1>0, <1>3, <1>4, <1>9, <1>11 DEF IInv, ClockKept
<1>13. PenaltyServed'
  BY <1>4, <1>11 DEF IInv, PenaltyServed, TypeOK
<1> QED BY <1>8, <1>10, <1>12, <1>13 DEF IInv

\* A claim changes what is owed and the contract's balance.
LEMMA ClaimInv ==
  ASSUME IInv, NEW w \in Miners, ClaimReward(w)
  PROVE  IInv'
<1> DEFINE r == [miners[w] EXCEPT !.lastClaimed = CurrentEpoch]
           reward == RewardToClaim(w)
<1>0. /\ miners[w] \in MinerType /\ CurrentEpoch \in Nat /\ reward \in Nat
      /\ held \in Nat /\ reward <= held
  BY EpochIsNat, RewardIsNat DEF ClaimReward, IInv, TypeOK
<1>1. /\ miners' = [miners EXCEPT ![w] = r] /\ held' = held - reward
      /\ rewarded' = [rewarded EXCEPT ![w] = @ + reward]
      /\ minerRewards' = [minerRewards EXCEPT ![w] = 0]
      /\ UNCHANGED <<block, models, sets, unstakeRequests, parameters, served, onDuty,
                     bannedUntil>>
  BY DEF ClaimReward
<1>2. /\ r \in MinerType /\ r.registered = miners[w].registered
      /\ r.model = miners[w].model /\ r.activeTime = miners[w].activeTime
      /\ r.since = miners[w].since
  BY <1>0 DEF MinerType
<1> HIDE DEF r, reward
<1>3. /\ held' \in Nat /\ rewarded' \in [Miners -> Nat] /\ minerRewards' \in [Miners -> Nat]
  BY <1>0, <1>1 DEF IInv, TypeOK
<1>4. r.registered <=> r.model # None
  BY <1>2 DEF IInv, TypeOK
<1>5. TypeOK'
  BY <1>1, <1>2, <1>3, <1>4, TypesKept DEF IInv, TypeOK, sets
<1>6. \A x \in Miners : /\ miners'[x].registered = miners[x].registered
                       /\ miners'[x].model = miners[x].model
                       /\ miners'[x].activeTime = miners[x].activeTime
                       /\ miners'[x].since = miners[x].since
  BY <1>1, <1>2 DEF IInv, TypeOK
<1>7. SetsAgree'
  BY <1>1, <1>6 DEF IInv, SetsAgree, TypeOK, sets
<1>8. ClockKept' /\ PenaltyServed'
  BY <1>1, <1>6 DEF IInv, ClockKept, PenaltyServed, sets
<1> QED BY <1>5, <1>7, <1>8 DEF IInv

-----------------------------------------------------------------------------
(* Together.                                                                *)

\* The invariant is inductive.
LEMMA NextInv == IInv /\ [Next]_vars => IInv'
<1> SUFFICES ASSUME IInv, [Next]_vars PROVE IInv'
  OBVIOUS
<1>1. CASE UNCHANGED vars
  <2> USE <1>1 DEF vars, sets, parameters, history
  <2>1. TypeOK'
    BY DEF IInv, TypeOK, MinerType
  <2>2. SetsAgree' /\ ClockKept' /\ PenaltyServed'
    BY DEF IInv, SetsAgree, ClockKept, PenaltyServed
  <2> QED BY <2>1, <2>2 DEF IInv
<1>2. CASE NextBlock
  BY <1>2, NextBlockInv
<1>3. CASE Owner
  BY <1>3, OwnerInv
<1>4. ASSUME NEW w \in Miners, Newcomer(w) PROVE IInv'
  <2>1. ASSUME NEW m \in Models, RegisterMiner(w, m) PROVE IInv'
    BY <2>1, StakeStepInv
  <2> QED BY <1>4, <2>1, JoinInv DEF Newcomer
<1>5. ASSUME NEW w \in Churners, Churner(w) PROVE IInv'
  <2>0. w \in Miners /\ \E m \in Models : TRUE
    BY StakingAssumption
  <2>1. ASSUME NEW m \in Models, RestakeForMiner(w, m) PROVE IInv'
    BY <2>0, <2>1, StakeStepInv
  <2>2. ASSUME NEW m \in Models, ForceChangeModelForMiner(w, m) PROVE IInv'
    BY <2>0, <2>2, ForceChangeInv
  <2>3. CASE UnregisterMiner(w)
    BY <2>0, <2>3, UnregisterInv
  <2>4. CASE UnstakeForMiner(w)
    BY <2>0, <2>4, StakeStepInv
  <2>5. CASE \E amount \in StakeValues : IncreaseMinerStake(w, amount)
    BY <2>0, <2>5, StakeStepInv
  <2>6. ASSUME NEW isFined \in BOOLEAN, SlashMiner(w, isFined) PROVE IInv'
    BY <2>0, <2>6, SlashInv
  <2>7. CASE ClaimReward(w)
    BY <2>0, <2>7, ClaimInv
  <2> QED BY <1>5, <2>1, <2>2, <2>3, <2>4, <2>5, <2>6, <2>7 DEF Churner
<1> QED BY <1>1, <1>2, <1>3, <1>4, <1>5 DEF Next

\* Every state is typed: no stake, request, reward or balance is ever negative, and a miner
\* is registered exactly when it has a model.
THEOREM TypesHold == Spec => []TypeOK
<1>1. IInv => TypeOK
  BY DEF IInv
<1> QED BY InitInv, NextInv, <1>1, PTL DEF Spec

\* The set of all available miners and the sets of the models always agree, so that
\* _slashMiner finds the miner in both.
THEOREM SetsAlwaysAgree == Spec => []SetsAgree
<1>1. IInv => SetsAgree
  BY DEF IInv
<1> QED BY InitInv, NextInv, <1>1, PTL DEF Spec

\* No sequence of calls brings a miner back before its penalty is over.
THEOREM PenaltiesAreServed == Spec => []PenaltyServed
<1>1. IInv => PenaltyServed
  BY DEF IInv
<1> QED BY InitInv, NextInv, <1>1, PTL DEF Spec

-----------------------------------------------------------------------------
(* What WorkerHub relies on.  In every state a miner is in the set of at    *)
(* most one model; that model is its abstract state.                        *)

\* The model of a miner that is available, now and after a step.
LEMMA ServedIs ==
  ASSUME SetsAgree, NEW w \in Miners, NEW m \in Models, w \in minerAddressesByModel[m]
  PROVE  ServedModel(w) = m
BY DEF ServedModel, SetsAgree

\* The same after a step.
LEMMA ServedBecomes ==
  ASSUME SetsAgree', NEW w \in Miners, NEW m \in Models, w \in minerAddressesByModel'[m]
  PROVE  ServedModel(w)' = m
BY DEF ServedModel, SetsAgree

\* A miner that is not available serves none.
LEMMA NotServed ==
  ASSUME SetsAgree, NEW w \in Miners, w \notin minerAddresses
  PROVE  ServedModel(w) = None
BY DEF ServedModel, SetsAgree

\* The same after a step.
LEMMA NoMoreServed ==
  ASSUME SetsAgree', NEW w \in Miners, w \notin minerAddresses'
  PROVE  ServedModel(w)' = None
BY DEF ServedModel, SetsAgree

\* A miner whose place in the sets stays, keeps its abstract state.
LEMMA ServedKept ==
  ASSUME NEW w \in Miners,
         \A m \in Models : w \in minerAddressesByModel'[m] <=> w \in minerAddressesByModel[m]
  PROVE  ServedModel(w)' = ServedModel(w)
BY DEF ServedModel

RegistryStep == [Registry!RegistryNext]_(Registry!registryVars)

\* Steps that leave the sets alone are steps about models or no steps of the registry.
LEMMA SetsUnchangedStep ==
  ASSUME UNCHANGED minerAddressesByModel,
         \/ UNCHANGED models
         \/ \E m \in Models : m \notin models /\ models' = models \cup {m}
         \/ \E m \in Models : m \in models /\ models' = models \ {m}
  PROVE  RegistryStep
<1>1. UNCHANGED [w \in Miners |-> ServedModel(w)]
  BY DEF ServedModel
<1>2. CASE UNCHANGED models
  BY <1>1, <1>2 DEF RegistryStep, Registry!registryVars
<1>3. ASSUME NEW m \in Models, m \notin models, models' = models \cup {m} PROVE RegistryStep
  <2>1. Registry!RegisterModel(m)
    BY <1>1, <1>3 DEF Registry!RegisterModel
  <2> QED BY <2>1 DEF RegistryStep, Registry!RegistryNext
<1>4. ASSUME NEW m \in Models, m \in models, models' = models \ {m} PROVE RegistryStep
  <2>1. Registry!UnregisterModel(m)
    BY <1>1, <1>4 DEF Registry!UnregisterModel
  <2> QED BY <2>1 DEF RegistryStep, Registry!RegistryNext
<1> QED BY <1>2, <1>3, <1>4

\* Joining is the registry's Join.
LEMMA JoinStep ==
  ASSUME IInv, IInv', NEW w \in Miners, JoinForMinting(w)
  PROVE  RegistryStep
<1> DEFINE m == miners[w].model
<1>1. /\ m \in Models /\ w \notin minerAddresses /\ UNCHANGED models
      /\ minerAddressesByModel' = [minerAddressesByModel EXCEPT ![m] = @ \cup {w}]
  BY DEF JoinForMinting, IInv, TypeOK, MinerType, AddTo
<1> HIDE DEF m
<1>2. ServedModel(w) = None
  BY <1>1, NotServed DEF IInv
<1>3. ServedModel(w)' = m
  BY <1>1, ServedBecomes DEF IInv, TypeOK
<1>4. \A x \in Miners \ {w} : ServedModel(x)' = ServedModel(x)
  BY <1>1, ServedKept DEF IInv, TypeOK
<1>5. Registry!Join(w, m)
  BY <1>1, <1>2, <1>3, <1>4 DEF Registry!Join, Registry!Joined
<1> QED BY <1>1, <1>5 DEF RegistryStep, Registry!RegistryNext

\* A miner that is out of its model's set has left the registry, or was not in it.
LEMMA LeaveStep ==
  ASSUME IInv, IInv', NEW w \in Miners, UNCHANGED models,
         minerAddresses' = minerAddresses \ {w},
         w \in minerAddresses => minerAddressesByModel' = TakeFrom(w, miners[w].model),
         w \notin minerAddresses => UNCHANGED minerAddressesByModel
  PROVE  RegistryStep
<1>1. CASE w \notin minerAddresses
  BY <1>1, SetsUnchangedStep
<1>2. CASE w \in minerAddresses
  <2> DEFINE m == miners[w].model
  <2>1. /\ m \in Models /\ w \in minerAddressesByModel[m] /\ m # None
        /\ minerAddressesByModel' = [minerAddressesByModel EXCEPT ![m] = @ \ {w}]
    BY <1>2, StakingAssumption DEF IInv, TypeOK, MinerType, SetsAgree, TakeFrom
  <2> HIDE DEF m
  <2>2. ServedModel(w) = m
    BY <2>1, ServedIs DEF IInv
  <2>3. ServedModel(w)' = None
    BY NoMoreServed DEF IInv
  <2>4. \A x \in Miners \ {w} : ServedModel(x)' = ServedModel(x)
    BY <2>1, ServedKept DEF IInv, TypeOK
  <2>5. Registry!Leave(w)
    <3>1. w \in Registry!Joined
      BY <2>1, <2>2 DEF Registry!Joined
    <3>2. [x \in Miners |-> ServedModel(x)]' =
            [[x \in Miners |-> ServedModel(x)] EXCEPT ![w] = None]
      BY <2>3, <2>4
    <3> QED BY <3>1, <3>2 DEF Registry!Leave
  <2> QED BY <2>5 DEF RegistryStep, Registry!RegistryNext
<1> QED BY <1>1, <1>2

\* Moving an available miner is the registry's ChangeModel.
LEMMA ForceChangeStep ==
  ASSUME IInv, IInv', NEW w \in Miners, NEW m \in Models, ForceChangeModelForMiner(w, m)
  PROVE  RegistryStep
<1> DEFINE from == miners[w].model
<1>1. /\ from \in Models /\ from # None /\ from # m /\ m \in models /\ UNCHANGED models
      /\ w \in minerAddressesByModel[from]
      /\ minerAddressesByModel' = MoveTo(w, from, m)
  BY StakingAssumption DEF ForceChangeModelForMiner, IInv, TypeOK, MinerType, SetsAgree
<1> HIDE DEF from
<1>2. \A k \in Models : minerAddressesByModel'[k] =
        IF k = m THEN minerAddressesByModel[k] \cup {w}
        ELSE IF k = from THEN minerAddressesByModel[k] \ {w} ELSE minerAddressesByModel[k]
  BY <1>1 DEF MoveTo, TakeFrom, IInv, TypeOK
<1>3. ServedModel(w) = from
  BY <1>1, ServedIs DEF IInv
<1>4. ServedModel(w)' = m
  BY <1>2, ServedBecomes DEF IInv
<1>5. \A x \in Miners \ {w} : ServedModel(x)' = ServedModel(x)
  BY <1>2, ServedKept
<1>6. Registry!ChangeModel(w, m)
  <2>1. w \in Registry!Joined /\ [x \in Miners |-> ServedModel(x)][w] # m
    BY <1>1, <1>3 DEF Registry!Joined
  <2>2. [x \in Miners |-> ServedModel(x)]' = [[x \in Miners |-> ServedModel(x)] EXCEPT ![w] = m]
    BY <1>4, <1>5
  <2> QED BY <1>1, <2>1, <2>2 DEF Registry!ChangeModel
<1> QED BY <1>6 DEF RegistryStep, Registry!RegistryNext

\* Every step of the contract is a step of the registry or none.
LEMMA EveryStep == IInv /\ IInv' /\ [Next]_vars => RegistryStep
<1> SUFFICES ASSUME IInv, IInv', [Next]_vars PROVE RegistryStep
  OBVIOUS
<1>1. CASE UNCHANGED vars
  BY <1>1, SetsUnchangedStep DEF vars, sets
<1>2. CASE NextBlock
  BY <1>2, SetsUnchangedStep DEF NextBlock, sets
<1>3. CASE Owner
  <2>1. UNCHANGED minerAddressesByModel
    BY <1>3 DEF Owner, SetMinerMinimumStake, SetNewRewardInEpoch, RegisterModel,
                UnregisterModel, sets
  <2>2. \/ UNCHANGED models
        \/ \E m \in Models : m \notin models /\ models' = models \cup {m}
        \/ \E m \in Models : m \in models /\ models' = models \ {m}
    BY <1>3 DEF Owner, SetMinerMinimumStake, SetNewRewardInEpoch, RegisterModel,
                UnregisterModel
  <2> QED BY <2>1, <2>2, SetsUnchangedStep
<1>4. ASSUME NEW w \in Miners, Newcomer(w) PROVE RegistryStep
  <2>1. ASSUME NEW m \in Models, RegisterMiner(w, m) PROVE RegistryStep
    BY <2>1, SetsUnchangedStep DEF RegisterMiner, sets
  <2> QED BY <1>4, <2>1, JoinStep DEF Newcomer
<1>5. ASSUME NEW w \in Churners, Churner(w) PROVE RegistryStep
  <2>0. w \in Miners
    BY StakingAssumption
  <2>1. ASSUME NEW m \in Models, RestakeForMiner(w, m) PROVE RegistryStep
    BY <2>1, SetsUnchangedStep DEF RestakeForMiner, sets
  <2>2. ASSUME NEW m \in Models, ForceChangeModelForMiner(w, m) PROVE RegistryStep
    BY <2>0, <2>2, ForceChangeStep
  <2>3. CASE UnregisterMiner(w)
    BY <2>0, <2>3, LeaveStep DEF UnregisterMiner, sets
  <2>4. CASE UnstakeForMiner(w)
    BY <2>4, SetsUnchangedStep DEF UnstakeForMiner, sets
  <2>5. ASSUME NEW amount \in StakeValues, IncreaseMinerStake(w, amount) PROVE RegistryStep
    BY <2>5, SetsUnchangedStep DEF IncreaseMinerStake, sets
  <2>6. ASSUME NEW isFined \in BOOLEAN, SlashMiner(w, isFined) PROVE RegistryStep
    <3>1. w \in minerAddresses /\ w \in minerAddressesByModel[miners[w].model]
      BY <2>0, <2>6 DEF SlashMiner, IInv, TypeOK, SetsAgree, MinerType
    <3> QED BY <2>0, <2>6, <3>1, LeaveStep DEF SlashMiner
  <2>7. CASE ClaimReward(w)
    BY <2>7, SetsUnchangedStep DEF ClaimReward, sets
  <2> QED BY <1>5, <2>1, <2>2, <2>3, <2>4, <2>5, <2>6, <2>7 DEF Churner
<1> QED BY <1>1, <1>2, <1>3, <1>4, <1>5 DEF Next

\* StakingHub implements the registry that the specification of WorkerHub assumes.
THEOREM RegistryImplemented == Spec => RegistrySpec
<1>1. Init => Registry!RegistryInit
  <2> SUFFICES ASSUME Init PROVE Registry!RegistryInit
    OBVIOUS
  <2>1. SetsAgree /\ minerAddresses = {}
    BY InitInv DEF Init, IInv
  <2>2. \A w \in Miners : ServedModel(w) = None
    BY <2>1, NotServed
  <2> QED BY <2>2 DEF Registry!RegistryInit, Init
<1>2. IInv /\ IInv' /\ [Next]_vars => [Registry!RegistryNext]_(Registry!registryVars)
  BY EveryStep DEF RegistryStep
<1> QED BY InitInv, NextInv, <1>1, <1>2, PTL DEF Spec, RegistrySpec, Registry!RegistrySpec
-----------------------------------------------------------------------------
(* Rewards.  The epochs a miner served are those it has been paid for, or   *)
(* for which a reward is kept, and those that are still pending; pending    *)
(* epochs are worth what rate and multiplier of the moment make them.       *)

Pending(w) == IF w \in minerAddresses THEN CurrentEpoch - miners[w].lastClaimed ELSE 0
Past(w) == served[w] - Pending(w)
Kept(w) == rewarded[w] + minerRewards[w]
Due(w) == rewarded[w] + RewardToClaim(w)

\* The service the contract counts for a miner was on duty.
Counted(w) ==
  IF w \in minerAddresses THEN Service(w) <= onDuty[w] ELSE miners[w].reserved <= onDuty[w]

\* No epoch is paid before it ended or that was not served, and what was paid or is kept for
\* past epochs is within bounds.
Accounted(w) ==
  /\ miners[w].lastClaimed <= CurrentEpoch /\ Pending(w) <= served[w]
  /\ Counted(w)
  /\ lowRate * Past(w) <= Kept(w)
  /\ 100 * Kept(w) <= (topRate * Past(w)) * Multiplier(onDuty[w])

RewardsInv ==
  IInv /\ lowRate <= rate /\ rate <= topRate /\ \A w \in Miners : Accounted(w)

-----------------------------------------------------------------------------
(* Arithmetic.                                                              *)

\* An epoch ends with the blocks that are a multiple of its length.
LEMMA EpochEnds ==
  ASSUME NEW b \in Nat, NEW n \in Nat \ {0}
  PROVE  (b + 1) \div n = (b \div n) + (IF (b + 1) % n = 0 THEN 1 ELSE 0)
<1> DEFINE q == b \div n  r == b % n  p == (b + 1) \div n  t == (b + 1) % n
<1>1. q \in Nat /\ p \in Nat /\ r \in 0..(n - 1) /\ t \in 0..(n - 1)
  OBVIOUS
<1>2. b = n * q + r /\ b + 1 = n * p + t
  OBVIOUS
<1> HIDE DEF q, r, p, t
<1>3. n * (p - q) = r + 1 - t
  BY <1>1, <1>2
<1>4. p - q \in {0, 1}
  <2>1. ASSUME p - q >= 2 PROVE FALSE
    <3>1. n * (p - q) >= n * 2
      BY <1>1, <2>1
    <3> QED BY <1>1, <1>3, <3>1
  <2>2. ASSUME p - q <= -1 PROVE FALSE
    <3>1. n * (p - q) <= n * (-1)
      BY <1>1, <2>2
    <3> QED BY <1>1, <1>3, <3>1
  <2> QED BY <1>1, <2>1, <2>2
<1>5. CASE p - q = 0
  <2>1. t = r + 1 /\ p = q
    BY <1>1, <1>3, <1>5
  <2>2. t # 0 /\ p = q + 0
    BY <1>1, <2>1
  <2> QED BY <2>2 DEF q, p, t
<1>6. CASE p - q = 1
  <2>1. t = r + 1 - n /\ p = q + 1
    BY <1>1, <1>3, <1>6
  <2>2. t = 0
    BY <1>1, <2>1
  <2> QED BY <2>1, <2>2 DEF q, p, t
<1> QED BY <1>4, <1>5, <1>6

\* A longer time has as many full periods or more.
LEMMA QuotientGrows ==
  ASSUME NEW s \in Nat, NEW t \in Nat, s <= t, NEW n \in Nat \ {0}
  PROVE  s \div n <= t \div n
<1> DEFINE q == s \div n  r == s % n  p == t \div n  u == t % n
<1>1. q \in Nat /\ p \in Nat /\ r \in 0..(n - 1) /\ u \in 0..(n - 1)
  OBVIOUS
<1>2. s = n * q + r /\ t = n * p + u
  OBVIOUS
<1> HIDE DEF q, r, p, u
<1>3. ASSUME q - p >= 1 PROVE FALSE
  <2>1. n * (q - p) >= n * 1
    BY <1>1, <1>3
  <2>2. n * (q - p) = s - r - (t - u)
    BY <1>1, <1>2
  <2> QED BY <1>1, <2>1, <2>2
<1>4. q <= p
  BY <1>1, <1>3
<1> QED BY <1>4 DEF q, p

\* The multiplier grows with the service.
LEMMA MultiplierGrows ==
  ASSUME NEW s \in Nat, NEW t \in Nat, s <= t
  PROVE  Multiplier(s) <= Multiplier(t)
<1> DEFINE p == s \div BoostPeriod  q == t \div BoostPeriod
           c == IF p >= 12 THEN 12 ELSE p  d == IF q >= 12 THEN 12 ELSE q
<1>1. p \in Nat /\ q \in Nat /\ p <= q
  BY QuotientIsNat, QuotientGrows, StakingAssumption
<1>2. Multiplier(s) = 100 + 5 * c /\ Multiplier(t) = 100 + 5 * d
  BY DEF Multiplier
<1> HIDE DEF p, q
<1>3. c \in Nat /\ d \in Nat /\ c <= d
  BY <1>1
<1> HIDE DEF c, d
<1> QED BY <1>2, <1>3

\* Products of natural numbers, and how they grow.
LEMMA ProductGrows ==
  ASSUME NEW a \in Nat, NEW b \in Nat, a <= b, NEW c \in Nat
  PROVE  /\ a * c \in Nat /\ b * c \in Nat /\ c * a \in Nat /\ c * b \in Nat
         /\ a * c <= b * c /\ c * a <= c * b
OBVIOUS

\* Amounts of epochs add up.
LEMMA Distributes ==
  ASSUME NEW a \in Nat, NEW b \in Nat, NEW c \in Nat
  PROVE  (a + b) * c = a * c + b * c /\ c * (a + b) = c * a + c * b
OBVIOUS

\* The reward of n epochs at rate r with multiplier k, between lower and higher ones.
LEMMA Paying ==
  ASSUME NEW n \in Nat, NEW r \in Nat, NEW k \in Nat,
         NEW low \in Nat, low <= r, NEW top \in Nat, r <= top, 100 <= k, NEW m \in Nat, k <= m
  PROVE  LET x == (n * r * k) \div 100
         IN x \in Nat /\ low * n <= x /\ 100 * x <= (top * n) * m
<1> DEFINE y == n * r * k
           x == y \div 100
<1>1. n * r \in Nat /\ n * low <= n * r /\ n * r <= n * top /\ n * low \in Nat /\ n * top \in Nat
  BY ProductGrows
<1>2. y \in Nat /\ (n * r) * 100 <= y /\ y <= (n * r) * m
  BY <1>1, ProductGrows
<1>3. (n * r) * m <= (n * top) * m /\ (n * r) * m \in Nat /\ (n * top) * m \in Nat
  BY <1>1, ProductGrows
<1>4. low * n = n * low /\ top * n = n * top
  OBVIOUS
<1> HIDE DEF y
<1>5. x \in Nat /\ 100 * x <= y /\ y < 100 * x + 100
  BY <1>2
<1>6. n * low <= x
  <2> DEFINE z == n * r
             v == n * low
  <2>1. z \in Nat /\ v \in Nat /\ v <= z /\ z * 100 <= y
    BY <1>1, <1>2
  <2> HIDE DEF z, v, x
  <2>2. v <= x
    BY <1>2, <1>5, <2>1
  <2> QED BY <2>2 DEF v
<1>7. 100 * x <= (n * top) * m
  <2> DEFINE z == (n * r) * m
             v == (n * top) * m
  <2>1. z \in Nat /\ v \in Nat /\ y <= z /\ z <= v
    BY <1>2, <1>3
  <2> HIDE DEF z, v, x
  <2>2. 100 * x <= v
    BY <1>2, <1>5, <2>1
  <2> QED BY <2>2 DEF v
<1> QED BY <1>4, <1>5, <1>6, <1>7 DEF y

-----------------------------------------------------------------------------
(* What is due.                                                             *)

\* The numbers of one miner's account.
LEMMA AccountTypes ==
  ASSUME TypeOK, ClockKept, NEW w \in Miners, Accounted(w)
  PROVE  /\ Pending(w) \in Nat /\ Past(w) \in Nat /\ served[w] \in Nat
         /\ served[w] = Past(w) + Pending(w)
         /\ rewarded[w] \in Nat /\ minerRewards[w] \in Nat /\ Kept(w) \in Nat /\ Due(w) \in Nat
         /\ rate \in Nat /\ lowRate \in Nat /\ topRate \in Nat /\ onDuty[w] \in Nat
         /\ Service(w) \in Nat /\ miners[w].reserved \in Nat
         /\ Multiplier(onDuty[w]) \in Nat
<1>1. /\ rewarded[w] \in Nat /\ minerRewards[w] \in Nat /\ served[w] \in Nat
      /\ rate \in Nat /\ lowRate \in Nat /\ topRate \in Nat /\ onDuty[w] \in Nat
      /\ miners[w].lastClaimed \in Nat /\ miners[w].reserved \in Nat /\ CurrentEpoch \in Nat
  BY EpochIsNat, StakingAssumption DEF TypeOK, MinerType
<1>2. miners[w].lastClaimed <= CurrentEpoch /\ Pending(w) <= served[w]
  BY DEF Accounted
<1>3. Pending(w) \in Nat
  BY <1>1, <1>2 DEF Pending
<1>4. Past(w) \in Nat /\ served[w] = Past(w) + Pending(w)
  BY <1>1, <1>2, <1>3 DEF Past
<1>5. Kept(w) \in Nat /\ Due(w) \in Nat
  BY <1>1, RewardIsNat DEF Kept, Due
<1> QED BY <1>1, <1>3, <1>4, <1>5, ServiceIsNat, MultiplierIsNat

\* What is due is what was paid or is kept, and the reward of the pending epochs.
LEMMA DueIs ==
  ASSUME TypeOK, ClockKept, NEW w \in Miners, Accounted(w)
  PROVE  Due(w) = Kept(w) + (IF Pending(w) > 0 THEN New(w) ELSE 0)
<1>1. rewarded[w] \in Nat /\ minerRewards[w] \in Nat
  BY AccountTypes
<1>2. miners[w].lastClaimed \in Nat /\ CurrentEpoch \in Nat
  BY EpochIsNat DEF TypeOK, MinerType
<1>3. Pending(w) > 0 <=> (w \in minerAddresses /\ CurrentEpoch > miners[w].lastClaimed)
  BY <1>2 DEF Pending
<1>4. RewardToClaim(w) = minerRewards[w] + (IF Pending(w) > 0 THEN New(w) ELSE 0)
  BY <1>3 DEF RewardToClaim, New
<1> DEFINE x == IF Pending(w) > 0 THEN New(w) ELSE 0
<1>5. x \in Int
  <2>1. RewardToClaim(w) \in Nat
    BY RewardIsNat
  <2>2. CASE ~(Pending(w) > 0)
    BY <2>2
  <2>3. CASE Pending(w) > 0
    <3>1. Service(w) \in Nat /\ rate \in Nat /\ Pending(w) \in Nat
      BY AccountTypes
    <3>2. Multiplier(Service(w)) \in Nat /\ Pending(w) = CurrentEpoch - miners[w].lastClaimed
      BY <1>3, <2>3, <3>1, MultiplierIsNat DEF Pending
    <3> DEFINE n == Pending(w)
               k == Multiplier(Service(w))
    <3>3. New(w) = (n * rate * k) \div 100
      BY <3>2 DEF New
    <3> HIDE DEF n, k
    <3>4. n * rate \in Nat
      BY <3>1 DEF n
    <3>5. n * rate * k \in Nat
      BY <3>2, <3>4 DEF k
    <3>6. (n * rate * k) \div 100 \in Nat
      BY <3>5
    <3> QED BY <2>3, <3>3, <3>6
  <2> QED BY <2>2, <2>3
<1> HIDE DEF x
<1>6. RewardToClaim(w) = minerRewards[w] + x
  BY <1>4 DEF x
<1>7. Due(w) = Kept(w) + x
  BY <1>1, <1>5, <1>6 DEF Due, Kept
<1> QED BY <1>7 DEF x

\* It is within the bounds for all epochs served.
LEMMA DueBounds ==
  ASSUME RewardsInv, NEW w \in Miners
  PROVE  /\ lowRate * served[w] <= Due(w)
         /\ 100 * Due(w) <= (topRate * served[w]) * Multiplier(onDuty[w])
<1> DEFINE n == Pending(w)
           p == Past(w)
           m == Multiplier(onDuty[w])
           k == Multiplier(Service(w))
           x == IF n > 0 THEN New(w) ELSE 0
<1>1. TypeOK /\ ClockKept /\ Accounted(w) /\ lowRate <= rate /\ rate <= topRate
  BY DEF RewardsInv, IInv
<1>2. /\ n \in Nat /\ p \in Nat /\ served[w] = p + n /\ Kept(w) \in Nat /\ Due(w) \in Nat
      /\ rate \in Nat /\ lowRate \in Nat /\ topRate \in Nat /\ m \in Nat
      /\ Service(w) \in Nat /\ onDuty[w] \in Nat
  BY <1>1, AccountTypes
<1>3. Due(w) = Kept(w) + x
  BY <1>1, DueIs
<1>4. x \in Nat /\ lowRate * n <= x /\ 100 * x <= (topRate * n) * m
  <2>1. CASE n > 0
    <3>1. w \in minerAddresses /\ n = CurrentEpoch - miners[w].lastClaimed
      BY <2>1 DEF Pending
    <3>2. Service(w) <= onDuty[w]
      BY <1>1, <3>1 DEF Accounted, Counted
    <3>3. k \in Nat /\ 100 <= k /\ k <= m
      BY <1>2, <3>2, MultiplierIsNat, MultiplierGrows
    <3>4. x = (n * rate * k) \div 100
      BY <2>1, <3>1 DEF New
    <3> HIDE DEF n, m, k, x
    <3>5. LET z == (n * rate * k) \div 100
          IN z \in Nat /\ lowRate * n <= z /\ 100 * z <= (topRate * n) * m
      BY <1>1, <1>2, <3>3, Paying
    <3> QED BY <3>4, <3>5
  <2>2. CASE n = 0
    <3>1. x = 0
      BY <2>2
    <3>2. lowRate * n = 0 /\ topRate * n = 0
      BY <1>2, <2>2
    <3> HIDE DEF n, m, x
    <3>3. (topRate * n) * m = 0
      BY <1>2, <3>2
    <3> QED BY <3>1, <3>2, <3>3
  <2> QED BY <1>2, <2>1, <2>2
<1>5. lowRate * p <= Kept(w) /\ 100 * Kept(w) <= (topRate * p) * m
  BY <1>1 DEF Accounted
<1> HIDE DEF n, p, m, k, x
<1>6. lowRate * served[w] = lowRate * p + lowRate * n
  BY <1>2, Distributes
<1>7. (topRate * served[w]) * m = (topRate * p) * m + (topRate * n) * m
  <2>1. topRate * served[w] = topRate * p + topRate * n /\ topRate * p \in Nat /\ topRate * n \in Nat
    BY <1>2, Distributes, ProductGrows
  <2> QED BY <1>2, <2>1, Distributes
<1>8. /\ lowRate * p \in Nat /\ lowRate * n \in Nat
      /\ (topRate * p) * m \in Nat /\ (topRate * n) * m \in Nat
  BY <1>2, ProductGrows
<1>9. lowRate * served[w] <= Due(w)
  BY <1>2, <1>3, <1>4, <1>5, <1>6, <1>8
<1>10. 100 * Due(w) <= (topRate * served[w]) * m
  <2> DEFINE u == (topRate * p) * m
             v == (topRate * n) * m
  <2>1. u \in Nat /\ v \in Nat /\ 100 * Kept(w) <= u /\ 100 * x <= v
    BY <1>4, <1>5, <1>8
  <2> HIDE DEF u, v
  <2>2. 100 * Due(w) <= u + v
    BY <1>2, <1>3, <1>4, <2>1
  <2> QED BY <1>7, <2>2 DEF u, v
<1> QED BY <1>9, <1>10 DEF m

\* So every miner's rewards are earned.
LEMMA EarnedIs == RewardsInv => RewardsEarned
<1> SUFFICES ASSUME RewardsInv, NEW w \in Miners
             PROVE  lowRate * served[w] <= Due(w) /\ Due(w) <= MostEarned(w)
  BY DEF RewardsEarned, Due
<1>1. TypeOK /\ ClockKept /\ Accounted(w)
  BY DEF RewardsInv, IInv
<1> DEFINE y == (topRate * served[w]) * Multiplier(onDuty[w])
<1>2. y \in Nat /\ Due(w) \in Nat
  <2>1. /\ topRate \in Nat /\ served[w] \in Nat /\ Multiplier(onDuty[w]) \in Nat
        /\ Due(w) \in Nat
    BY <1>1, AccountTypes
  <2>2. topRate * served[w] \in Nat
    BY <2>1
  <2> QED BY <2>1, <2>2
<1>3. 100 * Due(w) <= y /\ lowRate * served[w] <= Due(w)
  BY DueBounds
<1>4. MostEarned(w) = y \div 100
  BY DEF MostEarned
<1> HIDE DEF y
<1>5. Due(w) <= y \div 100
  BY <1>2, <1>3
<1> QED BY <1>3, <1>4, <1>5

-----------------------------------------------------------------------------
(* The steps.                                                               *)

\* One more epoch is pending for those who were available when it ended.
LEMMA NextBlockRewards ==
  ASSUME RewardsInv, NextBlock, NEW w \in Miners
  PROVE  Accounted(w)'
<1> DEFINE d == IF block' % BlocksPerEpoch = 0 THEN 1 ELSE 0
           e == IF w \in minerAddresses THEN 1 ELSE 0
<1>1. /\ TypeOK /\ ClockKept /\ Accounted(w) /\ block \in Nat /\ block' = block + 1
      /\ UNCHANGED <<miners, minerAddresses, minerRewards, rewarded, rate, lowRate, topRate>>
  BY DEF RewardsInv, IInv, TypeOK, NextBlock, sets, parameters
<1>2. d \in {0, 1} /\ CurrentEpoch \in Nat /\ CurrentEpoch' = CurrentEpoch + d
  <2>1. CurrentEpoch' = CurrentEpoch + d
    BY <1>1, EpochEnds, StakingAssumption DEF CurrentEpoch
  <2> QED BY <1>1, <2>1, EpochIsNat
<1>3. /\ served'[w] = served[w] + (IF w \in minerAddresses THEN d ELSE 0)
      /\ onDuty'[w] = onDuty[w] + e
  BY DEF NextBlock
<1> HIDE DEF d
<1>4. /\ Pending(w) \in Nat /\ Past(w) \in Nat /\ served[w] \in Nat /\ Kept(w) \in Nat
      /\ topRate \in Nat /\ onDuty[w] \in Nat /\ Service(w) \in Nat
      /\ miners[w].reserved \in Nat /\ Multiplier(onDuty[w]) \in Nat
  BY <1>1, AccountTypes
<1>5. miners[w].lastClaimed \in Nat /\ miners[w].since \in Nat
  BY <1>1 DEF TypeOK, MinerType
<1>6. Accounted(w)
  BY <1>1
<1>7. miners'[w].lastClaimed <= CurrentEpoch'
  BY <1>1, <1>2, <1>5, <1>6 DEF Accounted
<1>8. Pending(w)' = Pending(w) + (IF w \in minerAddresses THEN d ELSE 0)
  BY <1>1, <1>2, <1>5 DEF Pending
<1>9. Pending(w)' <= served'[w] /\ Past(w)' = Past(w)
  BY <1>2, <1>3, <1>4, <1>6, <1>8 DEF Accounted, Past
<1>10. Kept(w)' = Kept(w)
  BY <1>1 DEF Kept
<1>11. Counted(w)'
  <2>1. CASE w \in minerAddresses
    <3>1. Service(w)' = Service(w) + 1
      BY <1>1, <1>4, <1>5 DEF Service
    <3>2. Service(w) <= onDuty[w]
      BY <1>6, <2>1 DEF Accounted, Counted
    <3>3. onDuty'[w] = onDuty[w] + 1
      BY <1>3, <2>1
    <3>4. Service(w)' <= onDuty'[w]
      BY <1>4, <3>1, <3>2, <3>3
    <3> QED BY <1>1, <2>1, <3>4 DEF Counted
  <2>2. CASE w \notin minerAddresses
    <3>1. miners[w].reserved <= onDuty[w] /\ onDuty'[w] = onDuty[w]
      BY <1>3, <1>4, <1>6, <2>2 DEF Accounted, Counted
    <3> QED BY <1>1, <2>2, <3>1 DEF Counted
  <2> QED BY <2>1, <2>2
<1>12. 100 * Kept(w) <= (topRate * Past(w)) * Multiplier(onDuty'[w])
  <2> DEFINE a == Multiplier(onDuty[w])
             b == Multiplier(onDuty'[w])
             t == topRate * Past(w)
  <2>1. onDuty'[w] \in Nat /\ onDuty[w] <= onDuty'[w]
    BY <1>3, <1>4
  <2>2. a \in Nat /\ b \in Nat /\ a <= b
    BY <1>4, <2>1, MultiplierIsNat, MultiplierGrows
  <2>3. t \in Nat /\ 100 * Kept(w) <= t * a
    BY <1>4, <1>6 DEF Accounted
  <2> HIDE DEF a, b, t
  <2>4. t * a <= t * b /\ t * a \in Nat /\ t * b \in Nat
    BY <2>2, <2>3, ProductGrows
  <2>5. 100 * Kept(w) <= t * b
    BY <1>4, <2>3, <2>4
  <2> QED BY <2>5 DEF t, b
<1>13. Multiplier(onDuty[w])' = Multiplier(onDuty'[w])
  BY DEF Multiplier
<1>14. lowRate * Past(w) <= Kept(w)
  BY <1>6 DEF Accounted
<1> QED BY <1>1, <1>7, <1>9, <1>10, <1>11, <1>12, <1>13, <1>14 DEF Accounted

\* A new rate is within the new bounds, and what was within the old ones still is.
LEMMA OwnerRewards ==
  ASSUME RewardsInv, Owner \/ UNCHANGED vars
  PROVE  /\ lowRate' <= rate' /\ rate' <= topRate'
         /\ \A w \in Miners : Accounted(w)'
<1>0. TypeOK /\ ClockKept /\ lowRate <= rate /\ rate <= topRate
  BY DEF RewardsInv, IInv
<1>1. UNCHANGED <<block, miners, minerAddresses, minerRewards, rewarded, served, onDuty>>
  BY DEF Owner, SetMinerMinimumStake, SetNewRewardInEpoch, RegisterModel,
         UnregisterModel, vars, sets, parameters, history
<1>2. UNCHANGED <<rate, lowRate, topRate>> \/ \E r \in RateValues : SetNewRewardInEpoch(r)
  BY DEF Owner, SetMinerMinimumStake, RegisterModel, UnregisterModel, vars, parameters
<1>3. rate \in Nat /\ lowRate \in Nat /\ topRate \in Nat
  BY <1>0, StakingAssumption DEF TypeOK
<1>4. /\ lowRate' <= rate' /\ rate' <= topRate'
      /\ lowRate' \in Nat /\ topRate' \in Nat /\ lowRate' <= lowRate /\ topRate <= topRate'
  <2>1. CASE UNCHANGED <<rate, lowRate, topRate>>
    BY <1>0, <1>3, <2>1
  <2>2. ASSUME NEW r \in RateValues, SetNewRewardInEpoch(r)
        PROVE  /\ lowRate' <= rate' /\ rate' <= topRate'
               /\ lowRate' \in Nat /\ topRate' \in Nat
               /\ lowRate' <= lowRate /\ topRate <= topRate'
    <3>1. r \in Nat /\ rate' = r
          /\ lowRate' = (IF r < lowRate THEN r ELSE lowRate)
          /\ topRate' = (IF r > topRate THEN r ELSE topRate)
      BY <2>2, StakingAssumption DEF SetNewRewardInEpoch
    <3> QED BY <1>0, <1>3, <3>1
  <2> QED BY <1>2, <2>1, <2>2
<1>5. ASSUME NEW w \in Miners PROVE Accounted(w)'
  <2> DEFINE m == Multiplier(onDuty[w])
             p == Past(w)
             k == Kept(w)
  <2>1. Accounted(w) /\ p \in Nat /\ m \in Nat /\ k \in Nat
    BY <1>0, AccountTypes DEF RewardsInv
  <2>2. lowRate * p <= k /\ 100 * k <= (topRate * p) * m
    BY <2>1 DEF Accounted
  <2>3. /\ Past(w)' = p /\ Kept(w)' = k /\ Multiplier(onDuty[w])' = m
        /\ Pending(w)' = Pending(w) /\ (Counted(w)' <=> Counted(w))
        /\ CurrentEpoch' = CurrentEpoch
    BY <1>1 DEF Past, Pending, Kept, Multiplier, Counted, Service, CurrentEpoch
  <2> HIDE DEF m, p, k
  <2>4. lowRate' * p <= k
    <3>1. lowRate' * p \in Nat /\ lowRate * p \in Nat /\ lowRate' * p <= lowRate * p
      BY <1>3, <1>4, <2>1, ProductGrows
    <3> QED BY <2>1, <2>2, <3>1
  <2>5. 100 * k <= (topRate' * p) * m
    <3>1. topRate * p \in Nat /\ topRate' * p \in Nat /\ topRate * p <= topRate' * p
      BY <1>3, <1>4, <2>1, ProductGrows
    <3>2. /\ (topRate * p) * m \in Nat /\ (topRate' * p) * m \in Nat
          /\ (topRate * p) * m <= (topRate' * p) * m
      BY <2>1, <3>1, ProductGrows
    <3> DEFINE u == (topRate * p) * m
               v == (topRate' * p) * m
    <3>3. u \in Nat /\ v \in Nat /\ u <= v /\ 100 * k <= u
      BY <2>2, <3>2
    <3> HIDE DEF u, v
    <3>4. 100 * k <= v
      BY <2>1, <3>3
    <3> QED BY <3>4 DEF v
  <2> QED BY <1>1, <2>1, <2>3, <2>4, <2>5 DEF Accounted
<1> QED BY <1>4, <1>5

\* What the functions about one miner w leave alone of the others.
OthersKept(w) ==
  \A x \in Miners \ {w} :
    /\ miners'[x] = miners[x] /\ minerRewards'[x] = minerRewards[x]
    /\ rewarded'[x] = rewarded[x] /\ unstakeRequests'[x] = unstakeRequests[x]
    /\ x \in minerAddresses' <=> x \in minerAddresses

\* Every function about a miner keeps what the others have.
LEMMA OneMiner ==
  ASSUME TypeOK, NEW w \in Miners, Newcomer(w) \/ Churner(w)
  PROVE  OthersKept(w) /\ UNCHANGED <<block, models, parameters, served, onDuty>>
<1> USE DEF TypeOK, OthersKept, history
<1>1. ASSUME NEW m \in Models, RegisterMiner(w, m) \/ RestakeForMiner(w, m)
      PROVE  OthersKept(w) /\ UNCHANGED <<block, models, parameters, served, onDuty>>
  BY <1>1 DEF RegisterMiner, RestakeForMiner, sets
<1>2. ASSUME NEW m \in Models, ForceChangeModelForMiner(w, m)
      PROVE  OthersKept(w) /\ UNCHANGED <<block, models, parameters, served, onDuty>>
  BY <1>2 DEF ForceChangeModelForMiner
<1>3. CASE JoinForMinting(w)
  BY <1>3 DEF JoinForMinting
<1>4. CASE UnregisterMiner(w)
  BY <1>4 DEF UnregisterMiner, KeepReward, sets
<1>5. ASSUME NEW isFined \in BOOLEAN, SlashMiner(w, isFined)
      PROVE  OthersKept(w) /\ UNCHANGED <<block, models, parameters, served, onDuty>>
  BY <1>5 DEF SlashMiner, KeepReward
<1>6. ASSUME NEW a \in StakeValues, IncreaseMinerStake(w, a) \/ UnstakeForMiner(w)
      PROVE  OthersKept(w) /\ UNCHANGED <<block, models, parameters, served, onDuty>>
  BY <1>6 DEF IncreaseMinerStake, UnstakeForMiner, sets
<1>7. CASE ClaimReward(w)
  BY <1>7 DEF ClaimReward, sets
<1>8. \E a \in StakeValues : TRUE
  BY StakingAssumption
<1> QED BY <1>1, <1>2, <1>3, <1>4, <1>5, <1>6, <1>7, <1>8 DEF Newcomer, Churner

\* A miner's account depends on what the contract keeps for it, on its record and on
\* whether it is available.
LEMMA AccountKept ==
  ASSUME NEW w \in Miners, UNCHANGED <<block, parameters, served, onDuty>>,
         minerRewards'[w] = minerRewards[w], rewarded'[w] = rewarded[w],
         miners'[w].lastClaimed = miners[w].lastClaimed,
         miners'[w].reserved = miners[w].reserved, miners'[w].since = miners[w].since,
         w \in minerAddresses' <=> w \in minerAddresses
  PROVE  Accounted(w)' <=> Accounted(w)
<1>1. /\ CurrentEpoch' = CurrentEpoch /\ Kept(w)' = Kept(w) /\ Service(w)' = Service(w)
      /\ Multiplier(onDuty[w])' = Multiplier(onDuty[w]) /\ UNCHANGED <<lowRate, topRate>>
  BY DEF CurrentEpoch, Kept, Service, Multiplier, parameters
<1>2. Pending(w)' = Pending(w)
  BY <1>1 DEF Pending
<1>3. Past(w)' = Past(w)
  BY <1>2 DEF Past
<1>4. Counted(w)' <=> Counted(w)
  BY <1>1 DEF Counted
<1> QED BY <1>1, <1>2, <1>3, <1>4 DEF Accounted

\* A miner whose pending epochs were settled has been paid, or the contract keeps for it,
\* what was due.
LEMMA AccountSettled ==
  ASSUME RewardsInv, NEW w \in Miners, UNCHANGED <<block, parameters, served, onDuty>>,
         Kept(w)' = Due(w), miners'[w].lastClaimed = CurrentEpoch, Counted(w)'
  PROVE  Accounted(w)'
<1>1. TypeOK /\ ClockKept /\ Accounted(w)
  BY DEF RewardsInv, IInv
<1>2. CurrentEpoch \in Nat /\ served[w] \in Nat
  BY <1>1, EpochIsNat DEF TypeOK
<1>3. /\ CurrentEpoch' = CurrentEpoch /\ Multiplier(onDuty[w])' = Multiplier(onDuty[w])
      /\ UNCHANGED <<lowRate, topRate>>
  BY DEF CurrentEpoch, Multiplier, parameters
<1>4. Pending(w)' = 0
  BY <1>2, <1>3 DEF Pending
<1>5. Past(w)' = served[w]
  BY <1>2, <1>4 DEF Past
<1>6. /\ lowRate * served[w] <= Due(w)
      /\ 100 * Due(w) <= (topRate * served[w]) * Multiplier(onDuty[w])
  BY DueBounds
<1> QED BY <1>2, <1>3, <1>4, <1>5, <1>6 DEF Accounted

\* What is kept for a miner that is not available, or that claimed in this epoch, is all
\* that is due.
LEMMA NothingNew ==
  ASSUME TypeOK, NEW w \in Miners, w \notin minerAddresses
  PROVE  RewardToClaim(w) = minerRewards[w]
BY DEF RewardToClaim, TypeOK

\* Every function that ends a miner's service, or pays it, first settles what is due.
LEMMA OneMinerRewards ==
  ASSUME RewardsInv, NEW w \in Miners, Newcomer(w) \/ Churner(w)
  PROVE  \A x \in Miners : Accounted(x)'
<1>1. /\ TypeOK /\ ClockKept /\ SetsAgree /\ Accounted(w) /\ OthersKept(w)
      /\ UNCHANGED <<block, models, parameters, served, onDuty>>
  BY OneMiner DEF RewardsInv, IInv
<1>2. \A x \in Miners \ {w} : Accounted(x)'
  BY <1>1, AccountKept DEF OthersKept, RewardsInv
<1>3. SUFFICES Accounted(w)'
  BY <1>2
<1>4. /\ miners[w] \in MinerType /\ block \in Nat /\ CurrentEpoch \in Nat
      /\ rewarded[w] \in Nat /\ minerRewards[w] \in Nat /\ RewardToClaim(w) \in Nat
      /\ onDuty[w] \in Nat /\ Service(w) \in Nat /\ miners[w].reserved \in Nat
  BY <1>1, EpochIsNat, RewardIsNat, AccountTypes DEF TypeOK
<1> DEFINE Same ==
      /\ minerRewards'[w] = minerRewards[w] /\ rewarded'[w] = rewarded[w]
      /\ miners'[w].lastClaimed = miners[w].lastClaimed
      /\ miners'[w].reserved = miners[w].reserved /\ miners'[w].since = miners[w].since
      /\ w \in minerAddresses' <=> w \in minerAddresses
<1>5. ASSUME Same PROVE Accounted(w)'
  BY <1>1, <1>5, AccountKept
<1>6. ASSUME KeepReward(w), rewarded'[w] = rewarded[w] PROVE Kept(w)' = Due(w)
  <2>1. minerRewards'[w] = RewardToClaim(w)
    BY <1>1, <1>6 DEF KeepReward, TypeOK
  <2> QED BY <1>6, <2>1 DEF Kept, Due
<1>7. ASSUME NEW m \in Models, \/ RegisterMiner(w, m) \/ RestakeForMiner(w, m)
                               \/ ForceChangeModelForMiner(w, m)
      PROVE  Same
  BY <1>1, <1>4, <1>7 DEF RegisterMiner, RestakeForMiner, ForceChangeModelForMiner, sets, history,
                          TypeOK, MinerType
<1>8. ASSUME NEW a \in StakeValues, IncreaseMinerStake(w, a) \/ UnstakeForMiner(w)
      PROVE  Same
  BY <1>1, <1>4, <1>8 DEF IncreaseMinerStake, UnstakeForMiner, sets, history, TypeOK, MinerType
<1>9. CASE JoinForMinting(w)
  <2>1. /\ w \notin minerAddresses /\ w \in minerAddresses'
        /\ miners' = [miners EXCEPT ![w].lastClaimed = StartEpoch(w), ![w].since = StartTime(w)]
        /\ UNCHANGED <<minerRewards, rewarded>>
    BY <1>1, <1>9 DEF JoinForMinting, history
  <2>2. /\ miners'[w].lastClaimed = CurrentEpoch /\ miners'[w].since = block
        /\ miners'[w].reserved = miners[w].reserved
    BY <1>1, <1>4, <2>1 DEF StartEpoch, StartTime, TypeOK, MinerType
  <2>3. Kept(w)' = Due(w)
    BY <1>1, <2>1, NothingNew DEF Kept, Due
  <2>4. Service(w)' = miners[w].reserved
    BY <1>1, <1>4, <2>2 DEF Service
  <2>5. Counted(w)'
    BY <1>1, <2>1, <2>4 DEF Counted, Accounted
  <2> QED BY <1>1, <2>2, <2>3, <2>5, AccountSettled
<1>10. CASE UnregisterMiner(w)
  <2>1. CASE w \in minerAddresses
    <3>1. /\ KeepReward(w) /\ UNCHANGED rewarded /\ w \notin minerAddresses'
          /\ miners' = [miners EXCEPT
                          ![w] = [Unregistered(miners[w]) EXCEPT !.lastClaimed = CurrentEpoch,
                                                                 !.reserved = 0, !.since = block]]
      BY <1>10, <2>1 DEF UnregisterMiner, history
    <3>2. miners'[w].lastClaimed = CurrentEpoch /\ miners'[w].reserved = 0
      BY <1>1, <1>4, <3>1 DEF TypeOK, MinerType, Unregistered
    <3>3. Counted(w)'
      BY <1>1, <1>4, <3>1, <3>2 DEF Counted
    <3> QED BY <1>1, <1>6, <3>1, <3>2, <3>3, AccountSettled
  <2>2. CASE w \notin minerAddresses
    <3>1. /\ UNCHANGED <<minerAddresses, minerRewards, rewarded>>
          /\ miners' = [miners EXCEPT ![w] = Unregistered(miners[w])]
      BY <1>10, <2>2 DEF UnregisterMiner, history, sets
    <3>2. /\ miners'[w].lastClaimed = miners[w].lastClaimed
          /\ miners'[w].reserved = miners[w].reserved /\ miners'[w].since = miners[w].since
      BY <1>1, <1>4, <3>1 DEF TypeOK, MinerType, Unregistered
    <3> QED BY <1>5, <3>1, <3>2
  <2> QED BY <2>1, <2>2
<1>11. ASSUME NEW isFined \in BOOLEAN, SlashMiner(w, isFined) PROVE Accounted(w)'
  <2>1. w \in minerAddresses /\ w \in minerAddressesByModel[miners[w].model]
    BY <1>1, <1>4, <1>11 DEF SlashMiner, TypeOK, SetsAgree, MinerType
  <2>2. KeepReward(w) /\ UNCHANGED rewarded /\ w \notin minerAddresses'
    BY <1>11, <2>1 DEF SlashMiner
  <2>3. /\ miners'[w].lastClaimed = CurrentEpoch
        /\ miners'[w].reserved = IF isFined THEN 0 ELSE Service(w)
    BY <1>1, <1>4, <1>11 DEF SlashMiner, TypeOK, MinerType
  <2>4. Service(w) <= onDuty[w]
    BY <1>1, <2>1 DEF Accounted, Counted
  <2>5. miners'[w].reserved <= onDuty'[w]
    BY <1>1, <1>4, <2>3, <2>4
  <2>6. Counted(w)'
    BY <2>2, <2>5 DEF Counted
  <2> QED BY <1>1, <1>6, <2>2, <2>3, <2>6, AccountSettled
<1>12. CASE ClaimReward(w)
  <2>1. /\ minerRewards'[w] = 0 /\ rewarded'[w] = rewarded[w] + RewardToClaim(w)
        /\ miners'[w].lastClaimed = CurrentEpoch /\ UNCHANGED minerAddresses
        /\ miners'[w].reserved = miners[w].reserved /\ miners'[w].since = miners[w].since
    BY <1>1, <1>4, <1>12 DEF ClaimReward, TypeOK, MinerType, sets
  <2>2. Kept(w)' = Due(w)
    BY <1>4, <2>1 DEF Kept, Due
  <2>3. Service(w)' = Service(w)
    BY <1>1, <2>1 DEF Service
  <2>4. Counted(w)'
    BY <1>1, <2>1, <2>3 DEF Counted, Accounted
  <2> QED BY <1>1, <2>1, <2>2, <2>4, AccountSettled
<1> HIDE DEF Same
<1> QED
  <2>1. \E a \in StakeValues : TRUE
    BY StakingAssumption
  <2> QED BY <2>1, <1>5, <1>7, <1>8, <1>9, <1>10, <1>11, <1>12 DEF Newcomer, Churner

\* The accounts are kept by every step.
LEMMA InitRewards == Init => RewardsInv
<1> SUFFICES ASSUME Init PROVE RewardsInv
  OBVIOUS
<1>1. IInv /\ CurrentEpoch \in Nat /\ rate \in Nat
  BY InitInv, EpochIsNat, StakingAssumption DEF IInv, TypeOK
<1>2. lowRate = rate /\ topRate = rate
  BY DEF Init
<1>3. ASSUME NEW w \in Miners PROVE Accounted(w)
  <2>1. /\ w \notin minerAddresses /\ miners[w].lastClaimed = 0 /\ miners[w].reserved = 0
        /\ served[w] = 0 /\ onDuty[w] = 0 /\ rewarded[w] = 0 /\ minerRewards[w] = 0
    BY DEF Init, NewMiner
  <2>2. Pending(w) = 0 /\ Past(w) = 0 /\ Kept(w) = 0 /\ Counted(w)
    BY <2>1 DEF Pending, Past, Kept, Counted
  <2>3. Multiplier(onDuty[w]) \in Nat
    BY <2>1, MultiplierIsNat
  <2>4. lowRate * Past(w) = 0 /\ topRate * Past(w) = 0
    BY <1>1, <1>2, <2>2
  <2>5. (topRate * Past(w)) * Multiplier(onDuty[w]) = 0
    BY <2>3, <2>4
  <2> QED BY <1>1, <2>1, <2>2, <2>4, <2>5 DEF Accounted
<1> QED BY <1>1, <1>2, <1>3 DEF RewardsInv

\* The same, for the steps.
LEMMA NextRewards == RewardsInv /\ [Next]_vars => RewardsInv'
<1> SUFFICES ASSUME RewardsInv, [Next]_vars PROVE RewardsInv'
  OBVIOUS
<1>1. IInv'
  BY NextInv DEF RewardsInv
<1>2. CASE NextBlock
  <2>1. UNCHANGED <<rate, lowRate, topRate>>
    BY <1>2 DEF NextBlock, parameters
  <2>2. \A w \in Miners : Accounted(w)'
    BY <1>2, NextBlockRewards
  <2> QED BY <1>1, <2>1, <2>2 DEF RewardsInv
<1>3. CASE UNCHANGED vars \/ Owner
  BY <1>1, <1>3, OwnerRewards DEF RewardsInv
<1>4. ASSUME NEW w \in Miners, Newcomer(w) \/ Churner(w) PROVE RewardsInv'
  <2>1. UNCHANGED <<rate, lowRate, topRate>>
    BY <1>4, OneMiner DEF RewardsInv, IInv, parameters
  <2>2. \A x \in Miners : Accounted(x)'
    BY <1>4, OneMinerRewards
  <2> QED BY <1>1, <2>1, <2>2 DEF RewardsInv
<1> QED BY <1>2, <1>3, <1>4, StakingAssumption DEF Next

\* What a miner has been paid and can claim together are the reward of the epochs that ended
\* while it was available: not less than the lowest rate there was for each, and not more
\* than the highest with the boost of its whole service.
THEOREM RewardsAreEarned == Spec => []RewardsEarned
BY InitRewards, NextRewards, EarnedIs, PTL DEF Spec
-----------------------------------------------------------------------------
(* Stakes.                                                                  *)

\* A miner that is not registered has nothing at stake: it is withdrawing all of it.
Emptied == \A w \in Miners : ~miners[w].registered => miners[w].stake = 0

\* A fine is covered by the stake of an available miner, unless the minimum was raised.
Sufficient == ~raised => \A w \in minerAddresses : miners[w].stake >= minStake

\* The books: what is in the contract is what is at stake or withdrawn and what was
\* provided for rewards, less the rewards paid.
Paid == SumFunctionOnSet(rewarded, Miners)
Books == ~raised => held + Paid = Funding + AllStakes

StakesInv == IInv /\ Emptied /\ Sufficient /\ Books

\* A fine is at most the minimum stake.
LEMMA FineBound ==
  ASSUME minStake \in StakeValues
  PROVE  Fine <= minStake
<1>1. minStake \in Nat /\ FinePct \in Nat /\ FinePct <= 100
  BY StakingAssumption
<1>2. minStake * FinePct <= minStake * 100
  BY <1>1
<1>3. minStake * FinePct \in Nat
  BY <1>1
<1> DEFINE n == minStake * FinePct
<1>4. n \in Nat /\ n <= minStake * 100 => n \div 100 <= minStake
  BY <1>1
<1> HIDE DEF n
<1> QED BY <1>2, <1>3, <1>4 DEF Fine, n

\* What a function about one miner moves in the sums is what it moves for that miner.
LEMMA SumsMove ==
  ASSUME TypeOK, TypeOK', NEW w \in Miners, OthersKept(w)
  PROVE  /\ AllStakes \in Int /\ AllStakes' = AllStakes + (InContract(w)' - InContract(w))
         /\ Paid \in Int /\ Paid' = Paid + (rewarded'[w] - rewarded[w])
<1> DEFINE f == [x \in Miners |-> InContract(x)]
           e == [x \in Miners |-> InContract(x)']
<1>1. \A x \in Miners : InContract(x) \in Int /\ InContract(x)' \in Int
  BY DEF TypeOK, MinerType, InContract
<1>2. \A x \in Miners : e[x] \in Int /\ f[x] \in Int
  BY <1>1
<1>3. \A x \in Miners \ {w} : e[x] = f[x]
  BY DEF OthersKept, InContract
<1>4. AllStakes = SumFunctionOnSet(f, Miners) /\ AllStakes' = SumFunctionOnSet(e, Miners)
  BY DEF AllStakes
<1>5. e[w] = InContract(w)' /\ f[w] = InContract(w)
  OBVIOUS
<1> HIDE DEF e, f
<1>6. SumFunctionOnSet(e, Miners) = SumFunctionOnSet(f, Miners) + (e[w] - f[w])
  BY <1>2, <1>3, SumChange, StakingAssumption
<1>7. AllStakes \in Int
  BY <1>2, <1>4, SumOfIntegers, StakingAssumption
<1>8. /\ \A x \in Miners : rewarded'[x] \in Int /\ rewarded[x] \in Int
      /\ \A x \in Miners \ {w} : rewarded'[x] = rewarded[x]
  BY DEF TypeOK, OthersKept
<1>9. Paid' = Paid + (rewarded'[w] - rewarded[w])
  BY <1>8, SumChange, StakingAssumption DEF Paid
<1>10. Paid \in Int
  BY <1>8, SumOfIntegers, StakingAssumption DEF Paid
<1> QED BY <1>4, <1>5, <1>6, <1>7, <1>9, <1>10

\* What comes in, less what goes out, is what is more at stake or withdrawn.
Balanced(w) ==
  held' + (rewarded'[w] - rewarded[w]) = held + (InContract(w)' - InContract(w))

\* What a step of one miner must do: keep its stake as its state requires, and balance.
LEMMA BackedStep ==
  ASSUME StakesInv, IInv', NEW w \in Miners, OthersKept(w), UNCHANGED parameters,
         ~miners'[w].registered => miners'[w].stake = 0,
         ~raised /\ w \in minerAddresses' => miners'[w].stake >= minStake,
         ~raised => Balanced(w)
  PROVE  StakesInv'
<1>1. TypeOK /\ TypeOK'
  BY DEF StakesInv, IInv
<1>2. Emptied'
  BY DEF StakesInv, Emptied, OthersKept
<1>3. Sufficient'
  BY <1>1 DEF StakesInv, Sufficient, OthersKept, parameters, TypeOK
<1>4. Books'
  <2> SUFFICES ASSUME ~raised PROVE held' + Paid' = Funding + AllStakes'
    BY DEF Books, Paid, parameters
  <2>1. held + Paid = Funding + AllStakes
    BY DEF StakesInv, Books
  <2>2. /\ held \in Int /\ held' \in Int /\ rewarded[w] \in Int /\ rewarded'[w] \in Int
        /\ InContract(w) \in Int /\ InContract(w)' \in Int /\ Funding \in Int
    BY <1>1, StakingAssumption DEF TypeOK, MinerType, InContract
  <2>3. /\ AllStakes \in Int /\ AllStakes' = AllStakes + (InContract(w)' - InContract(w))
        /\ Paid \in Int /\ Paid' = Paid + (rewarded'[w] - rewarded[w])
    BY <1>1, SumsMove
  <2> QED BY <2>1, <2>2, <2>3 DEF Balanced
<1> QED BY <1>2, <1>3, <1>4 DEF StakesInv

LEMMA OneMinerStakes ==
  ASSUME StakesInv, IInv', NEW w \in Miners, Newcomer(w) \/ Churner(w)
  PROVE  StakesInv'
<1>1. TypeOK /\ TypeOK' /\ OthersKept(w) /\ UNCHANGED <<block, models, parameters, served, onDuty>>
  BY OneMiner DEF StakesInv, IInv
<1>2. /\ miners[w] \in MinerType /\ miners'[w] \in MinerType
      /\ unstakeRequests[w] \in [stake : Nat, unlockAt : Nat] /\ miners[w].stake \in Nat
      /\ unstakeRequests[w].stake \in Nat /\ held \in Nat /\ rewarded[w] \in Nat
      /\ minStake \in Nat
  BY <1>1, StakingAssumption DEF TypeOK, MinerType
<1>3. /\ ~miners[w].registered => miners[w].stake = 0
      /\ w \in minerAddresses => miners[w].registered
      /\ ~raised /\ w \in minerAddresses => miners[w].stake >= minStake
  BY DEF StakesInv, Emptied, Sufficient, IInv, SetsAgree
<1> DEFINE Goal == /\ ~miners'[w].registered => miners'[w].stake = 0
                   /\ ~raised /\ w \in minerAddresses' => miners'[w].stake >= minStake
                   /\ ~raised => Balanced(w)
<1>4. SUFFICES Goal
  BY <1>1, BackedStep
<1> USE DEF InContract, Balanced
<1>5. ASSUME NEW m \in Models, RegisterMiner(w, m) PROVE Goal
  <2>1. /\ ~miners[w].registered /\ held' = held + minStake
        /\ UNCHANGED <<minerAddresses, unstakeRequests, rewarded>>
        /\ miners'[w].registered /\ miners'[w].stake = minStake
    BY <1>1, <1>2, <1>5 DEF RegisterMiner, sets, history, TypeOK, MinerType
  <2> QED BY <1>2, <1>3, <2>1
<1>6. ASSUME NEW m \in Models, RestakeForMiner(w, m) PROVE Goal
  <2>1. /\ UNCHANGED <<minerAddresses, rewarded, held>>
        /\ miners'[w].registered /\ miners'[w].stake = miners[w].stake + unstakeRequests[w].stake
    BY <1>1, <1>2, <1>6 DEF RestakeForMiner, sets, history, TypeOK, MinerType
  <2>2. unstakeRequests'[w].stake = 0
    BY <1>1, <1>2, <1>6 DEF RestakeForMiner, TypeOK
  <2> QED BY <1>2, <1>3, <2>1, <2>2
<1>7. ASSUME NEW m \in Models, ForceChangeModelForMiner(w, m) PROVE Goal
  <2>1. /\ UNCHANGED <<minerAddresses, unstakeRequests, rewarded, held>>
        /\ miners'[w].registered = miners[w].registered /\ miners'[w].stake = miners[w].stake
    BY <1>1, <1>2, <1>7 DEF ForceChangeModelForMiner, history, TypeOK, MinerType
  <2> QED BY <1>2, <1>3, <2>1
<1>8. CASE JoinForMinting(w)
  <2>1. /\ UNCHANGED <<unstakeRequests, rewarded, held>> /\ miners[w].stake >= minStake
        /\ miners'[w].registered = miners[w].registered /\ miners'[w].stake = miners[w].stake
    BY <1>1, <1>2, <1>8 DEF JoinForMinting, history, TypeOK, MinerType
  <2> QED BY <1>2, <1>3, <2>1
<1>9. CASE UnregisterMiner(w)
  <2>1. PICK r \in {Unregistered(miners[w]),
                    [Unregistered(miners[w]) EXCEPT !.lastClaimed = CurrentEpoch,
                                                    !.reserved = 0, !.since = block]} :
          miners' = [miners EXCEPT ![w] = r]
    BY <1>9 DEF UnregisterMiner
  <2>2. r.stake = 0
    BY <1>2, <2>1 DEF Unregistered, MinerType
  <2>3. miners'[w].stake = 0 /\ w \notin minerAddresses'
    BY <1>1, <1>9, <2>1, <2>2 DEF UnregisterMiner, sets, TypeOK
  <2>4. unstakeRequests'[w].stake = miners[w].stake + unstakeRequests[w].stake
        /\ UNCHANGED <<held, rewarded>>
    BY <1>1, <1>9 DEF UnregisterMiner, history, TypeOK
  <2> QED BY <1>2, <2>3, <2>4
<1>10. ASSUME NEW a \in StakeValues, IncreaseMinerStake(w, a) PROVE Goal
  <2>1. /\ UNCHANGED <<minerAddresses, unstakeRequests, rewarded>> /\ held' = held + a
        /\ miners'[w].registered /\ miners'[w].stake = miners[w].stake + a /\ a \in Nat
    BY <1>1, <1>2, <1>10, StakingAssumption
       DEF IncreaseMinerStake, sets, history, TypeOK, MinerType
  <2> QED BY <1>2, <1>3, <2>1
<1>11. CASE UnstakeForMiner(w)
  <2>1. /\ UNCHANGED <<minerAddresses, miners, rewarded>>
        /\ held' = held - unstakeRequests[w].stake /\ unstakeRequests'[w].stake = 0
    BY <1>1, <1>2, <1>11 DEF UnstakeForMiner, sets, history, TypeOK
  <2> QED BY <1>2, <1>3, <2>1
<1>12. ASSUME NEW isFined \in BOOLEAN, SlashMiner(w, isFined) PROVE Goal
  <2> DEFINE fine == IF isFined THEN Fine ELSE 0
  <2>1. fine \in Nat /\ fine <= minStake
    BY <1>1, <1>2, FineIsNat, FineBound DEF TypeOK
  <2>2. w \in minerAddresses /\ w \in minerAddressesByModel[miners[w].model]
    BY <1>12 DEF SlashMiner, StakesInv, IInv, TypeOK, SetsAgree, MinerType
  <2>3. /\ minerAddresses' = minerAddresses \ {w} /\ held' = held - fine
        /\ UNCHANGED <<unstakeRequests, rewarded>>
        /\ miners'[w].registered = miners[w].registered
        /\ miners'[w].stake = IF miners[w].stake < fine THEN 0 ELSE miners[w].stake - fine
    BY <1>1, <1>2, <1>12, <2>2 DEF SlashMiner, TypeOK, MinerType
  <2> HIDE DEF fine
  <2> QED BY <1>2, <1>3, <2>1, <2>2, <2>3
<1>13. CASE ClaimReward(w)
  <2>1. /\ UNCHANGED <<minerAddresses, unstakeRequests>> /\ RewardToClaim(w) \in Nat
        /\ held' = held - RewardToClaim(w) /\ rewarded'[w] = rewarded[w] + RewardToClaim(w)
        /\ miners'[w].registered = miners[w].registered /\ miners'[w].stake = miners[w].stake
    BY <1>1, <1>2, <1>13, RewardIsNat DEF ClaimReward, sets, TypeOK, MinerType, StakesInv, IInv
  <2> QED BY <1>2, <1>3, <2>1
<1> HIDE DEF Goal
<1> QED BY <1>5, <1>6, <1>7, <1>8, <1>9, <1>10, <1>11, <1>12, <1>13 DEF Newcomer, Churner

\* The books are kept by every step, as a fine is covered by the stake it is taken from.
THEOREM BooksHold == Spec => []StakesInv
<1>1. Init => StakesInv
  <2> SUFFICES ASSUME Init PROVE StakesInv
    OBVIOUS
  <2>1. IInv /\ Emptied /\ Sufficient /\ held = Funding /\ Funding \in Nat
    BY InitInv, StakingAssumption DEF Init, NewMiner, Emptied, Sufficient
  <2>2. \A w \in Miners : InContract(w) = 0 /\ rewarded[w] = 0
    BY DEF Init, NewMiner, InContract
  <2> DEFINE f == [w \in Miners |-> InContract(w)]
  <2>3. \A w \in Miners : f[w] = 0
    BY <2>2
  <2> HIDE DEF f
  <2>4. SumFunctionOnSet(f, Miners) = 0
    BY <2>3, SumOfZeros, StakingAssumption
  <2>5. SumFunctionOnSet(rewarded, Miners) = 0
    BY <2>2, SumOfZeros, StakingAssumption
  <2> QED BY <2>1, <2>4, <2>5 DEF StakesInv, Books, Paid, AllStakes, f
<1>2. StakesInv /\ [Next]_vars => StakesInv'
  <2> SUFFICES ASSUME StakesInv, [Next]_vars PROVE StakesInv'
    OBVIOUS
  <2>1. IInv'
    BY NextInv DEF StakesInv
  <2>2. CASE NextBlock \/ UNCHANGED vars \/ Owner
    <3>1. UNCHANGED <<miners, minerAddresses, unstakeRequests, held, rewarded>>
      BY <2>2 DEF NextBlock, Owner, SetMinerMinimumStake, SetNewRewardInEpoch, RegisterModel,
                  UnregisterModel, vars, sets, parameters, history
    <3>2. Emptied'
      BY <3>1 DEF StakesInv, Emptied
    <3>3. ~raised' => /\ ~raised
                      /\ minStake' <= minStake \/ minerAddresses = {}
      <4>1. minStake \in Nat /\ raised \in BOOLEAN /\ \A v \in StakeValues : v \in Nat
        BY StakingAssumption DEF StakesInv, IInv, TypeOK
      <4>2. UNCHANGED <<minStake, raised>> \/ \E v \in StakeValues : SetMinerMinimumStake(v)
        BY <2>2 DEF NextBlock, Owner, SetNewRewardInEpoch, RegisterModel, UnregisterModel,
                    vars, parameters
      <4>3. CASE UNCHANGED <<minStake, raised>>
        BY <4>1, <4>3
      <4>4. ASSUME NEW v \in StakeValues, SetMinerMinimumStake(v), ~raised'
            PROVE  ~raised /\ (minStake' <= minStake \/ minerAddresses = {})
        <5>1. minStake' = v /\ raised' = (raised \/ (v > minStake /\ minerAddresses # {}))
          BY <4>4 DEF SetMinerMinimumStake
        <5>2. ~raised /\ ~(v > minStake /\ minerAddresses # {})
          BY <4>4, <5>1
        <5> QED BY <4>1, <5>1, <5>2
      <4> QED BY <4>2, <4>3, <4>4
    <3>4. Sufficient'
      <4>1. /\ minStake \in Nat /\ minStake' \in Nat
            /\ \A w \in minerAddresses : miners[w].stake \in Nat
        BY <2>1, StakingAssumption DEF StakesInv, IInv, TypeOK, MinerType
      <4> QED BY <3>1, <3>3, <4>1 DEF StakesInv, Sufficient
    <3>5. AllStakes' = AllStakes
      BY <3>1 DEF AllStakes, InContract
    <3>6. Books'
      BY <3>1, <3>3, <3>5 DEF StakesInv, Books, Paid
    <3> QED BY <2>1, <3>2, <3>4, <3>6 DEF StakesInv
  <2>3. ASSUME NEW w \in Miners, Newcomer(w) \/ Churner(w) PROVE StakesInv'
    BY <2>1, <2>3, OneMinerStakes
  <2> QED BY <2>2, <2>3, StakingAssumption DEF Next
<1> QED BY <1>1, <1>2, PTL DEF Spec

\* The rewards paid are part of what was earned.
LEMMA PaidIsEarned ==
  ASSUME RewardsInv
  PROVE  /\ Paid \in Int /\ Paid <= SumFunctionOnSet([w \in Miners |-> MostEarned(w)], Miners)
         /\ SumFunctionOnSet([w \in Miners |-> MostEarned(w)], Miners) \in Int
<1> DEFINE f == [w \in Miners |-> MostEarned(w)]
<1>1. ASSUME NEW w \in Miners PROVE rewarded[w] \in Int /\ f[w] \in Int /\ rewarded[w] <= f[w]
  <2>1. TypeOK /\ ClockKept /\ Accounted(w) /\ RewardsEarned
    BY EarnedIs DEF RewardsInv, IInv
  <2>2. rewarded[w] \in Nat /\ RewardToClaim(w) \in Nat
    BY <2>1, RewardIsNat DEF TypeOK
  <2>3. MostEarned(w) \in Int
    <3>1. /\ topRate \in Nat /\ served[w] \in Nat /\ Multiplier(onDuty[w]) \in Nat
      BY <2>1, AccountTypes
    <3>2. topRate * served[w] \in Nat
      BY <3>1
    <3> DEFINE y == (topRate * served[w]) * Multiplier(onDuty[w])
    <3>3. y \in Nat /\ MostEarned(w) = y \div 100
      BY <3>1, <3>2 DEF MostEarned
    <3> HIDE DEF y
    <3> QED BY <3>3
  <2>4. rewarded[w] + RewardToClaim(w) <= MostEarned(w)
    BY <2>1 DEF RewardsEarned
  <2> QED BY <2>2, <2>3, <2>4
<1> HIDE DEF f
<1>2. Paid \in Int /\ SumFunctionOnSet(f, Miners) \in Int
  BY <1>1, SumOfIntegers, StakingAssumption DEF Paid
<1>3. Paid <= SumFunctionOnSet(f, Miners)
  BY <1>1, SumBounds, StakingAssumption DEF Paid
<1> QED BY <1>2, <1>3 DEF f

\* The stakes and withdrawals of all miners are in the contract as long as what was provided
\* for rewards covers what can have been earned, unless the minimum stake was raised while
\* miners were available: by the books, only the rewards paid are missing from it.
THEOREM StakesAreBacked == Spec => []StakesBacked
<1>1. RewardsInv /\ StakesInv => StakesBacked
  <2> SUFFICES ASSUME RewardsInv, StakesInv, ~raised,
                      SumFunctionOnSet([w \in Miners |-> MostEarned(w)], Miners) <= Funding
               PROVE  AllStakes <= held
    BY DEF StakesBacked
  <2> DEFINE e == SumFunctionOnSet([w \in Miners |-> MostEarned(w)], Miners)
  <2>1. Paid \in Int /\ e \in Int /\ Paid <= e
    BY PaidIsEarned
  <2>2. held + Paid = Funding + AllStakes
    BY DEF StakesInv, Books
  <2>3. held \in Int /\ Funding \in Int
    BY StakingAssumption DEF StakesInv, IInv, TypeOK
  <2>4. AllStakes \in Int
    <3> DEFINE f == [x \in Miners |-> InContract(x)]
    <3>1. \A x \in Miners : f[x] \in Int
      BY DEF StakesInv, IInv, TypeOK, MinerType, InContract
    <3> HIDE DEF f
    <3>2. SumFunctionOnSet(f, Miners) \in Int
      BY <3>1, SumOfIntegers, StakingAssumption
    <3> QED BY <3>2 DEF AllStakes, f
  <2>5. e <= Funding
    OBVIOUS
  <2> HIDE DEF e
  <2> QED BY <2>1, <2>2, <2>3, <2>4, <2>5
<1> QED BY InitRewards, NextRewards, BooksHold, <1>1, PTL DEF Spec
=============================================================================

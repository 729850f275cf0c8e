--------------------------- MODULE MinerRegistry ---------------------------
(***************************************************************************)
(* What WorkerHub relies on of StakingHub: which models are registered and *)
(* which miner is available for which model.  Stakes, epochs, rewards and  *)
(* the penalty clock are abstracted: a miner that is out may come back for *)
(* any model at any time, one that is in may leave at any time.            *)
(***************************************************************************)
EXTENDS FiniteSets

CONSTANTS Workers,  \* addresses that may register as miners
          Models,   \* model contracts
          None      \* the zero address / "no value"

ASSUME NoneAssumption == None \notin Models \cup Workers

VARIABLES minerModel,  \* the model an available miner serves, None when it is not available
          models       \* the registered models: those with tier # 0

registryVars == <<minerModel, models>>

RegistryTypeOK ==
  /\ minerModel \in [Workers -> Models \cup {None}]
  /\ models \subseteq Models

RegistryInit ==
  /\ minerModel \in [Workers -> Models \cup {None}]
  /\ models = Models

\* minerAddresses, and minerAddressesByModel[m]
Joined == {w \in Workers : minerModel[w] # None}
MinersOf(m) == {w \in Workers : minerModel[w] = m}

Join(w, m) ==
  /\ w \notin Joined
  /\ minerModel' = [minerModel EXCEPT ![w] = m]
  /\ UNCHANGED models

\* unregisterMiner, or the owner calling slashMiner: either way the miner is out
Leave(w) ==
  /\ w \in Joined
  /\ minerModel' = [minerModel EXCEPT ![w] = None]
  /\ UNCHANGED models

ChangeModel(w, m) ==
  /\ m \in models
  /\ w \in Joined
  /\ minerModel[w] # m
  /\ minerModel' = [minerModel EXCEPT ![w] = m]
  /\ UNCHANGED models

RegisterModel(m) ==
  /\ m \notin models
  /\ models' = models \cup {m}
  /\ UNCHANGED minerModel

UnregisterModel(m) ==
  /\ m \in models
  /\ models' = models \ {m}
  /\ UNCHANGED minerModel

(***************************************************************************)
(* slashMiner called by WorkerHub for every miner of S in one transaction: *)
(* it reverts, and the whole transaction with it, when one of them is not  *)
(* available.                                                              *)
(***************************************************************************)
Slash(S) ==
  /\ S \subseteq Joined
  /\ minerModel' = [w \in Workers |-> IF w \in S THEN None ELSE minerModel[w]]
  /\ UNCHANGED models

RegistryNext ==
  \/ \E w \in Workers, m \in Models : Join(w, m) \/ ChangeModel(w, m)
  \/ \E w \in Workers : Leave(w)
  \/ \E m \in Models : RegisterModel(m) \/ UnregisterModel(m)
  \/ \E S \in SUBSET Workers : Slash(S)

RegistrySpec == RegistryInit /\ [][RegistryNext]_registryVars

=============================================================================

--------------------------- MODULE BattleGameProofs ---------------------------
(***************************************************************************)
(* Theorems about the betting game, for every number of watchers, agents,  *)
(* bets, results, calls and faults, whatever the stakes and the fee: the   *)
(* types; that no record of a transfer is overwritten and every transfer   *)
(* is recorded once, in flight or known to be lost; that a game is         *)
(* completed only when what it owes is recorded as sent; that the scans of *)
(* the chain neither skip nor repeat a bet the game can tell from others;  *)
(* and that the game's wallet holds what it owes.                          *)
(***************************************************************************)
EXTENDS BattleGameProps, SumLemmas, TLAPS

Modes == {"none", "watch", "complete", "api", "refund"}
Saving == DOMAIN AfterSave

LocType ==
  [pc : PCs, mode : Modes, doc : DocType, fresh : BOOLEAN, ok : BOOLEAN, unsaved : SUBSET Items]

\* The document, and every process with its copy.
DocsTyped == game \in DocType /\ loc \in [Procs -> LocType]

\* Everything else.
WorldTyped ==
  /\ lock \in [running : BOOLEAN, recent : BOOLEAN, holder : Procs]
  /\ head \in 0..NumBlocks
  /\ agentBal \in [Agents -> Nat] /\ gameBal \in Nat
  /\ betOpen \in BOOLEAN /\ timeUp \in BOOLEAN /\ aged \in 0..MaxResults
  /\ ends \in 0..MaxEnds /\ faults \in 0..MaxFaults
  /\ paid \in [Items -> Nat] /\ lost \in [Items -> Nat]

TypeInv == DocsTyped /\ WorldTyped

\* The invariant contains the property.
LEMMA TypeImplies == TypeInv => TypeOK
BY DEF TypeInv, DocsTyped, WorldTyped, TypeOK, LocType, Modes

-----------------------------------------------------------------------------
(* Amounts.                                                                 *)

\* Wallets of agents and that of the game differ.
LEMMA Constants ==
  /\ NumBets \in Nat /\ Agents \subseteq Nat \ {0} /\ IsFiniteSet(Agents) /\ NoAgent \notin Agents
  /\ IsFiniteSet(Bets) /\ IsFiniteSet(Procs) /\ Handler \in Procs
  /\ Stake \in [Bets -> Nat] /\ BetOn \in [Bets -> Agents] /\ FeePct \in 0..100
  /\ MaxResults \in Nat /\ MaxEnds \in Nat /\ MaxFaults \in Nat /\ Lookback \in Nat
  /\ NumBlocks \in Nat /\ Handler \notin Watchers
<1>1. IsFiniteSet(Bets)
  BY BattleAssumption, FS_Interval DEF Bets
<1>2. IsFiniteSet(Procs)
  BY BattleAssumption, FS_AddElement DEF Procs
<1> QED BY <1>1, <1>2, BattleAssumption DEF NoAgent, Procs

\* The bets of a document are bets, and bets and agents are numbers.
LEMMA DocSets ==
  ASSUME NEW d \in DocType
  PROVE  /\ d.win \subseteq Bets /\ d.players \subseteq Bets /\ d.late \subseteq Bets
         /\ Bets \subseteq Nat /\ Agents \subseteq Nat
<1>1. d.win \subseteq Bets /\ d.players \subseteq Bets /\ d.late \subseteq Bets
  BY DEF DocType
<1>2. Bets \subseteq Nat /\ Agents \subseteq Nat
  BY Constants DEF Bets
<1> QED BY <1>1, <1>2

\* The stakes of some bets add up to a natural.
LEMMA StakesAreNat == ASSUME NEW S \in SUBSET Bets PROVE StakeOf(S) \in Nat
<1>1. IsFiniteSet(S) /\ \A i \in S : Stake[i] \in Nat
  BY Constants, FS_Subset
<1> QED BY <1>1, SumOfNaturals DEF StakeOf

\* And so do the amounts of the agents.
LEMMA TotalIsNat == ASSUME NEW d \in DocType PROVE Total(d) \in Nat
<1>1. \A a \in Agents : d.amount[a] \in Nat
  BY DEF DocType
<1> QED BY <1>1, Constants, SumOfNaturals DEF Total

\* Rounding keeps naturals.
LEMMA RoundIsNat == ASSUME NEW x \in Nat, NEW y \in Nat \ {0} PROVE RoundDiv(x, y) \in Nat
<1>1. 2 * x + y \in Nat /\ 2 * y \in Nat \ {0}
  OBVIOUS
<1>2. ASSUME NEW a \in Nat, NEW b \in Nat \ {0} PROVE a \div b \in Nat
  OBVIOUS
<1> QED BY <1>1, <1>2 DEF RoundDiv

\* The fee is at most what it is taken from, rounding included.
LEMMA FeeWithin ==
  ASSUME NEW t \in Nat
  PROVE  RoundDiv(t * FeePct, 100) \in Nat /\ RoundDiv(t * FeePct, 100) <= t
<1> DEFINE x == t * FeePct
<1>1. x \in Nat /\ x <= t * 100
  BY Constants
<1> HIDE DEF x
<1>2. RoundDiv(x, 100) \in Nat /\ RoundDiv(x, 100) <= t
  BY <1>1 DEF RoundDiv
<1> QED BY <1>2 DEF x

\* A share is a natural.
LEMMA ShareIsNat == ASSUME NEW d \in DocType, NEW i \in Bets PROVE Share(d, i) \in Nat
<1>1. d.betWinners \in Nat /\ d.pool \in Nat /\ Stake[i] \in Nat
  BY Constants DEF DocType
<1>2. Stake[i] * d.pool \in Nat
  BY <1>1
<1> QED BY <1>1, <1>2, RoundIsNat DEF Share

\* A prize is an integer: what is left for the last winner may be negative.
LEMMA PrizeIsInt == ASSUME NEW d \in DocType, NEW i \in Bets PROVE PrizeAmount(d, i) \in Int
<1> DEFINE before == {j \in d.win : j < i}
           f == [j \in before |-> Share(d, j)]
<1>1. before \subseteq Bets /\ d.pool \in Nat
  BY DEF DocType
<1>2. IsFiniteSet(before) /\ \A j \in before : f[j] \in Int
  BY <1>1, Constants, FS_Subset, ShareIsNat
<1>3. SumFunctionOnSet(f, before) \in Int
  <2> HIDE DEF before, f
  <2> QED BY <1>2, SumOfIntegers
<1> QED BY <1>1, <1>3, ShareIsNat DEF PrizeAmount

\* What a transfer is for.
LEMMA ItemKinds ==
  ASSUME NEW item \in Items
  PROVE  \/ item[1] = "collect" /\ item[2] \in Agents
         \/ item = <<"fee", 0>>
         \/ item[1] \in {"prize", "refund", "late"} /\ item[2] \in Bets
BY DEF Items

\* Amounts are naturals: the encoding drops the sign.
LEMMA AmountIsNat ==
  ASSUME NEW d \in DocType, NEW item \in Items PROVE Amount(d, item) \in Nat
<1>1. CASE item[1] = "collect" /\ item[2] \in Agents
  BY <1>1 DEF Amount, DocType
<1>2. CASE item = <<"fee", 0>>
  BY <1>2 DEF Amount, DocType
<1>3. CASE item[1] = "prize" /\ item[2] \in Bets
  <2>1. PrizeAmount(d, item[2]) \in Int
    BY <1>3, PrizeIsInt
  <2>2. Amount(d, item) = IF PrizeAmount(d, item[2]) < 0 THEN -PrizeAmount(d, item[2])
                          ELSE PrizeAmount(d, item[2])
    BY <1>3 DEF Amount
  <2> QED BY <2>1, <2>2
<1>4. \A S \in SUBSET Bets : \A i : RefundAmount(S, i) \in Nat
  BY StakesAreNat DEF RefundAmount
<1>5. CASE item[1] \in {"refund", "late"} /\ item[2] \in Bets
  BY <1>4, <1>5 DEF Amount, DocType
<1> QED BY ItemKinds, <1>1, <1>2, <1>3, <1>5

\* A transfer is drawn on a wallet there is.
LEMMA WalletIs == ASSUME NEW item \in Items PROVE Wallet(item) \in Agents \cup {NoAgent}
BY ItemKinds, Constants DEF Wallet

-----------------------------------------------------------------------------
(* The document.                                                            *)

\* What it is at first.
LEMMA NewGameType == NewGame \in DocType
BY Constants DEF NewGame, DocType, Statuses, NoAgent

\* Who has won.
LEMMA DetermineType == ASSUME NEW d \in DocType PROVE DeterminePlayerWinner(d) \in DocType
<1> DEFINE W == {i \in d.players : BetOn[i] = d.winner}
           fee == RoundDiv(Total(d) * FeePct, 100)
<1>1. W \in SUBSET Bets /\ d.win \cup W \in SUBSET Bets
  BY DEF DocType
<1>2. Cardinality(W) \in 0..NumBets
  <2>2. Cardinality(W) <= Cardinality(Bets) /\ Cardinality(W) \in Nat
    BY <1>1, Constants, FS_Subset, FS_CardinalityType
  <2> QED BY <2>2, Constants, FirstNumbers DEF Bets
<1>3. StakeOf(W) \in Nat
  BY <1>1, StakesAreNat
<1>4. fee \in Nat /\ Total(d) - fee \in Nat
  BY TotalIsNat, FeeWithin
<1>5. DeterminePlayerWinner(d) = IF d.winner = NoAgent THEN d
        ELSE [d EXCEPT !.win = @ \cup W, !.nWinners = Cardinality(W),
                       !.betWinners = StakeOf(W), !.fee = fee, !.pool = Total(d) - fee]
  BY DEF DeterminePlayerWinner
<1> HIDE DEF W, fee
<1>6. CASE d.winner = NoAgent
  BY <1>5, <1>6
<1>7. CASE d.winner # NoAgent
  <2>1. PICK win \in SUBSET Bets, n \in 0..NumBets, stakes \in Nat, fees \in Nat, pool \in Nat :
          DeterminePlayerWinner(d) = [d EXCEPT !.win = win, !.nWinners = n, !.betWinners = stakes,
                                               !.fee = fees, !.pool = pool]
    BY <1>1, <1>2, <1>3, <1>4, <1>5, <1>7
  <2> QED BY <2>1, ZenonT(40) DEF DocType
<1> QED BY <1>6, <1>7

\* What is recorded as sent stays in the types.
LEMMA RecordType ==
  ASSUME NEW d \in DocType, NEW item \in Items PROVE Record(d, item) \in DocType
<1>1. CASE item[1] = "collect" /\ item[2] \in Agents
  BY <1>1 DEF Record, DocType
<1>2. CASE item = <<"fee", 0>>
  BY <1>2 DEF Record, DocType
<1>3. CASE item[1] = "prize" /\ item[2] \in Bets
  BY <1>3 DEF Record, DocType
<1>4. CASE item[1] = "refund" /\ item[2] \in Bets
  BY <1>4 DEF Record, DocType
<1>5. CASE item[1] = "late" /\ item[2] \in Bets
  BY <1>5 DEF Record, DocType
<1> QED BY ItemKinds, <1>1, <1>2, <1>3, <1>4, <1>5

-----------------------------------------------------------------------------
(* Processes.                                                               *)

\* Where processes begin and end.
LEMMA IdleType == Idle \in LocType
BY NewGameType DEF Idle, LocType, PCs, Modes

LEMMA RestType == ASSUME NEW p \in Procs PROVE Rest(p) \in LocType
BY IdleType DEF Rest, LocType, PCs

\* The names of the steps.
LEMMA SavingIs ==
  /\ Saving = {"saveOnly", "defer", "saveEndTime", "saveCollect", "saveDetermined", "saveFee",
               "savePrize", "saveRefund", "saveScan", "saveLate"}
  /\ \A pc \in Saving : AfterSave[pc] \in {"rest"} \cup (PCs \ Saving)
BY DEF Saving, AfterSave, PCs

\* After an error or a panic.
LEMMA FailedType ==
  ASSUME loc \in [Procs -> LocType], NEW p \in Procs
  PROVE  Failed(p) \in LocType /\ Panicked(p) \in LocType
<1>1. loc[p] \in LocType /\ "defer" \in PCs
  BY DEF PCs, AfterSave
<1>2. [loc[p] EXCEPT !.pc = "defer"] \in LocType /\ [loc[p] EXCEPT !.pc = "defer", !.ok = FALSE] \in LocType
  BY <1>1 DEF LocType
<1> QED BY <1>2, IdleType, RestType DEF Failed, Panicked

\* A process that reads the document.
LEMMA ReadingType ==
  ASSUME game \in DocType, NEW mode \in Modes, NEW pc \in PCs
  PROVE  Reading(mode, pc) \in LocType
BY IdleType DEF Reading, LocType

\* Counting transfers.
LEMMA BumpType ==
  ASSUME NEW f \in [Items -> Nat], NEW S
  PROVE  Bump(f, S) \in [Items -> Nat]
BY DEF Bump

\* Faults are bounded.
LEMMA FaultCounts == ASSUME faults \in 0..MaxFaults, Fault PROVE faults' \in 0..MaxFaults
BY Constants DEF Fault

\* Steps of one process that leave the document alone.
LEMMA ProcessType ==
  ASSUME DocsTyped, NEW p \in Procs, NEW r \in LocType, Goto(p, r), UNCHANGED game
  PROVE  DocsTyped'
BY DEF DocsTyped, Goto

\* Steps of a process that change nothing else.
LEMMA LocalType ==
  ASSUME TypeInv, NEW p \in Procs, NEW pc \in PCs, NEW d \in DocType, Local(p, pc, d)
  PROVE  TypeInv'
<1>1. loc[p] \in LocType
  BY DEF TypeInv, DocsTyped
<1>2. [loc[p] EXCEPT !.pc = pc, !.doc = d] \in LocType
  BY <1>1 DEF LocType
<1>3. DocsTyped'
  BY <1>2, ProcessType DEF Local, TypeInv
<1>4. WorldTyped'
  BY DEF TypeInv, WorldTyped, Local, chain, clocks, history
<1> QED BY <1>3, <1>4 DEF TypeInv

\* Transfers.
LEMMA TransferType ==
  ASSUME TypeInv, NEW p \in Procs, NEW item \in Items, NEW next \in PCs, Transfer(p, item, next)
  PROVE  TypeInv'
<1> DEFINE d == loc[p].doc
           amt == Amount(d, item)
           w == Wallet(item)
<1>1. loc[p] \in LocType /\ d \in DocType /\ loc[p].unsaved \subseteq Items
  BY DEF TypeInv, DocsTyped, LocType
<1>2. amt \in Nat /\ w \in Agents \cup {NoAgent} /\ Record(d, item) \in DocType
  BY <1>1, AmountIsNat, WalletIs, RecordType
<1>3. /\ agentBal \in [Agents -> Nat] /\ gameBal \in Nat /\ faults \in 0..MaxFaults
      /\ paid \in [Items -> Nat] /\ lost \in [Items -> Nat]
  BY DEF TypeInv, WorldTyped
<1> HIDE DEF d, amt, w
<1>4. UNCHANGED <<game, lock, head, clocks, ends>>
  BY DEF Transfer
<1>5. ASSUME NEW r \in LocType, Goto(p, r), agentBal' \in [Agents -> Nat], gameBal' \in Nat,
             faults' \in 0..MaxFaults, paid' \in [Items -> Nat], lost' \in [Items -> Nat]
      PROVE  TypeInv'
  <2>1. DocsTyped'
    BY <1>4, <1>5, ProcessType DEF TypeInv
  <2>2. WorldTyped'
    BY <1>4, <1>5 DEF TypeInv, WorldTyped, clocks
  <2> QED BY <2>1, <2>2 DEF TypeInv
<1>6. ASSUME /\ amt # 0 /\ amt <= Funds(w)
             /\ agentBal' = IF w = NoAgent THEN agentBal
                            ELSE [agentBal EXCEPT ![w] = @ - amt]
             /\ gameBal' = IF item[1] = "collect" THEN gameBal + amt
                           ELSE IF w = NoAgent THEN gameBal - amt ELSE gameBal
             /\ paid' = Bump(paid, {item})
      PROVE  agentBal' \in [Agents -> Nat] /\ gameBal' \in Nat /\ paid' \in [Items -> Nat]
  <2>1. paid' \in [Items -> Nat]
    BY <1>3, <1>6, BumpType
  <2>2. CASE w = NoAgent
    BY <1>2, <1>3, <1>6, <2>1, <2>2 DEF Funds
  <2>3. CASE w # NoAgent
    <3>1. w \in Agents /\ agentBal[w] \in Nat /\ amt <= agentBal[w]
      BY <1>2, <1>3, <1>6, <2>3 DEF Funds
    <3>2. agentBal[w] - amt \in Nat
      BY <1>2, <3>1
    <3>3. agentBal' = [agentBal EXCEPT ![w] = @ - amt]
      BY <1>6, <2>3
    <3>4. agentBal' \in [Agents -> Nat]
      BY <1>3, <3>1, <3>2, <3>3
    <3>5. gameBal' = gameBal + amt \/ gameBal' = gameBal
      BY <1>6, <2>3
    <3> QED BY <1>2, <1>3, <2>1, <3>4, <3>5
  <2> QED BY <2>2, <2>3
<1>7. CASE Goto(p, Failed(p)) \/ Goto(p, Panicked(p))
  <2>1. Failed(p) \in LocType /\ Panicked(p) \in LocType
    BY FailedType DEF TypeInv, DocsTyped
  <2>2. /\ agentBal' \in [Agents -> Nat] /\ gameBal' \in Nat
        /\ faults' \in 0..MaxFaults /\ paid' \in [Items -> Nat] /\ lost' \in [Items -> Nat]
    BY <1>3, <1>6, BumpType, FaultCounts DEF Transfer, d, amt, w
  <2> QED BY <1>5, <1>7, <2>1, <2>2
<1>8. CASE Goto(p, [loc[p] EXCEPT !.pc = next, !.doc = Record(d, item), !.unsaved = @ \cup {item}])
  <2> DEFINE r == [loc[p] EXCEPT !.pc = next, !.doc = Record(d, item), !.unsaved = @ \cup {item}]
  <2>1. r \in LocType
    BY <1>1, <1>2 DEF LocType
  <2>2. /\ agentBal' \in [Agents -> Nat] /\ gameBal' \in Nat
        /\ faults' \in 0..MaxFaults /\ paid' \in [Items -> Nat] /\ lost' \in [Items -> Nat]
    BY <1>3, <1>6, BumpType, FaultCounts DEF Transfer, d, amt, w
  <2> QED BY <1>5, <1>8, <2>1, <2>2
<1> QED BY <1>7, <1>8 DEF Transfer, d

\* Writing the copy back.
LEMMA UpdateType == ASSUME TypeInv, NEW p \in Procs, UpdateGame(p) PROVE TypeInv'
<1>1. /\ game \in DocType /\ loc \in [Procs -> LocType] /\ loc[p] \in LocType
      /\ loc[p].doc \in DocType /\ loc[p].pc \in Saving
  BY DEF TypeInv, DocsTyped, LocType, UpdateGame, Saving
<1>2. Outgoing(p) \in DocType
  BY <1>1 DEF Outgoing, DocType, Statuses
<1>3. \A q \in Procs : [loc[q] EXCEPT !.fresh = FALSE] \in LocType
  BY <1>1 DEF LocType
<1>4. [Failed(p) EXCEPT !.fresh = FALSE, !.unsaved = {}] \in LocType
  <2>1. Failed(p) \in LocType
    BY <1>1, FailedType
  <2> QED BY <2>1 DEF LocType
<1>5. ASSUME Written(p) PROVE loc' \in [Procs -> LocType]
  <2> DEFINE go == AfterSave[loc[p].pc]
             r == IF go = "rest" THEN Rest(p) ELSE [loc[p] EXCEPT !.pc = go, !.unsaved = {}]
  <2>1. r \in LocType
    <3>1. go = "rest" \/ go \in PCs
      BY <1>1, SavingIs
    <3>2. go \in PCs => [loc[p] EXCEPT !.pc = go, !.unsaved = {}] \in LocType
      BY <1>1 DEF LocType
    <3> QED BY <3>1, <3>2, RestType
  <2>2. loc' = [q \in Procs |-> IF q = p THEN r ELSE [loc[q] EXCEPT !.fresh = FALSE]]
    BY <1>5 DEF Written
  <2> HIDE DEF r
  <2> QED BY <1>3, <2>1, <2>2
<1>6. ASSUME NotWritten(p) PROVE loc' \in [Procs -> LocType]
  BY <1>1, <1>4, <1>6 DEF NotWritten, Goto
<1>7. ASSUME LET r == Failed(p)
             IN loc' = [q \in Procs |->
                          IF q = p THEN [r EXCEPT !.fresh = FALSE, !.unsaved = {}]
                          ELSE [loc[q] EXCEPT !.fresh = FALSE]]
      PROVE  loc' \in [Procs -> LocType]
  BY <1>3, <1>4, <1>7
<1>8. DocsTyped'
  BY <1>1, <1>2, <1>5, <1>6, <1>7 DEF UpdateGame, DocsTyped
<1>9. faults' \in 0..MaxFaults
  <2>1. faults' = faults \/ Fault
    BY DEF UpdateGame
  <2> QED BY <2>1, FaultCounts DEF TypeInv, WorldTyped
<1>10. lost' \in [Items -> Nat]
  <2>1. lost' = lost \/ lost' = Bump(lost, loc[p].unsaved)
    BY DEF UpdateGame
  <2> QED BY <2>1, BumpType DEF TypeInv, WorldTyped
<1>11. WorldTyped'
  BY <1>9, <1>10 DEF UpdateGame, TypeInv, WorldTyped, chain, clocks
<1> QED BY <1>8, <1>11 DEF TypeInv

\* The flows that change the copy, or make a transfer.
LEMMA FlowType ==
  ASSUME TypeInv, NEW p \in Procs,
         \/ CheckGameBalance(p) \/ MarkEndGame(p) \/ MarkCompletedGame(p)
         \/ Settle(p) \/ PrizeToWinners(p) \/ RefundToPlayers(p)
         \/ CheckExpiredPlayers(p) \/ RefundToExpiredPlayers(p)
  PROVE  TypeInv'
<1> DEFINE d == loc[p].doc
<1>1. loc[p] \in LocType /\ d \in DocType /\ head \in 0..NumBlocks
  BY DEF TypeInv, DocsTyped, WorldTyped, LocType
<1>2. /\ \A x, K : NewRecords(FilterTransfer(x), K) \in SUBSET Bets
      /\ d.players \in SUBSET Bets /\ d.late \in SUBSET Bets /\ d.win \in SUBSET Bets
      /\ Agents \subseteq Nat /\ Bets \subseteq Nat
  <2>1. \A x, K : NewRecords(FilterTransfer(x), K) \subseteq FilterTransfer(x)
    BY DEF NewRecords, FirstRecords
  <2>2. \A x : FilterTransfer(x) \subseteq Bets
    BY DEF FilterTransfer
  <2>3. d.players \in SUBSET Bets /\ d.late \in SUBSET Bets /\ d.win \in SUBSET Bets
    BY <1>1 DEF DocType
  <2>4. Agents \subseteq Nat /\ Bets \subseteq Nat
    BY Constants DEF Bets
  <2> QED BY <2>1, <2>2, <2>3, <2>4
<1>3. {"saveOnly", "saveCollect", "scanLate", "saveDetermined", "refund", "prize", "saveFee",
       "savePrize", "saveRefund", "saveScan", "defer", "saveLate"} \subseteq PCs
  BY DEF PCs, AfterSave
<1> HIDE DEF d
<1>4. CASE CheckGameBalance(p)
  <2> DEFINE P == d.players \cup NewRecords(FilterTransfer(d), d.players)
             A == [a \in Agents |-> StakeOf({i \in P : BetOn[i] = a})]
             e == [d EXCEPT !.players = P, !.block = head, !.amount = A]
  <2>1. P \in SUBSET Bets
    BY <1>2
  <2>2. A \in [Agents -> Nat]
    <3>1. \A a \in Agents : {i \in P : BetOn[i] = a} \in SUBSET Bets
      BY <2>1
    <3> QED BY <3>1, StakesAreNat
  <2>3. Local(p, "saveOnly", e)
    BY <1>4 DEF CheckGameBalance, d
  <2> HIDE DEF P, A
  <2>4. e \in DocType
    BY <1>1, <2>1, <2>2 DEF DocType
  <2> QED BY <1>3, <2>3, <2>4, LocalType
<1>5. CASE MarkEndGame(p)
  <2>1. CASE Local(p, "saveOnly", [d EXCEPT !.status = "Ended"])
    <3>1. [d EXCEPT !.status = "Ended"] \in DocType
      BY <1>1 DEF DocType, Statuses
    <3> QED BY <1>3, <2>1, <3>1, LocalType
  <2>2. CASE Uncollected(d) # {} /\ Transfer(p, <<"collect", Min(Uncollected(d))>>, "saveCollect")
    <3>1. Uncollected(d) \in SUBSET Nat /\ Uncollected(d) \subseteq Agents
      BY <1>2 DEF Uncollected
    <3>2. Min(Uncollected(d)) \in Agents
      BY <2>2, <3>1, LeastIs
    <3>3. <<"collect", Min(Uncollected(d))>> \in Items
      BY <3>2 DEF Items
    <3> QED BY <1>3, <2>2, <3>3, TransferType
  <2> QED BY <1>5, <2>1, <2>2 DEF MarkEndGame, d
<1>6. CASE MarkCompletedGame(p)
  <2>1. DeterminePlayerWinner(d) \in DocType
    BY <1>1, DetermineType
  <2> QED BY <1>1, <1>3, <1>6, <2>1, LocalType DEF MarkCompletedGame, d
<1>7. CASE Settle(p)
  <2>1. CASE Local(p, "refund", d) \/ Local(p, "scanLate", d) \/ Local(p, "prize", d)
    BY <1>1, <1>3, <2>1, LocalType
  <2>2. CASE Transfer(p, <<"fee", 0>>, "saveFee")
    <3>1. <<"fee", 0>> \in Items
      BY DEF Items
    <3> QED BY <1>3, <2>2, <3>1, TransferType
  <2>3. CASE Goto(p, Panicked(p)) /\ UNCHANGED <<game, lock, chain, clocks, ends, faults, history>>
    <3>1. Panicked(p) \in LocType
      BY FailedType DEF TypeInv, DocsTyped
    <3>2. DocsTyped'
      BY <2>3, <3>1, ProcessType DEF TypeInv
    <3> QED BY <2>3, <3>2 DEF TypeInv, WorldTyped, chain, clocks, history
  <2> QED BY <1>7, <2>1, <2>2, <2>3 DEF Settle, d
<1>8. CASE PrizeToWinners(p)
  <2>1. CASE Local(p, "scanLate", d)
    BY <1>1, <1>3, <2>1, LocalType
  <2>2. CASE UnpaidWinners(d) # {} /\ Transfer(p, <<"prize", Min(UnpaidWinners(d))>>, "savePrize")
    <3>1. UnpaidWinners(d) \in SUBSET Nat /\ UnpaidWinners(d) \subseteq Bets
      BY <1>2 DEF UnpaidWinners
    <3>2. Min(UnpaidWinners(d)) \in Bets
      BY <2>2, <3>1, LeastIs
    <3>3. <<"prize", Min(UnpaidWinners(d))>> \in Items
      BY <3>2 DEF Items
    <3> QED BY <1>3, <2>2, <3>3, TransferType
  <2> QED BY <1>8, <2>1, <2>2 DEF PrizeToWinners, d
<1>9. CASE RefundToPlayers(p)
  <2>1. CASE Local(p, "scanLate", d)
    BY <1>1, <1>3, <2>1, LocalType
  <2>2. ASSUME NEW i \in FirstOf(d.players) \ d.refunded, Transfer(p, <<"refund", i>>, "saveRefund")
        PROVE  TypeInv'
    <3>1. <<"refund", i>> \in Items
      BY <1>2 DEF FirstOf, Items
    <3> QED BY <1>3, <2>2, <3>1, TransferType
  <2> QED BY <1>9, <2>1, <2>2 DEF RefundToPlayers, d
<1>10. CASE CheckExpiredPlayers(p)
  <2> DEFINE e == [d EXCEPT !.late = @ \cup NewRecords(FilterTransfer(d), d.players \cup @)]
  <2>1. e \in DocType
    BY <1>1, <1>2 DEF DocType
  <2>2. Local(p, "saveScan", e)
    BY <1>10 DEF CheckExpiredPlayers, d
  <2> QED BY <1>3, <2>1, <2>2, LocalType
<1>11. CASE RefundToExpiredPlayers(p)
  <2>1. CASE Local(p, "defer", d)
    BY <1>1, <1>3, <2>1, LocalType
  <2>2. ASSUME NEW i \in FirstOf(d.late) \ d.lateRefunded, Transfer(p, <<"late", i>>, "saveLate")
        PROVE  TypeInv'
    <3>1. <<"late", i>> \in Items
      BY <1>2 DEF FirstOf, Items
    <3> QED BY <1>3, <2>2, <3>1, TransferType
  <2>3. CASE Goto(p, Idle) /\ UNCHANGED <<game, lock, chain, clocks, ends, faults, history>>
    <3>1. DocsTyped'
      BY <2>3, IdleType, ProcessType DEF TypeInv
    <3> QED BY <2>3, <3>1 DEF TypeInv, WorldTyped, chain, clocks, history
  <2> QED BY <1>11, <2>1, <2>2, <2>3 DEF RefundToExpiredPlayers, d
<1> QED BY <1>4, <1>5, <1>6, <1>7, <1>8, <1>9, <1>10, <1>11

\* Players, the clock and the lock.
LEMMA WorldType ==
  ASSUME TypeInv, PlaceBets \/ ClockTick \/ LockExpires PROVE TypeInv'
<1>1. DocsTyped'
  BY DEF TypeInv, DocsTyped, PlaceBets, ClockTick, LockExpires
<1>2. CASE PlaceBets
  <2>1. head + 1 \in 0..NumBlocks
    BY <1>2, Constants DEF PlaceBets, TypeInv, WorldTyped
  <2>2. \A a \in Agents : StakeOf({i \in Bets : BlockOf[i] = head + 1 /\ BetOn[i] = a}) \in Nat
    BY StakesAreNat
  <2>3. agentBal' \in [Agents -> Nat]
    BY <1>2, <2>2 DEF PlaceBets, TypeInv, WorldTyped
  <2> QED BY <1>1, <1>2, <2>1, <2>3 DEF PlaceBets, TypeInv, WorldTyped, clocks, history
<1>3. CASE ClockTick
  <2>1. game.result \in 0..MaxResults
    BY DEF TypeInv, DocsTyped, DocType
  <2> QED BY <1>1, <1>3, <2>1 DEF ClockTick, TypeInv, WorldTyped, chain, history
<1>4. CASE LockExpires
  <2>1. lock' \in [running : BOOLEAN, recent : BOOLEAN, holder : Procs]
    BY <1>4 DEF LockExpires, TypeInv, WorldTyped
  <2> QED BY <1>1, <1>4, <2>1 DEF LockExpires, TypeInv, WorldTyped, chain, clocks, history
<1> QED BY <1>2, <1>3, <1>4

\* The watch loop.
LEMMA WatchType == ASSUME TypeInv, NEW w \in Watchers, Watch(w) PROVE TypeInv'
<1>1. /\ w \in Procs /\ loc[w] \in LocType /\ game \in DocType
      /\ lock \in [running : BOOLEAN, recent : BOOLEAN, holder : Procs]
  BY Constants DEF TypeInv, DocsTyped, WorldTyped, Procs
<1>2. {"pass", "determine", "collect", "balance"} \subseteq PCs /\ {"watch", "complete"} \subseteq Modes
  BY DEF PCs, Modes
<1>3. ASSUME NEW r \in LocType, Goto(w, r), lock' \in [running : BOOLEAN, recent : BOOLEAN, holder : Procs],
             UNCHANGED <<game, chain, clocks, ends, faults, history>>
      PROVE  TypeInv'
  <2>1. DocsTyped'
    BY <1>1, <1>3, ProcessType DEF TypeInv
  <2> QED BY <1>3, <2>1 DEF TypeInv, WorldTyped, chain, clocks, history
<1>4. CASE StartPass(w)
  <2>1. Reading("watch", "pass") \in LocType
    BY <1>1, <1>2, ReadingType
  <2>2. lock' \in [running : BOOLEAN, recent : BOOLEAN, holder : Procs]
    BY <1>1, <1>4 DEF StartPass
  <2> QED BY <1>3, <1>4, <2>1, <2>2 DEF StartPass
<1>5. CASE Dispatch(w)
  <2>1. /\ [loc[w] EXCEPT !.pc = "determine", !.mode = "complete"] \in LocType
        /\ [loc[w] EXCEPT !.pc = "collect"] \in LocType
        /\ [loc[w] EXCEPT !.pc = "balance"] \in LocType
        /\ Rest(w) \in LocType
    BY <1>1, <1>2, RestType DEF LocType
  <2>2. \E r \in LocType : Goto(w, r)
    BY <1>5, <2>1 DEF Dispatch
  <2>3. UNCHANGED <<game, lock, chain, clocks, ends, faults, history>>
    BY <1>5 DEF Dispatch
  <2> QED BY <1>1, <1>3, <2>2, <2>3
<1>6. CASE EndPass(w)
  <2>1. lock' \in [running : BOOLEAN, recent : BOOLEAN, holder : Procs]
    BY <1>1, <1>6 DEF EndPass
  <2> QED BY <1>3, <1>6, <2>1, IdleType DEF EndPass
<1> QED BY <1>4, <1>5, <1>6 DEF Watch

\* The handlers.
LEMMA HandlerType ==
  ASSUME TypeInv, GameResult \/ EndGame \/ RefundsExpiredPlayers PROVE TypeInv'
<1>1. /\ Handler \in Procs /\ game \in DocType
      /\ {"saveOnly", "saveEndTime", "scanLate"} \subseteq PCs /\ {"api", "refund"} \subseteq Modes
  BY Constants DEF TypeInv, DocsTyped, PCs, AfterSave, Modes
<1>2. ASSUME NEW r \in LocType, Goto(Handler, r), ends' \in 0..MaxEnds,
             UNCHANGED <<game, lock, chain, clocks, faults, history>>
      PROVE  TypeInv'
  <2>1. DocsTyped'
    BY <1>1, <1>2, ProcessType DEF TypeInv
  <2> QED BY <1>2, <2>1 DEF TypeInv, WorldTyped, chain, clocks, history
<1>3. ends \in 0..MaxEnds /\ MaxEnds \in Nat /\ game.result \in 0..MaxResults /\ MaxResults \in Nat
  BY <1>1, Constants DEF TypeInv, WorldTyped, DocType
<1>4. CASE GameResult
  <2> DEFINE r == Reading("api", "saveOnly")
  <2>1. r \in LocType /\ r.doc = game
    BY <1>1, ReadingType DEF Reading, Idle
  <2> HIDE DEF r
  <2>2. PICK w \in Agents \cup {NoAgent} :
          Goto(Handler, [r EXCEPT !.doc.winner = w, !.doc.status = "ResultUpdated",
                                  !.doc.result = @ + 1])
    BY <1>4 DEF GameResult, r
  <2>3. game.result + 1 \in 0..MaxResults
    <3>1. game.result < MaxResults
      BY <1>4, Zenon DEF GameResult
    <3> QED BY <1>3, <3>1
  <2>4. [game EXCEPT !.winner = w, !.status = "ResultUpdated", !.result = @ + 1] \in DocType
    BY <1>1, <2>3 DEF DocType, Statuses
  <2>5. [r EXCEPT !.doc.winner = w, !.doc.status = "ResultUpdated", !.doc.result = @ + 1]
          = [r EXCEPT !.doc = [game EXCEPT !.winner = w, !.status = "ResultUpdated", !.result = @ + 1]]
    BY <1>1, <2>1 DEF LocType, DocType
  <2>6. [r EXCEPT !.doc.winner = w, !.doc.status = "ResultUpdated", !.doc.result = @ + 1] \in LocType
    BY <2>1, <2>4, <2>5 DEF LocType
  <2> QED BY <1>2, <1>3, <1>4, <2>2, <2>6 DEF GameResult
<1>5. CASE EndGame
  <2> DEFINE r == Reading("api", "saveEndTime")
  <2>1. r \in LocType /\ r.doc = game
    BY <1>1, ReadingType DEF Reading, Idle
  <2> HIDE DEF r
  <2>2. Goto(Handler, [r EXCEPT !.doc.forced = TRUE])
    BY <1>5 DEF EndGame, r
  <2>3. [r EXCEPT !.doc.forced = TRUE] \in LocType
    BY <2>1 DEF LocType, DocType
  <2>4. ends' \in 0..MaxEnds
    BY <1>3, <1>5 DEF EndGame
  <2> QED BY <1>2, <1>5, <2>2, <2>3, <2>4 DEF EndGame
<1>6. CASE RefundsExpiredPlayers
  <2>1. Reading("refund", "scanLate") \in LocType
    BY <1>1, ReadingType
  <2> QED BY <1>2, <1>3, <1>6, <2>1 DEF RefundsExpiredPlayers
<1> QED BY <1>4, <1>5, <1>6

\* Failing calls and crashes.
LEMMA FaultType ==
  ASSUME TypeInv, NEW p \in Procs, CallFails(p) \/ Crash(p) PROVE TypeInv'
<1>1. Idle \in LocType /\ Failed(p) \in LocType /\ loc[p].unsaved \subseteq Items
  BY IdleType, FailedType DEF TypeInv, DocsTyped, LocType
<1>2. DocsTyped'
  BY <1>1, ProcessType DEF CallFails, Crash, TypeInv
<1>3. faults' \in 0..MaxFaults
  BY FaultCounts DEF CallFails, Crash, TypeInv, WorldTyped
<1>4. lost' \in [Items -> Nat]
  BY BumpType DEF CallFails, Crash, TypeInv, WorldTyped, history
<1> QED BY <1>2, <1>3, <1>4 DEF CallFails, Crash, TypeInv, WorldTyped, chain, clocks, history

\* At the start.
LEMMA InitType == Init => TypeInv
<1> SUFFICES ASSUME Init PROVE TypeInv
  OBVIOUS
<1>1. DocsTyped
  BY IdleType, NewGameType DEF Init, DocsTyped
<1>2. WorldTyped
  <2>1. lock \in [running : BOOLEAN, recent : BOOLEAN, holder : Procs]
    BY Constants DEF Init
  <2>2. /\ agentBal \in [Agents -> Nat] /\ gameBal \in Nat
        /\ paid \in [Items -> Nat] /\ lost \in [Items -> Nat]
    BY DEF Init
  <2>3. /\ head \in 0..NumBlocks /\ aged \in 0..MaxResults
        /\ ends \in 0..MaxEnds /\ faults \in 0..MaxFaults
        /\ betOpen \in BOOLEAN /\ timeUp \in BOOLEAN
    <3>1. head = 0 /\ aged = 0 /\ ends = 0 /\ faults = 0 /\ betOpen = TRUE /\ timeUp = FALSE
      BY DEF Init
    <3>2. NumBlocks \in Nat /\ MaxResults \in Nat /\ MaxEnds \in Nat /\ MaxFaults \in Nat
      BY Constants
    <3>3. 0 \in 0..NumBlocks /\ 0 \in 0..MaxResults /\ 0 \in 0..MaxEnds /\ 0 \in 0..MaxFaults
      BY <3>2
    <3> QED BY <3>1, <3>3, Zenon
  <2> QED BY <2>1, <2>2, <2>3 DEF WorldTyped
<1> QED BY <1>1, <1>2 DEF TypeInv

\* Every step keeps the types.
LEMMA NextType == ASSUME TypeInv, [Next]_vars PROVE TypeInv'
<1>1. CASE UNCHANGED vars
  BY <1>1 DEF vars, TypeInv, DocsTyped, WorldTyped
<1>2. ASSUME NEW p \in Procs, Step(p) PROVE TypeInv'
  BY <1>2, UpdateType, FlowType DEF Step
<1> QED BY <1>1, <1>2, WorldType, WatchType, HandlerType, FaultType DEF Next

\* The document, every copy, the wallets and the counters have their types: no wallet is
\* overdrawn, and the fee is never more than the bets it is taken from (DeterminePlayerWinner).
THEOREM TypeCorrect == Spec => []TypeOK
BY InitType, NextType, TypeImplies, PTL DEF Spec

-----------------------------------------------------------------------------
(* Records of transfers.                                                    *)

\* A transfer not yet saved is on the way to be; and a copy that can still be written
\* records what the document records, and what the process has sent since.
Traced(p) ==
  /\ loc[p].pc \notin Saving => loc[p].unsaved = {}
  /\ loc[p].fresh =>
       /\ Recorded(loc[p].doc) = Recorded(game) \cup loc[p].unsaved
       /\ Recorded(game) \cap loc[p].unsaved = {}

RecordInv == TypeInv /\ (\A p \in Procs : Traced(p)) /\ PaymentsAccounted

\* The records are five of the fields.
LEMMA RecordedSame ==
  ASSUME NEW d, NEW e, d.moved = e.moved, d.feePaid = e.feePaid, d.prizePaid = e.prizePaid,
         d.refunded = e.refunded, d.lateRefunded = e.lateRefunded
  PROVE  Recorded(d) = Recorded(e)
BY DEF Recorded

\* One more of a kind.
LEMMA ProductAdds ==
  ASSUME NEW c, NEW S, NEW x
  PROVE  {c} \X (S \cup {x}) = ({c} \X S) \cup {<<c, x>>}
OBVIOUS

\* The records by kind of transfer.
FeeRecord(done) == IF done THEN {<<"fee", 0>>} ELSE {}
Kinds(C, F, P, R, L) == C \cup F \cup P \cup R \cup L

LEMMA RecordedKinds ==
  ASSUME NEW d
  PROVE  Recorded(d) = Kinds({"collect"} \X d.moved, FeeRecord(d.feePaid),
           {"prize"} \X d.prizePaid, {"refund"} \X d.refunded, {"late"} \X d.lateRefunded)
BY DEF Recorded, FeeRecord, Kinds

\* To record a transfer is to add it to the records.
LEMMA RecordAdds ==
  ASSUME NEW d \in DocType, NEW item \in Items
  PROVE  Recorded(Record(d, item)) = Recorded(d) \cup {item}
<1> DEFINE e == Record(d, item)
           C(x) == {"collect"} \X x.moved
           F(x) == FeeRecord(x.feePaid)
           P(x) == {"prize"} \X x.prizePaid
           R(x) == {"refund"} \X x.refunded
           L(x) == {"late"} \X x.lateRefunded
<1>0. /\ Recorded(e) = Kinds(C(e), F(e), P(e), R(e), L(e))
      /\ Recorded(d) = Kinds(C(d), F(d), P(d), R(d), L(d))
  BY RecordedKinds
<1>1. CASE item[1] = "collect" /\ item[2] \in Agents
  <2>1. /\ e.moved = d.moved \cup {item[2]}
        /\ e.feePaid = d.feePaid /\ e.prizePaid = d.prizePaid /\ e.refunded = d.refunded /\ e.lateRefunded = d.lateRefunded
    BY <1>1 DEF Record, DocType
  <2>2. item = <<"collect", item[2]>>
    BY <1>1 DEF Items
  <2> HIDE DEF e
  <2>3. C(e) = C(d) \cup {item}
    BY <2>1, <2>2, ProductAdds
  <2>4. F(e) = F(d) /\ P(e) = P(d) /\ R(e) = R(d) /\ L(e) = L(d)
    BY <2>1
  <2> HIDE DEF C, F, P, R, L
  <2>5. Kinds(C(d) \cup {item}, F(d), P(d), R(d), L(d))
          = Kinds(C(d), F(d), P(d), R(d), L(d)) \cup {item}
    BY DEF Kinds
  <2>6. Recorded(e) = Kinds(C(d) \cup {item}, F(d), P(d), R(d), L(d))
    BY <1>0, <2>3, <2>4, Zenon
  <2> QED BY <1>0, <2>5, <2>6, Zenon DEF e
<1>2. CASE item[1] = "prize" /\ item[2] \in Bets
  <2>1. /\ e.prizePaid = d.prizePaid \cup {item[2]}
        /\ e.moved = d.moved /\ e.feePaid = d.feePaid /\ e.refunded = d.refunded /\ e.lateRefunded = d.lateRefunded
    BY <1>2 DEF Record, DocType
  <2>2. item = <<"prize", item[2]>>
    BY <1>2 DEF Items
  <2> HIDE DEF e
  <2>3. P(e) = P(d) \cup {item}
    BY <2>1, <2>2, ProductAdds
  <2>4. C(e) = C(d) /\ F(e) = F(d) /\ R(e) = R(d) /\ L(e) = L(d)
    BY <2>1
  <2> HIDE DEF C, F, P, R, L
  <2>5. Kinds(C(d), F(d), P(d) \cup {item}, R(d), L(d))
          = Kinds(C(d), F(d), P(d), R(d), L(d)) \cup {item}
    BY DEF Kinds
  <2>6. Recorded(e) = Kinds(C(d), F(d), P(d) \cup {item}, R(d), L(d))
    BY <1>0, <2>3, <2>4, Zenon
  <2> QED BY <1>0, <2>5, <2>6, Zenon DEF e
<1>3. CASE item[1] = "refund" /\ item[2] \in Bets
  <2>1. /\ e.refunded = d.refunded \cup {item[2]}
        /\ e.moved = d.moved /\ e.feePaid = d.feePaid /\ e.prizePaid = d.prizePaid /\ e.lateRefunded = d.lateRefunded
    BY <1>3 DEF Record, DocType
  <2>2. item = <<"refund", item[2]>>
    BY <1>3 DEF Items
  <2> HIDE DEF e
  <2>3. R(e) = R(d) \cup {item}
    BY <2>1, <2>2, ProductAdds
  <2>4. C(e) = C(d) /\ F(e) = F(d) /\ P(e) = P(d) /\ L(e) = L(d)
    BY <2>1
  <2> HIDE DEF C, F, P, R, L
  <2>5. Kinds(C(d), F(d), P(d), R(d) \cup {item}, L(d))
          = Kinds(C(d), F(d), P(d), R(d), L(d)) \cup {item}
    BY DEF Kinds
  <2>6. Recorded(e) = Kinds(C(d), F(d), P(d), R(d) \cup {item}, L(d))
    BY <1>0, <2>3, <2>4, Zenon
  <2> QED BY <1>0, <2>5, <2>6, Zenon DEF e
<1>4. CASE item[1] = "late" /\ item[2] \in Bets
  <2>1. /\ e.lateRefunded = d.lateRefunded \cup {item[2]}
        /\ e.moved = d.moved /\ e.feePaid = d.feePaid /\ e.prizePaid = d.prizePaid /\ e.refunded = d.refunded
    BY <1>4 DEF Record, DocType
  <2>2. item = <<"late", item[2]>>
    BY <1>4 DEF Items
  <2> HIDE DEF e
  <2>3. L(e) = L(d) \cup {item}
    BY <2>1, <2>2, ProductAdds
  <2>4. C(e) = C(d) /\ F(e) = F(d) /\ P(e) = P(d) /\ R(e) = R(d)
    BY <2>1
  <2> HIDE DEF C, F, P, R, L
  <2>5. Kinds(C(d), F(d), P(d), R(d), L(d) \cup {item})
          = Kinds(C(d), F(d), P(d), R(d), L(d)) \cup {item}
    BY DEF Kinds
  <2>6. Recorded(e) = Kinds(C(d), F(d), P(d), R(d), L(d) \cup {item})
    BY <1>0, <2>3, <2>4, Zenon
  <2> QED BY <1>0, <2>5, <2>6, Zenon DEF e
<1>5. CASE item = <<"fee", 0>>
  <2>1. /\ e.feePaid = TRUE /\ d.feePaid \in BOOLEAN
        /\ e.moved = d.moved /\ e.prizePaid = d.prizePaid /\ e.refunded = d.refunded /\ e.lateRefunded = d.lateRefunded
    BY <1>5 DEF Record, DocType
  <2> HIDE DEF e
  <2>2. F(e) = F(d) \cup {item}
    BY <1>5, <2>1 DEF FeeRecord
  <2>3. C(e) = C(d) /\ P(e) = P(d) /\ R(e) = R(d) /\ L(e) = L(d)
    BY <2>1
  <2> HIDE DEF C, F, P, R, L
  <2>4. Kinds(C(d), F(d) \cup {item}, P(d), R(d), L(d))
          = Kinds(C(d), F(d), P(d), R(d), L(d)) \cup {item}
    BY DEF Kinds
  <2>5. Recorded(e) = Kinds(C(d), F(d) \cup {item}, P(d), R(d), L(d))
    BY <1>0, <2>2, <2>3, Zenon
  <2> QED BY <1>0, <2>4, <2>5, Zenon DEF e
<1> QED BY ItemKinds, <1>1, <1>2, <1>3, <1>4, <1>5

\* When a process takes up a transfer or gives it up.
LEMMA Holding ==
  ASSUME NEW item, NEW p \in Procs
  PROVE  /\ InFlight(item) \in SUBSET Procs /\ IsFiniteSet(InFlight(item))
         /\ Cardinality(InFlight(item)) \in Nat
         /\ p \notin InFlight(item) =>
              Cardinality(InFlight(item) \cup {p}) = Cardinality(InFlight(item)) + 1
         /\ p \in InFlight(item) =>
              Cardinality(InFlight(item) \ {p}) = Cardinality(InFlight(item)) - 1
<1>1. InFlight(item) \in SUBSET Procs
  BY DEF InFlight
<1>2. IsFiniteSet(InFlight(item)) /\ Cardinality(InFlight(item)) \in Nat
  BY <1>1, Constants, FS_Subset, FS_CardinalityType
<1> QED BY <1>1, <1>2, FS_AddElement, FS_RemoveElement

\* A step of a process that neither sends nor saves: its copy may only be written if it
\* records what the document does.
LEMMA QuietMove ==
  ASSUME RecordInv, TypeInv', NEW p \in Procs, NEW r \in LocType, Goto(p, r),
         UNCHANGED <<game, paid, lost>>, loc[p].unsaved = {}, r.unsaved = {},
         r.fresh => Recorded(r.doc) = Recorded(game)
  PROVE  RecordInv'
<1>1. loc \in [Procs -> LocType] /\ loc' = [loc EXCEPT ![p] = r]
  BY DEF RecordInv, TypeInv, DocsTyped, Goto
<1>2. \A i : InFlight(i)' = InFlight(i)
  BY <1>1 DEF InFlight
<1>3. PaymentsAccounted'
  BY <1>2 DEF RecordInv, PaymentsAccounted
<1>4. \A q \in Procs : Traced(q)'
  <2> TAKE q \in Procs
  <2>1. CASE q = p
    <3>1. loc'[q] = r
      BY <1>1, <2>1
    <3> QED BY <3>1 DEF Traced
  <2>2. CASE q # p
    <3>1. loc'[q] = loc[q]
      BY <1>1, <2>2
    <3> QED BY <3>1 DEF RecordInv, Traced
  <2> QED BY <2>1, <2>2
<1> QED BY <1>3, <1>4 DEF RecordInv

\* A step that changes the copy in other fields.
LEMMA LocalRecords ==
  ASSUME RecordInv, TypeInv', NEW p \in Procs, NEW pc \in PCs, NEW d \in DocType, Local(p, pc, d),
         loc[p].pc \notin Saving, Recorded(d) = Recorded(loc[p].doc)
  PROVE  RecordInv'
<1> DEFINE r == [loc[p] EXCEPT !.pc = pc, !.doc = d]
<1>1. loc[p] \in LocType /\ loc[p].unsaved = {}
      /\ (loc[p].fresh => Recorded(loc[p].doc) = Recorded(game))
  BY DEF RecordInv, TypeInv, DocsTyped, Traced
<1>2. r \in LocType /\ r.unsaved = {} /\ r.fresh = loc[p].fresh /\ r.doc = d
  BY <1>1 DEF LocType
<1>3. Goto(p, r) /\ UNCHANGED <<game, paid, lost>>
  BY DEF Local, history
<1> HIDE DEF r
<1> QED BY <1>1, <1>2, <1>3, QuietMove

\* An error or a panic before anything is unsaved.
LEMMA FailedIs ==
  ASSUME loc \in [Procs -> LocType], NEW p \in Procs, NEW r \in {Failed(p), Panicked(p)},
         loc[p].unsaved = {}
  PROVE  r \in LocType /\ r.unsaved = {} /\ (r.fresh => loc[p].fresh /\ r.doc = loc[p].doc)
<1>1. loc[p] \in LocType
  OBVIOUS
<1>2. r \in LocType
  BY FailedType
<1>3. \/ r = [loc[p] EXCEPT !.pc = "defer"] \/ r = [loc[p] EXCEPT !.pc = "defer", !.ok = FALSE]
      \/ r = Idle \/ r = [Idle EXCEPT !.pc = "done"]
  BY DEF Failed, Panicked, Rest
<1>4. Idle \in LocType /\ Idle.fresh = FALSE /\ Idle.unsaved = {}
  BY IdleType DEF Idle
<1>5. CASE r = [loc[p] EXCEPT !.pc = "defer"] \/ r = [loc[p] EXCEPT !.pc = "defer", !.ok = FALSE]
  BY <1>1, <1>2, <1>5 DEF LocType
<1>6. CASE r = Idle \/ r = [Idle EXCEPT !.pc = "done"]
  BY <1>2, <1>4, <1>6 DEF LocType
<1> QED BY <1>3, <1>5, <1>6

LEMMA FailedRecords ==
  ASSUME RecordInv, TypeInv', NEW p \in Procs, NEW r \in {Failed(p), Panicked(p)}, Goto(p, r),
         loc[p].unsaved = {}, UNCHANGED <<game, paid, lost>>
  PROVE  RecordInv'
<1>1. r \in LocType /\ r.unsaved = {} /\ (r.fresh => loc[p].fresh /\ r.doc = loc[p].doc)
  BY FailedIs DEF RecordInv, TypeInv, DocsTyped
<1>2. loc[p].fresh => Recorded(loc[p].doc) = Recorded(game)
  BY DEF RecordInv, Traced
<1> QED BY <1>1, <1>2, QuietMove

\* A transfer that no copy records yet.
LEMMA TransferRecords ==
  ASSUME RecordInv, TypeInv', NEW p \in Procs, NEW item \in Items, NEW next \in Saving,
         Transfer(p, item, next), loc[p].pc \notin Saving, item \notin Recorded(loc[p].doc)
  PROVE  RecordInv'
<1> DEFINE d == loc[p].doc
           r == [loc[p] EXCEPT !.pc = next, !.doc = Record(d, item), !.unsaved = @ \cup {item}]
<1>1. /\ loc \in [Procs -> LocType] /\ loc[p] \in LocType /\ d \in DocType
      /\ loc[p].unsaved = {} /\ game' = game
      /\ paid \in [Items -> Nat] /\ lost \in [Items -> Nat]
  BY DEF RecordInv, TypeInv, DocsTyped, WorldTyped, Traced, LocType, Transfer
<1>2. /\ loc[p].fresh => Recorded(d) = Recorded(game)
      /\ \A q \in Procs : Traced(q)
      /\ \A i \in Items : /\ paid[i] \in Nat /\ lost[i] \in Nat /\ Cardinality(InFlight(i)) \in Nat
                          /\ paid[i] = (IF i \in Recorded(game) THEN 1 ELSE 0) + lost[i]
                                         + Cardinality(InFlight(i))
  BY <1>1, Holding DEF RecordInv, Traced, PaymentsAccounted
<1>3. ASSUME paid' = Bump(paid, {item}), lost' = lost, Goto(p, r) PROVE RecordInv'
  <2>1. loc' = [loc EXCEPT ![p] = r] /\ r.unsaved = {item} /\ r.fresh = loc[p].fresh
        /\ r.doc = Record(d, item) /\ r.pc = next
    BY <1>1, <1>3 DEF Goto, LocType
  <2> HIDE DEF r, d
  <2>2. \A i \in Items : InFlight(i)' = IF i = item THEN InFlight(i) \cup {p} ELSE InFlight(i)
    BY <1>1, <2>1 DEF InFlight
  <2>3. p \notin InFlight(item)
    BY <1>1 DEF InFlight
  <2>4. PaymentsAccounted'
    <3> SUFFICES ASSUME NEW i \in Items
                 PROVE  paid'[i] = (IF i \in Recorded(game) THEN 1 ELSE 0) + lost[i]
                                     + Cardinality(InFlight(i)')
      BY <1>1, <1>3 DEF PaymentsAccounted
    <3>1. CASE i = item
      <4>1. paid'[i] = paid[i] + 1
        BY <1>3, <3>1 DEF Bump
      <4>2. Cardinality(InFlight(i)') = Cardinality(InFlight(i)) + 1
        BY <2>2, <2>3, <3>1, Holding
      <4> QED BY <1>2, <4>1, <4>2
    <3>2. CASE i # item
      <4>1. paid'[i] = paid[i] + 0
        BY <1>3, <3>2 DEF Bump
      <4>2. InFlight(i)' = InFlight(i)
        BY <2>2, <3>2
      <4> QED BY <1>2, <4>1, <4>2
    <3> QED BY <3>1, <3>2
  <2>5. Recorded(r.doc) = Recorded(d) \cup {item}
    BY <1>1, <2>1, RecordAdds
  <2>6. Traced(p)'
    BY <1>1, <1>2, <2>1, <2>5 DEF Traced, d
  <2>7. ASSUME NEW q \in Procs, q # p PROVE Traced(q)'
    <3>1. loc'[q] = loc[q]
      BY <1>1, <2>1, <2>7
    <3> QED BY <1>1, <1>2, <3>1 DEF Traced
  <2> QED BY <2>4, <2>6, <2>7 DEF RecordInv
<1>4. ASSUME paid' = Bump(paid, {item}), lost' = Bump(lost, {item}), Goto(p, Failed(p))
      PROVE  RecordInv'
  <2> DEFINE f == Failed(p)
  <2>1. f.unsaved = {} /\ (f.fresh => loc[p].fresh /\ f.doc = loc[p].doc)
    BY <1>1, FailedIs
  <2>2. loc' = [loc EXCEPT ![p] = f]
    BY <1>4 DEF Goto
  <2> HIDE DEF f
  <2>3. \A i \in Items : InFlight(i)' = InFlight(i)
    BY <1>1, <2>1, <2>2 DEF InFlight
  <2>4. PaymentsAccounted'
    <3> SUFFICES ASSUME NEW i \in Items
                 PROVE  paid'[i] = (IF i \in Recorded(game) THEN 1 ELSE 0) + lost'[i]
                                     + Cardinality(InFlight(i))
      BY <1>1, <2>3 DEF PaymentsAccounted
    <3>1. \/ paid'[i] = paid[i] + 1 /\ lost'[i] = lost[i] + 1
          \/ paid'[i] = paid[i] + 0 /\ lost'[i] = lost[i] + 0
      BY <1>4 DEF Bump
    <3> QED BY <1>2, <3>1
  <2>5. Traced(p)'
    BY <1>1, <1>2, <2>1, <2>2 DEF Traced, d
  <2>6. ASSUME NEW q \in Procs, q # p PROVE Traced(q)'
    <3>1. loc'[q] = loc[q]
      BY <1>1, <2>2, <2>6
    <3> QED BY <1>1, <1>2, <3>1 DEF Traced
  <2> QED BY <2>4, <2>5, <2>6 DEF RecordInv
<1>5. CASE /\ Goto(p, Failed(p)) \/ Goto(p, Panicked(p))
           /\ UNCHANGED <<paid, lost>>
  BY <1>1, <1>5, FailedRecords
<1> QED BY <1>3, <1>4, <1>5 DEF Transfer, d, r

\* A process gives its copy up: what it had not saved is lost.
LEMMA DropRecords ==
  ASSUME RecordInv, TypeInv', NEW p \in Procs, NEW r \in LocType, Goto(p, r),
         r.unsaved = {}, r.fresh = FALSE, lost' = Bump(lost, loc[p].unsaved),
         UNCHANGED <<game, paid>>
  PROVE  RecordInv'
<1> DEFINE U == loc[p].unsaved
<1>1. /\ loc \in [Procs -> LocType] /\ loc' = [loc EXCEPT ![p] = r]
      /\ paid \in [Items -> Nat] /\ lost \in [Items -> Nat] /\ U \subseteq Items
  BY DEF RecordInv, TypeInv, DocsTyped, WorldTyped, LocType, Goto
<1>2. /\ \A q \in Procs : Traced(q)
      /\ \A i \in Items : /\ paid[i] \in Nat /\ lost[i] \in Nat /\ Cardinality(InFlight(i)) \in Nat
                          /\ paid[i] = (IF i \in Recorded(game) THEN 1 ELSE 0) + lost[i]
                                         + Cardinality(InFlight(i))
  BY <1>1, Holding DEF RecordInv, PaymentsAccounted
<1>3. \A i \in Items : InFlight(i)' = InFlight(i) \ {p}
  BY <1>1 DEF InFlight
<1>4. PaymentsAccounted'
  <2> SUFFICES ASSUME NEW i \in Items
               PROVE  paid[i] = (IF i \in Recorded(game) THEN 1 ELSE 0) + lost'[i]
                                  + Cardinality(InFlight(i) \ {p})
    BY <1>3 DEF PaymentsAccounted
  <2>1. CASE i \in U
    <3>1. lost'[i] = lost[i] + 1
      BY <2>1 DEF Bump
    <3>2. Cardinality(InFlight(i) \ {p}) = Cardinality(InFlight(i)) - 1
      BY <2>1, Holding DEF InFlight
    <3> QED BY <1>2, <3>1, <3>2
  <2>2. CASE i \notin U
    <3>1. lost'[i] = lost[i] + 0
      BY <2>2 DEF Bump
    <3>2. InFlight(i) \ {p} = InFlight(i)
      BY <2>2 DEF InFlight
    <3>3. lost'[i] = lost[i]
      BY <1>2, <3>1
    <3> QED BY <1>2, <3>2, <3>3, Zenon
  <2> QED BY <2>1, <2>2
<1>5. \A q \in Procs : Traced(q)'
  <2> TAKE q \in Procs
  <2>1. loc'[q] = IF q = p THEN r ELSE loc[q]
    BY <1>1
  <2> QED BY <1>2, <2>1 DEF Traced
<1> QED BY <1>4, <1>5 DEF RecordInv

\* A process writes its copy: its transfers go on record, and no other copy can be
\* written any more.
LEMMA WriteRecords ==
  ASSUME RecordInv, TypeInv', NEW p \in Procs, NEW r \in LocType,
         loc' = [q \in Procs |-> IF q = p THEN r ELSE [loc[q] EXCEPT !.fresh = FALSE]],
         r.unsaved = {}, r.fresh => r.doc = loc[p].doc, loc[p].fresh,
         Recorded(game') = Recorded(loc[p].doc), UNCHANGED <<paid, lost>>
  PROVE  RecordInv' /\ Recorded(game) \subseteq Recorded(game')
<1> DEFINE U == loc[p].unsaved
<1>1. /\ loc \in [Procs -> LocType] /\ U \subseteq Items
      /\ paid \in [Items -> Nat] /\ lost \in [Items -> Nat]
  BY DEF RecordInv, TypeInv, DocsTyped, WorldTyped, LocType
<1>2. /\ \A q \in Procs : Traced(q)
      /\ \A i \in Items : /\ paid[i] \in Nat /\ lost[i] \in Nat /\ Cardinality(InFlight(i)) \in Nat
                          /\ paid[i] = (IF i \in Recorded(game) THEN 1 ELSE 0) + lost[i]
                                         + Cardinality(InFlight(i))
  BY <1>1, Holding DEF RecordInv, PaymentsAccounted
<1>3. Recorded(game') = Recorded(game) \cup U /\ Recorded(game) \cap U = {}
  BY <1>2 DEF Traced
<1>4. ASSUME NEW q \in Procs
      PROVE  /\ q = p => loc'[q] = r
             /\ q # p => loc'[q].fresh = FALSE /\ loc'[q].pc = loc[q].pc /\ loc'[q].unsaved = loc[q].unsaved
  <2>1. loc[q] \in LocType /\ loc'[q] = IF q = p THEN r ELSE [loc[q] EXCEPT !.fresh = FALSE]
    BY <1>1
  <2> QED BY <2>1 DEF LocType
<1>5. \A i \in Items : InFlight(i)' = InFlight(i) \ {p}
  BY <1>4 DEF InFlight
<1>6. PaymentsAccounted'
  <2> SUFFICES ASSUME NEW i \in Items
               PROVE  paid[i] = (IF i \in Recorded(game') THEN 1 ELSE 0) + lost[i]
                                  + Cardinality(InFlight(i) \ {p})
    BY <1>5 DEF PaymentsAccounted
  <2>1. CASE i \in U
    <3>1. i \in Recorded(game') /\ i \notin Recorded(game)
      BY <1>3, <2>1
    <3>2. Cardinality(InFlight(i) \ {p}) = Cardinality(InFlight(i)) - 1
      BY <2>1, Holding DEF InFlight
    <3>3. paid[i] = 0 + lost[i] + Cardinality(InFlight(i))
      BY <1>2, <3>1
    <3>4. paid[i] = 1 + lost[i] + (Cardinality(InFlight(i)) - 1)
      BY <1>2, <3>3
    <3> QED BY <3>1, <3>2, <3>4
  <2>2. CASE i \notin U
    <3>1. i \in Recorded(game') <=> i \in Recorded(game)
      BY <1>3, <2>2
    <3>2. InFlight(i) \ {p} = InFlight(i)
      BY <2>2 DEF InFlight
    <3> QED BY <1>2, <3>1, <3>2
  <2> QED BY <2>1, <2>2
<1>7. \A q \in Procs : Traced(q)'
  <2> TAKE q \in Procs
  <2>1. CASE q = p
    BY <1>4, <2>1 DEF Traced
  <2>2. CASE q # p
    BY <1>2, <1>4, <2>2 DEF Traced
  <2> QED BY <2>1, <2>2
<1> QED BY <1>3, <1>6, <1>7 DEF RecordInv

\* The three outcomes of a write.
LEMMA UpdateRecords ==
  ASSUME RecordInv, TypeInv', NEW p \in Procs, UpdateGame(p)
  PROVE  RecordInv' /\ Recorded(game) \subseteq Recorded(game')
<1>1. loc \in [Procs -> LocType] /\ loc[p] \in LocType /\ loc[p].doc \in DocType /\ loc[p].pc \in Saving
  BY DEF RecordInv, TypeInv, DocsTyped, LocType, UpdateGame, Saving
<1>2. paid' = paid
  BY DEF UpdateGame
<1>3. game' = Outgoing(p) => Recorded(game') = Recorded(loc[p].doc)
  <2>1. Recorded([loc[p].doc EXCEPT !.status = "Completed"]) = Recorded(loc[p].doc)
    BY <1>1, RecordedSame DEF DocType
  <2> QED BY <2>1 DEF Outgoing
<1> DEFINE f == [Failed(p) EXCEPT !.fresh = FALSE, !.unsaved = {}]
<1>4. f \in LocType /\ f.unsaved = {} /\ f.fresh = FALSE
  <2>1. Failed(p) \in LocType
    BY <1>1, FailedType
  <2> QED BY <2>1 DEF LocType
<1>5. CASE DateMatches(p) /\ game' = Outgoing(p) /\ Written(p) /\ UNCHANGED <<faults, lost>>
  <2> DEFINE go == AfterSave[loc[p].pc]
             r == IF go = "rest" THEN Rest(p) ELSE [loc[p] EXCEPT !.pc = go, !.unsaved = {}]
  <2>1. r \in LocType /\ r.unsaved = {} /\ (r.fresh => r.doc = loc[p].doc)
    <3>1. CASE go = "rest"
      <4>1. r = Idle \/ r = [Idle EXCEPT !.pc = "done"]
        BY <3>1 DEF Rest
      <4>2. r.unsaved = {} /\ r.fresh = FALSE
        <5>1. Idle \in LocType /\ Idle.fresh = FALSE /\ Idle.unsaved = {}
          BY IdleType DEF Idle
        <5> HIDE DEF r
        <5> QED BY <4>1, <5>1 DEF LocType
      <4>3. r \in LocType
        BY <3>1, RestType
      <4> QED BY <4>2, <4>3
    <3>2. CASE go # "rest"
      <4>1. go \in PCs
        BY <1>1, <3>2, SavingIs
      <4>2. r = [loc[p] EXCEPT !.pc = go, !.unsaved = {}]
        BY <3>2
      <4> HIDE DEF go, r
      <4> QED BY <1>1, <4>1, <4>2 DEF LocType
    <3> QED BY <3>1, <3>2
  <2>2. loc' = [q \in Procs |-> IF q = p THEN r ELSE [loc[q] EXCEPT !.fresh = FALSE]]
    BY <1>5 DEF Written
  <2> HIDE DEF r
  <2> QED BY <1>2, <1>3, <1>5, <2>1, <2>2, WriteRecords DEF DateMatches
<1>6. CASE NotWritten(p) /\ lost' = Bump(lost, loc[p].unsaved) /\ UNCHANGED game
  <2>1. Goto(p, f)
    BY <1>6 DEF NotWritten
  <2> HIDE DEF f
  <2> QED BY <1>2, <1>4, <1>6, <2>1, DropRecords
<1>7. CASE /\ DateMatches(p) /\ game' = Outgoing(p) /\ UNCHANGED lost
           /\ LET r == Failed(p)
              IN loc' = [q \in Procs |->
                           IF q = p THEN [r EXCEPT !.fresh = FALSE, !.unsaved = {}]
                           ELSE [loc[q] EXCEPT !.fresh = FALSE]]
  <2>1. loc' = [q \in Procs |-> IF q = p THEN f ELSE [loc[q] EXCEPT !.fresh = FALSE]]
    BY <1>7
  <2> HIDE DEF f
  <2> QED BY <1>2, <1>3, <1>4, <1>7, <2>1, WriteRecords DEF DateMatches
<1> QED BY <1>5, <1>6, <1>7 DEF UpdateGame

\* Where no copy that is not being saved holds anything back, and a copy that can be
\* written records what the document does.
LEMMA CopyIs ==
  ASSUME RecordInv, NEW p \in Procs, loc[p].pc \notin Saving
  PROVE  /\ loc[p] \in LocType /\ loc[p].doc \in DocType /\ loc[p].unsaved = {}
         /\ loc[p].fresh => Recorded(loc[p].doc) = Recorded(game)
BY DEF RecordInv, TypeInv, DocsTyped, LocType, Traced

\* The flows.
LEMMA FlowRecords ==
  ASSUME RecordInv, TypeInv', NEW p \in Procs,
         \/ CheckGameBalance(p) \/ MarkEndGame(p) \/ MarkCompletedGame(p)
         \/ Settle(p) \/ PrizeToWinners(p) \/ RefundToPlayers(p)
         \/ CheckExpiredPlayers(p) \/ RefundToExpiredPlayers(p)
  PROVE  RecordInv'
<1> DEFINE d == loc[p].doc
<1>1. loc[p].pc \notin Saving
  BY SavingIs DEF CheckGameBalance, MarkEndGame, MarkCompletedGame, Settle, PrizeToWinners,
                  RefundToPlayers, CheckExpiredPlayers, RefundToExpiredPlayers
<1>2. /\ loc[p] \in LocType /\ d \in DocType /\ loc[p].unsaved = {} /\ head \in 0..NumBlocks
      /\ loc[p].fresh => Recorded(d) = Recorded(game)
  BY <1>1, CopyIs DEF RecordInv, TypeInv, WorldTyped
<1>3. ASSUME NEW pc \in PCs, NEW e \in DocType, Local(p, pc, e), Recorded(e) = Recorded(d)
      PROVE  RecordInv'
  BY <1>1, <1>3, LocalRecords
<1>4. ASSUME NEW item \in Items, NEW next \in Saving, Transfer(p, item, next), item \notin Recorded(d)
      PROVE  RecordInv'
  BY <1>1, <1>4, TransferRecords
<1>5. {"saveOnly", "scanLate", "saveDetermined", "refund", "prize", "saveScan", "defer"} \subseteq PCs
      /\ {"saveCollect", "saveFee", "savePrize", "saveRefund", "saveLate"} \subseteq Saving
  BY DEF PCs, Saving, AfterSave
<1>6. loc'[p].doc \in DocType
  BY DEF TypeInv, DocsTyped, LocType
<1>7. ASSUME NEW pc \in PCs, NEW e, Local(p, pc, e), Recorded(e) = Recorded(d)
      PROVE  RecordInv'
  <2>1. loc'[p].doc = e
    BY <1>2, <1>7 DEF Local, Goto, RecordInv, TypeInv, DocsTyped, LocType
  <2> QED BY <1>3, <1>6, <1>7, <2>1
<1>8. /\ d.win \subseteq Bets /\ d.players \subseteq Bets /\ d.late \subseteq Bets
      /\ Bets \subseteq Nat /\ Agents \subseteq Nat
  BY <1>2, DocSets
<1> HIDE DEF d
<1>9. CASE CheckGameBalance(p)
  <2> DEFINE P == d.players \cup NewRecords(FilterTransfer(d), d.players)
             A == [a \in Agents |-> StakeOf({i \in P : BetOn[i] = a})]
             e == [d EXCEPT !.players = P, !.block = head, !.amount = A]
  <2>1. Local(p, "saveOnly", e)
    BY <1>9 DEF CheckGameBalance, d
  <2> HIDE DEF P, A
  <2>2. Recorded(e) = Recorded(d)
    BY <1>2, RecordedSame DEF DocType
  <2> QED BY <1>5, <1>7, <2>1, <2>2
<1>10. CASE MarkEndGame(p)
  <2>1. CASE Local(p, "saveOnly", [d EXCEPT !.status = "Ended"])
    <3>1. Recorded([d EXCEPT !.status = "Ended"]) = Recorded(d)
      BY <1>2, RecordedSame DEF DocType
    <3> QED BY <1>5, <1>7, <2>1, <3>1
  <2>2. CASE Uncollected(d) # {} /\ Transfer(p, <<"collect", Min(Uncollected(d))>>, "saveCollect")
    <3>1. Uncollected(d) \in SUBSET Nat /\ Uncollected(d) \subseteq Agents
      BY <1>8 DEF Uncollected
    <3>2. Min(Uncollected(d)) \in Agents /\ Min(Uncollected(d)) \notin d.moved
      BY <2>2, <3>1, LeastIs DEF Uncollected
    <3>3. <<"collect", Min(Uncollected(d))>> \in Items /\ <<"collect", Min(Uncollected(d))>> \notin Recorded(d)
      BY <3>2 DEF Items, Recorded
    <3> QED BY <1>4, <1>5, <2>2, <3>3
  <2> QED BY <1>10, <2>1, <2>2 DEF MarkEndGame, d
<1>11. CASE MarkCompletedGame(p)
  <2>1. Recorded(DeterminePlayerWinner(d)) = Recorded(d)
    BY <1>2, RecordedSame DEF DeterminePlayerWinner, DocType
  <2> QED BY <1>5, <1>7, <1>11, <2>1 DEF MarkCompletedGame, d
<1>12. CASE Settle(p)
  <2>1. CASE Local(p, "refund", d) \/ Local(p, "scanLate", d) \/ Local(p, "prize", d)
    BY <1>5, <1>7, <2>1
  <2>2. CASE ~d.feePaid /\ Transfer(p, <<"fee", 0>>, "saveFee")
    <3>1. <<"fee", 0>> \in Items /\ <<"fee", 0>> \notin Recorded(d)
      BY <2>2 DEF Items, Recorded
    <3> QED BY <1>4, <1>5, <2>2, <3>1
  <2>3. CASE Goto(p, Panicked(p)) /\ UNCHANGED <<game, lock, chain, clocks, ends, faults, history>>
    BY <1>2, <2>3, FailedRecords DEF history
  <2> QED BY <1>12, <2>1, <2>2, <2>3 DEF Settle, d
<1>13. CASE PrizeToWinners(p)
  <2>1. CASE Local(p, "scanLate", d)
    BY <1>5, <1>7, <2>1
  <2>2. CASE UnpaidWinners(d) # {} /\ Transfer(p, <<"prize", Min(UnpaidWinners(d))>>, "savePrize")
    <3>1. UnpaidWinners(d) \in SUBSET Nat /\ UnpaidWinners(d) \subseteq Bets
      BY <1>8 DEF UnpaidWinners
    <3>2. Min(UnpaidWinners(d)) \in Bets /\ Min(UnpaidWinners(d)) \notin d.prizePaid
      BY <2>2, <3>1, LeastIs DEF UnpaidWinners
    <3>3. <<"prize", Min(UnpaidWinners(d))>> \in Items /\ <<"prize", Min(UnpaidWinners(d))>> \notin Recorded(d)
      BY <3>2 DEF Items, Recorded
    <3> QED BY <1>4, <1>5, <2>2, <3>3
  <2> QED BY <1>13, <2>1, <2>2 DEF PrizeToWinners, d
<1>14. CASE RefundToPlayers(p)
  <2>1. CASE Local(p, "scanLate", d)
    BY <1>5, <1>7, <2>1
  <2>2. ASSUME NEW i \in FirstOf(d.players) \ d.refunded, Transfer(p, <<"refund", i>>, "saveRefund")
        PROVE  RecordInv'
    <3>1. <<"refund", i>> \in Items /\ <<"refund", i>> \notin Recorded(d)
      BY <1>8 DEF FirstOf, Items, Recorded
    <3> QED BY <1>4, <1>5, <2>2, <3>1
  <2> QED BY <1>14, <2>1, <2>2 DEF RefundToPlayers, d
<1>15. CASE CheckExpiredPlayers(p)
  <2> DEFINE e == [d EXCEPT !.late = @ \cup NewRecords(FilterTransfer(d), d.players \cup @)]
  <2>1. Recorded(e) = Recorded(d)
    BY <1>2, RecordedSame DEF DocType
  <2>2. Local(p, "saveScan", e)
    BY <1>15 DEF CheckExpiredPlayers, d
  <2> QED BY <1>5, <1>7, <2>1, <2>2
<1>16. CASE RefundToExpiredPlayers(p)
  <2>1. CASE Local(p, "defer", d)
    BY <1>5, <1>7, <2>1
  <2>2. ASSUME NEW i \in FirstOf(d.late) \ d.lateRefunded, Transfer(p, <<"late", i>>, "saveLate")
        PROVE  RecordInv'
    <3>1. <<"late", i>> \in Items /\ <<"late", i>> \notin Recorded(d)
      BY <1>8 DEF FirstOf, Items, Recorded
    <3> QED BY <1>4, <1>5, <2>2, <3>1
  <2>3. CASE Goto(p, Idle) /\ UNCHANGED <<game, lock, chain, clocks, ends, faults, history>>
    <3>1. Idle \in LocType /\ Idle.unsaved = {} /\ Idle.fresh = FALSE
      BY IdleType DEF Idle
    <3> QED BY <1>2, <2>3, <3>1, QuietMove DEF history
  <2> QED BY <1>16, <2>1, <2>2, <2>3 DEF RefundToExpiredPlayers, d
<1> QED BY <1>9, <1>10, <1>11, <1>12, <1>13, <1>14, <1>15, <1>16

\* The watch loop and the handlers read the document.
LEMMA ReadRecords ==
  ASSUME RecordInv, TypeInv', NEW p \in Procs, NEW mode \in Modes, NEW pc \in PCs, NEW r,
         Goto(p, r), r.unsaved = {}, Recorded(r.doc) = Recorded(game),
         UNCHANGED <<game, paid, lost>>, loc[p].pc \notin Saving
  PROVE  RecordInv'
<1>1. loc'[p] = r /\ loc'[p] \in LocType
  BY DEF RecordInv, TypeInv, DocsTyped, Goto
<1> QED BY <1>1, CopyIs, QuietMove

LEMMA WatchRecords ==
  ASSUME RecordInv, TypeInv', NEW w \in Watchers, Watch(w)
  PROVE  RecordInv'
<1>1. /\ w \in Procs /\ loc[w].pc \notin Saving /\ loc' \in [Procs -> LocType]
      /\ "pass" \in PCs /\ "watch" \in Modes /\ game \in DocType
  BY SavingIs DEF Procs, Watch, StartPass, Dispatch, EndPass, PCs, Modes, RecordInv, TypeInv, DocsTyped
<1>2. /\ loc[w] \in LocType /\ loc[w].unsaved = {}
      /\ loc[w].fresh => Recorded(loc[w].doc) = Recorded(game)
  BY <1>1, CopyIs
<1>3. Idle \in LocType /\ Idle.unsaved = {} /\ Idle.fresh = FALSE
  BY IdleType DEF Idle
<1>4. CASE StartPass(w)
  <2> DEFINE r == Reading("watch", "pass")
  <2>1. r \in LocType /\ r.unsaved = {} /\ r.doc = game
    BY <1>1, ReadingType DEF Reading, Idle
  <2>2. Goto(w, r) /\ UNCHANGED <<game, paid, lost>>
    BY <1>4 DEF StartPass, history
  <2> HIDE DEF r
  <2> QED BY <1>1, <1>2, <2>1, <2>2, QuietMove
<1>5. CASE Dispatch(w)
  <2>1. UNCHANGED <<game, paid, lost>>
    BY <1>5 DEF Dispatch, history
  <2>2. \E r \in { [loc[w] EXCEPT !.pc = "determine", !.mode = "complete"],
                   [loc[w] EXCEPT !.pc = "collect"], [loc[w] EXCEPT !.pc = "balance"] } \cup {Rest(w)} :
          Goto(w, r)
    BY <1>5 DEF Dispatch
  <2>3. PICK r \in { [loc[w] EXCEPT !.pc = "determine", !.mode = "complete"],
                     [loc[w] EXCEPT !.pc = "collect"], [loc[w] EXCEPT !.pc = "balance"] } \cup {Rest(w)} :
          Goto(w, r)
    BY <2>2
  <2>4. r \in LocType
    BY <1>1, <2>3 DEF Goto, RecordInv, TypeInv, DocsTyped
  <2>5. r.unsaved = {} /\ (r.fresh => Recorded(r.doc) = Recorded(game))
    <3>1. CASE r = Rest(w)
      BY <1>3, <3>1 DEF Rest, LocType
    <3>2. CASE r # Rest(w)
      BY <1>2, <2>3, <3>2 DEF LocType
    <3> QED BY <3>1, <3>2
  <2> QED BY <1>1, <1>2, <2>1, <2>3, <2>4, <2>5, QuietMove
<1>6. CASE EndPass(w)
  BY <1>1, <1>2, <1>3, <1>6, QuietMove DEF EndPass, history
<1> QED BY <1>4, <1>5, <1>6 DEF Watch

LEMMA HandlerRecords ==
  ASSUME RecordInv, TypeInv', GameResult \/ EndGame \/ RefundsExpiredPlayers
  PROVE  RecordInv'
<1>1. /\ Handler \in Procs /\ loc[Handler].pc \notin Saving /\ UNCHANGED <<game, paid, lost>>
      /\ game \in DocType /\ loc' \in [Procs -> LocType]
      /\ {"saveOnly", "saveEndTime", "scanLate"} \subseteq PCs /\ {"api", "refund"} \subseteq Modes
  BY Constants, SavingIs DEF GameResult, EndGame, RefundsExpiredPlayers, RecordInv, TypeInv,
                             DocsTyped, history, PCs, AfterSave, Modes
<1>2. loc[Handler].unsaved = {}
  BY <1>1, CopyIs
<1>3. ASSUME NEW r, Goto(Handler, r), r.unsaved = {}, Recorded(r.doc) = Recorded(game)
      PROVE  RecordInv'
  <2>1. r \in LocType
    BY <1>1, <1>3 DEF Goto, RecordInv, TypeInv, DocsTyped
  <2> QED BY <1>1, <1>2, <1>3, <2>1, QuietMove
<1>4. \A mode \in Modes : \A pc \in PCs :
        /\ Reading(mode, pc) \in LocType
        /\ Reading(mode, pc).unsaved = {} /\ Reading(mode, pc).doc = game
  <2> TAKE mode \in Modes
  <2> TAKE pc \in PCs
  <2> QED BY <1>1, ReadingType DEF Reading, Idle
<1>5. CASE GameResult
  <2> DEFINE r == Reading("api", "saveOnly")
  <2>1. r \in LocType /\ r.unsaved = {} /\ r.doc = game
    BY <1>1, <1>4
  <2> HIDE DEF r
  <2>2. PICK a \in Agents \cup {NoAgent} :
          Goto(Handler, [r EXCEPT !.doc.winner = a, !.doc.status = "ResultUpdated",
                                  !.doc.result = @ + 1])
    BY <1>5 DEF GameResult, r
  <2> DEFINE s == [r EXCEPT !.doc.winner = a, !.doc.status = "ResultUpdated", !.doc.result = @ + 1]
             e == [game EXCEPT !.winner = a, !.status = "ResultUpdated", !.result = @ + 1]
  <2>3. s = [r EXCEPT !.doc = e]
    BY <1>1, <2>1 DEF LocType, DocType
  <2>4. Recorded(e) = Recorded(game)
    BY <1>1, RecordedSame DEF DocType
  <2> HIDE DEF e
  <2>5. s.unsaved = {} /\ s.doc = e
    BY <2>1, <2>3 DEF LocType
  <2> HIDE DEF s
  <2>6. Goto(Handler, s)
    BY <2>2 DEF s
  <2> QED BY <1>3, <2>4, <2>5, <2>6
<1>6. CASE EndGame
  <2> DEFINE r == Reading("api", "saveEndTime")
  <2>1. r \in LocType /\ r.unsaved = {} /\ r.doc = game
    BY <1>1, <1>4
  <2> HIDE DEF r
  <2> DEFINE s == [r EXCEPT !.doc.forced = TRUE]
             e == [game EXCEPT !.forced = TRUE]
  <2>2. Goto(Handler, s)
    BY <1>6 DEF EndGame, r
  <2>3. s.unsaved = {} /\ s.doc = e
    BY <1>1, <2>1 DEF LocType, DocType
  <2>4. Recorded(e) = Recorded(game)
    BY <1>1, RecordedSame DEF DocType
  <2> HIDE DEF s, e
  <2> QED BY <1>3, <2>2, <2>3, <2>4
<1>7. CASE RefundsExpiredPlayers
  <2> DEFINE r == Reading("refund", "scanLate")
  <2>1. r.unsaved = {} /\ r.doc = game
    BY <1>1, <1>4
  <2>2. Goto(Handler, r)
    BY <1>7 DEF RefundsExpiredPlayers
  <2> HIDE DEF r
  <2> QED BY <1>3, <2>1, <2>2
<1> QED BY <1>5, <1>6, <1>7

\* Failing calls and crashes.
LEMMA FaultRecords ==
  ASSUME RecordInv, TypeInv', NEW p \in Procs, CallFails(p) \/ Crash(p)
  PROVE  RecordInv'
<1>1. CASE CallFails(p)
  <2>1. loc[p].pc \notin Saving
    BY <1>1, SavingIs DEF CallFails
  <2> QED BY <1>1, <2>1, CopyIs, FailedRecords DEF CallFails, history
<1>2. CASE Crash(p)
  <2>1. Idle \in LocType /\ Idle.unsaved = {} /\ Idle.fresh = FALSE
    BY IdleType DEF Idle
  <2> QED BY <1>2, <2>1, DropRecords DEF Crash
<1> QED BY <1>1, <1>2

\* Steps of nobody, and the start.
LEMMA StillRecords ==
  ASSUME RecordInv, TypeInv', UNCHANGED <<game, loc, paid, lost>> PROVE RecordInv'
<1>1. \A i : InFlight(i)' = InFlight(i)
  BY DEF InFlight
<1>2. PaymentsAccounted'
  BY <1>1 DEF RecordInv, PaymentsAccounted
<1> QED BY <1>2 DEF RecordInv, Traced

LEMMA InitRecords == Init => RecordInv
<1> SUFFICES ASSUME Init PROVE RecordInv
  OBVIOUS
<1>1. loc = [p \in Procs |-> Idle] /\ game = NewGame
      /\ paid = [i \in Items |-> 0] /\ lost = [i \in Items |-> 0]
  BY DEF Init
<1>2. Idle.unsaved = {} /\ Idle.fresh = FALSE
  BY DEF Idle
<1>3. Recorded(game) = {}
  BY <1>1 DEF NewGame, Recorded
<1>4. \A i : InFlight(i) = {}
  BY <1>1, <1>2 DEF InFlight
<1>5. Cardinality({}) = 0
  BY FS_EmptySet
<1>6. PaymentsAccounted
  BY <1>1, <1>3, <1>4, <1>5 DEF PaymentsAccounted
<1>7. \A p \in Procs : Traced(p)
  BY <1>1, <1>2 DEF Traced
<1> QED BY <1>6, <1>7, InitType DEF RecordInv

\* Every step.
LEMMA NextRecords ==
  ASSUME RecordInv, [Next]_vars
  PROVE  RecordInv' /\ Recorded(game) \subseteq Recorded(game')
<1>1. TypeInv'
  BY NextType DEF RecordInv
<1>2. ASSUME NEW p \in Procs, UpdateGame(p) PROVE RecordInv' /\ Recorded(game) \subseteq Recorded(game')
  BY <1>1, <1>2, UpdateRecords
<1>3. ASSUME NEW p \in Procs, Step(p), ~UpdateGame(p)
      PROVE  RecordInv' /\ UNCHANGED game
  <2>1. RecordInv'
    BY <1>1, <1>3, FlowRecords DEF Step
  <2>2. UNCHANGED game
    BY <1>3 DEF Step, CheckGameBalance, MarkEndGame, MarkCompletedGame, Settle, PrizeToWinners,
                RefundToPlayers, CheckExpiredPlayers, RefundToExpiredPlayers, Local, Transfer
  <2> QED BY <2>1, <2>2
<1>4. ASSUME NEW w \in Watchers, Watch(w) PROVE RecordInv' /\ UNCHANGED game
  BY <1>1, <1>4, WatchRecords DEF Watch, StartPass, Dispatch, EndPass
<1>5. CASE GameResult \/ EndGame \/ RefundsExpiredPlayers
  <2>1. UNCHANGED game
    BY <1>5 DEF GameResult, EndGame, RefundsExpiredPlayers
  <2> QED BY <1>1, <1>5, <2>1, HandlerRecords
<1>6. ASSUME NEW p \in Procs, CallFails(p) \/ Crash(p) PROVE RecordInv' /\ UNCHANGED game
  BY <1>1, <1>6, FaultRecords DEF CallFails, Crash
<1>7. CASE PlaceBets \/ ClockTick \/ LockExpires \/ UNCHANGED vars
  <2>1. UNCHANGED <<game, loc, paid, lost>>
    BY <1>7 DEF PlaceBets, ClockTick, LockExpires, vars, history
  <2> QED BY <1>1, <2>1, StillRecords
<1> QED BY <1>2, <1>3, <1>4, <1>5, <1>6, <1>7 DEF Next

\* Every transfer is recorded exactly once, in flight, or known to be lost: none is made
\* twice but after a loss (CollectOnly, PrizeToWinners, RefundToPlayers), whatever
\* processes fail, crash or write in between.
THEOREM PaymentsAreAccounted == Spec => []PaymentsAccounted
<1>1. RecordInv => PaymentsAccounted
  BY DEF RecordInv
<1>2. RecordInv /\ [Next]_vars => RecordInv'
  BY NextRecords
<1> QED BY <1>1, <1>2, InitRecords, PTL DEF Spec

\* No write takes a record out of the document again (the date the replace matches on).
THEOREM RecordsAreKept == Spec => RecordsSurvive
<1>1. RecordInv /\ [Next]_vars => RecordInv'
  BY NextRecords
<1>2. RecordInv /\ [Next]_vars => [Recorded(game) \subseteq Recorded(game')]_vars
  BY NextRecords
<1> QED BY <1>1, <1>2, InitRecords, PTL DEF Spec, RecordsSurvive

-----------------------------------------------------------------------------
(* Completion.                                                              *)

Collecting == {"pass", "balance", "collect", "saveOnly", "saveEndTime", "saveCollect"}
Paying == {"saveDetermined", "settle", "saveFee", "prize", "savePrize", "refund", "saveRefund"}
Repaying == {"scanLate", "saveScan", "late", "saveLate"}

\* Winners that are counted are on record.
Winning(d) == d.nWinners # 0 => (d.win # {} /\ d.players # {})

\* What a process with record r knows on its way through a completion.
Completing(r) ==
  /\ r.pc \in {"determine", "defer"} \cup Paying \cup Repaying
  /\ r.pc \in Paying => r.doc.players # {}
  /\ r.pc \in {"saveFee", "prize", "savePrize"} => (r.doc.feePaid /\ r.doc.nWinners # 0)
  /\ r.pc \in {"refund", "saveRefund"} => r.doc.nWinners = 0
  /\ r.pc \in Repaying => Claims(r.doc) \subseteq Recorded(r.doc)
  /\ r.pc = "defer" /\ r.ok => Settled(r.doc) \/ NilClaim(r.doc)

\* Which steps belong to which flow.
Flows(r) ==
  /\ Winning(r.doc)
  /\ r.mode = "complete" => Completing(r)
  /\ r.mode = "refund" => r.pc \in Repaying
  /\ r.mode \in {"watch", "api"} => r.pc \in Collecting
  /\ r.mode = "none" => r.pc \in {"idle", "done"}

\* A copy that can be written is completed only if the game is.
Marked(r) == r.fresh /\ r.doc.status = "Completed" => game.status = "Completed"

SettleInv == TypeInv /\ Winning(game) /\ \A p \in Procs : Flows(loc[p]) /\ Marked(loc[p])

\* The claims, and whether they are settled, do not depend on the status.
LEMMA StatusKeeps ==
  ASSUME NEW d \in DocType, NEW s \in Statuses, NEW e, e = [d EXCEPT !.status = s]
  PROVE  /\ Winning(e) = Winning(d) /\ Settled(e) = Settled(d) /\ NilClaim(e) = NilClaim(d)
<1>1. /\ e.players = d.players /\ e.late = d.late /\ e.win = d.win /\ e.nWinners = d.nWinners
      /\ e.betWinners = d.betWinners /\ e.fee = d.fee /\ e.pool = d.pool /\ e.amount = d.amount
      /\ Recorded(e) = Recorded(d)
  BY RecordedSame DEF DocType
<1>2. \A j : Share(e, j) = Share(d, j)
  BY <1>1 DEF Share
<1>3. \A i : PrizeAmount(e, i) = PrizeAmount(d, i)
  <2> TAKE i
  <2> DEFINE B(x) == {j \in x.win : j < i}
             G(x) == [j \in B(x) |-> Share(x, j)]
             left(x) == x.pool - SumFunctionOnSet(G(x), B(x))
  <2>1. B(e) = B(d)
    BY <1>1
  <2>2. G(e) = G(d)
    BY <1>2, <2>1
  <2>3. \A x : PrizeAmount(x, i) = IF Cardinality(B(x)) + 1 = x.nWinners /\ Share(x, i) > left(x)
                                     THEN left(x) ELSE Share(x, i)
    BY DEF PrizeAmount
  <2> HIDE DEF B, G
  <2>4. left(e) = left(d)
    BY <1>1, <2>1, <2>2, Zenon
  <2> HIDE DEF left
  <2> QED BY <1>1, <1>2, <2>1, <2>3, <2>4
<1>4. Claims(e) = Claims(d) /\ LateClaims(e) = LateClaims(d)
  BY <1>1 DEF Claims, LateClaims
<1>5. \A c : Amount(e, c) = Amount(d, c)
  BY <1>1, <1>3, Zenon DEF Amount
<1>6. Settled(e) = Settled(d) /\ NilClaim(e) = NilClaim(d)
  BY <1>1, <1>4, <1>5 DEF Settled, NilClaim
<1> QED BY <1>1, <1>6 DEF Winning

\* Recording a transfer keeps the claims and what is on record.
LEMMA RecordKeeps ==
  ASSUME NEW d \in DocType, NEW item \in Items, NEW e, e = Record(d, item)
  PROVE  /\ e.players = d.players /\ e.nWinners = d.nWinners /\ e.win = d.win
         /\ e.status = d.status /\ Claims(e) = Claims(d) /\ Recorded(d) \subseteq Recorded(e)
         /\ d.feePaid => e.feePaid
         /\ item[1] = "fee" => e.feePaid
<1>1. /\ e.players = d.players /\ e.nWinners = d.nWinners /\ e.win = d.win
      /\ e.status = d.status
      /\ (d.feePaid \/ item[1] = "fee") => e.feePaid
  <2>1. CASE item[1] = "collect"
    BY <2>1 DEF Record, DocType
  <2>2. CASE item[1] = "fee"
    BY <2>2 DEF Record, DocType
  <2>3. CASE item[1] = "prize"
    BY <2>3 DEF Record, DocType
  <2>4. CASE item[1] = "refund"
    BY <2>4 DEF Record, DocType
  <2>5. CASE item[1] = "late"
    BY <2>5 DEF Record, DocType
  <2> QED BY <2>1, <2>2, <2>3, <2>4, <2>5, ItemKinds
<1>2. Recorded(e) = Recorded(d) \cup {item}
  BY RecordAdds
<1>3. Claims(e) = Claims(d)
  BY <1>1 DEF Claims
<1> QED BY <1>1, <1>2, <1>3

\* A game that cannot be paid out has a claim of nothing.
LEMMA UnpayableIsNil ==
  ASSUME NEW d \in DocType, Winning(d), d.nWinners # 0, GasUnpayable(d)
  PROVE  NilClaim(d)
<1>1. d.win # {} /\ d.players # {} /\ d.win \subseteq Bets /\ d.pool \in Nat
  BY DEF Winning, DocType
<1>2. <<"fee", 0>> \in Claims(d) /\ \A i \in d.win : <<"prize", i>> \in Claims(d)
  BY <1>1 DEF Claims
<1>3. CASE d.fee = 0
  <2>1. Amount(d, <<"fee", 0>>) = 0
    BY <1>3 DEF Amount
  <2> QED BY <1>2, <2>1 DEF NilClaim
<1>4. CASE \A i \in d.win : PrizeAmount(d, i) = 0
  <2>1. PICK i \in d.win : TRUE
    BY <1>1
  <2>2. PrizeAmount(d, i) = 0
    BY <1>4
  <2>3. Amount(d, <<"prize", i>>) = 0
    BY <2>2 DEF Amount
  <2> QED BY <1>2, <2>3 DEF NilClaim
<1>5. CASE d.betWinners = 0
  <2>1. \A j : Share(d, j) = 0
    BY <1>5 DEF Share
  <2>2. ASSUME NEW i \in d.win PROVE PrizeAmount(d, i) = 0
    <3> DEFINE before == {j \in d.win : j < i}
               f == [j \in before |-> Share(d, j)]
    <3>1. IsFiniteSet(before) /\ \A j \in before : f[j] = 0
      BY <1>1, <2>1, Constants, FS_Subset
    <3>2. SumFunctionOnSet(f, before) = 0
      <4> HIDE DEF before, f
      <4> QED BY <3>1, SumOfZeros
    <3>3. ~(Share(d, i) > d.pool - SumFunctionOnSet(f, before))
      BY <1>1, <2>1, <3>2
    <3> QED BY <2>1, <3>3 DEF PrizeAmount
  <2> QED BY <1>4, <2>2
<1> QED BY <1>3, <1>4, <1>5 DEF GasUnpayable

\* Whose step it is.
LEMMA ModeIs ==
  ASSUME NEW r \in LocType, Flows(r)
  PROVE  /\ r.pc \in {"determine", "defer"} \cup Paying => r.mode = "complete"
         /\ r.pc \in Repaying => r.mode \in {"complete", "refund"}
         /\ r.pc \in Collecting => r.mode \in {"watch", "api"}
         /\ r.pc \in {"idle", "done"} => r.mode = "none"
<1>1. r.mode \in {"none", "watch", "complete", "api", "refund"}
  BY DEF LocType, Modes
<1> QED BY <1>1 DEF Flows, Completing, Paying, Repaying, Collecting

\* The ends of a flow.
LEMMA RestFlows ==
  ASSUME NEW p \in Procs
  PROVE  /\ Flows(Idle) /\ Idle.fresh = FALSE /\ Flows(Rest(p)) /\ Rest(p).fresh = FALSE
<1>1. Idle.mode = "none" /\ Idle.pc = "idle" /\ Idle.fresh = FALSE /\ Idle.doc = NewGame
      /\ Idle \in LocType /\ NewGame.nWinners = 0
  BY IdleType DEF Idle, NewGame
<1>2. ASSUME NEW pc \in {"idle", "done"}, NEW r, r = [Idle EXCEPT !.pc = pc]
      PROVE  Flows(r) /\ r.fresh = FALSE
  <2>1. r.mode = "none" /\ r.pc = pc /\ r.fresh = FALSE /\ r.doc = NewGame
    BY <1>1, <1>2 DEF LocType
  <2> QED BY <1>1, <2>1 DEF Flows, Winning
<1>3. Idle = [Idle EXCEPT !.pc = "idle"]
  BY <1>1 DEF LocType
<1> QED BY <1>2, <1>3 DEF Rest

\* A completion that fails writes nothing but what was done; one that panics had a claim
\* of nothing.
LEMMA FailedFlows ==
  ASSUME NEW p \in Procs, loc[p] \in LocType, Flows(loc[p]), Marked(loc[p])
  PROVE  /\ Flows(Failed(p)) /\ Marked(Failed(p))
         /\ (loc[p].mode = "complete" => NilClaim(loc[p].doc)) =>
              Flows(Panicked(p)) /\ Marked(Panicked(p))
<1>1. /\ Flows(Idle) /\ Marked(Idle) /\ Flows(Rest(p)) /\ Marked(Rest(p))
  BY RestFlows DEF Marked
<1>2. ASSUME loc[p].mode = "complete", NEW ok, NEW r, r = [loc[p] EXCEPT !.pc = "defer", !.ok = ok],
             ok => NilClaim(loc[p].doc)
      PROVE  Flows(r) /\ Marked(r)
  <2>1. r.pc = "defer" /\ r.ok = ok /\ r.mode = "complete" /\ r.doc = loc[p].doc /\ r.fresh = loc[p].fresh
    BY <1>2 DEF LocType
  <2>2. Completing(r)
    BY <1>2, <2>1 DEF Completing, Paying, Repaying
  <2> QED BY <2>1, <2>2 DEF Flows, Marked
<1>3. [loc[p] EXCEPT !.pc = "defer"] = [loc[p] EXCEPT !.pc = "defer", !.ok = loc[p].ok]
  BY DEF LocType
<1>4. CASE loc[p].mode = "complete"
  BY <1>1, <1>2, <1>3, <1>4 DEF Failed, Panicked
<1>5. CASE loc[p].mode # "complete"
  BY <1>1, <1>5 DEF Failed, Panicked
<1> QED BY <1>4, <1>5

\* A step of one process that leaves the document alone.
LEMMA CarefulMove ==
  ASSUME SettleInv, TypeInv', NEW p \in Procs, NEW r, Goto(p, r), UNCHANGED game,
         Flows(r), Marked(r)
  PROVE  SettleInv'
<1>1. loc' = [loc EXCEPT ![p] = r] /\ loc \in [Procs -> LocType] /\ game' = game
  BY DEF SettleInv, TypeInv, DocsTyped, Goto
<1>2. \A q \in Procs : Flows(loc'[q]) /\ Marked(loc'[q])
  <2> TAKE q \in Procs
  <2>1. loc'[q] = IF q = p THEN r ELSE loc[q]
    BY <1>1
  <2> QED BY <2>1 DEF SettleInv
<1>3. \A q \in Procs : Marked(loc[q])' = Marked(loc'[q])
  BY <1>1 DEF Marked
<1>4. \A q \in Procs : Flows(loc[q])' = Flows(loc'[q])
  OBVIOUS
<1> QED BY <1>1, <1>2, <1>3, <1>4 DEF SettleInv

\* The next step of a flow, with the copy changed.
LEMMA LocalCareful ==
  ASSUME SettleInv, TypeInv', NEW p \in Procs, NEW pc, NEW d, Local(p, pc, d),
         d.status = "Completed" => loc[p].doc.status = "Completed",
         ASSUME NEW r, r.pc = pc, r.doc = d, r.mode = loc[p].mode PROVE Flows(r)
  PROVE  SettleInv'
<1> DEFINE r == [loc[p] EXCEPT !.pc = pc, !.doc = d]
<1>1. loc[p] \in LocType /\ Marked(loc[p])
  BY DEF SettleInv, TypeInv, DocsTyped
<1>2. r.pc = pc /\ r.doc = d /\ r.mode = loc[p].mode /\ r.fresh = loc[p].fresh
  BY <1>1 DEF LocType
<1>3. Goto(p, r) /\ UNCHANGED game
  BY DEF Local
<1> HIDE DEF r
<1>4. Flows(r) /\ Marked(r)
  BY <1>1, <1>2 DEF Marked
<1> QED BY <1>3, <1>4, CarefulMove

\* A transfer of a claim.
LEMMA TransferCareful ==
  ASSUME SettleInv, TypeInv', NEW p \in Procs, NEW item \in Items, NEW next, Transfer(p, item, next),
         loc[p].mode = "complete" => item \in (Claims(loc[p].doc) \cup LateClaims(loc[p].doc)),
         ASSUME NEW r, r.pc = next, r.doc = Record(loc[p].doc, item), r.mode = loc[p].mode PROVE Flows(r)
  PROVE  SettleInv'
<1> DEFINE d == loc[p].doc
           r == [loc[p] EXCEPT !.pc = next, !.doc = Record(d, item), !.unsaved = @ \cup {item}]
<1>1. loc[p] \in LocType /\ Flows(loc[p]) /\ Marked(loc[p]) /\ d \in DocType /\ game' = game
  BY DEF SettleInv, TypeInv, DocsTyped, LocType, Transfer
<1>2. CASE Goto(p, r)
  <2>1. r.pc = next /\ r.doc = Record(d, item) /\ r.mode = loc[p].mode /\ r.fresh = loc[p].fresh
    BY <1>1 DEF LocType
  <2> HIDE DEF r
  <2>2. Record(d, item).status = d.status
    BY <1>1, RecordKeeps
  <2>3. Flows(r) /\ Marked(r)
    BY <1>1, <2>1, <2>2 DEF Marked
  <2> QED BY <1>1, <1>2, <2>3, CarefulMove
<1>3. CASE Goto(p, Failed(p))
  BY <1>1, <1>3, FailedFlows, CarefulMove
<1>4. CASE Amount(d, item) = 0 /\ Goto(p, Panicked(p))
  <2>1. loc[p].mode = "complete" => NilClaim(d)
    BY <1>4 DEF NilClaim
  <2> QED BY <1>1, <1>4, <2>1, FailedFlows, CarefulMove
<1> QED BY <1>2, <1>3, <1>4 DEF Transfer, d, r

\* The flows.
LEMMA FlowCareful ==
  ASSUME SettleInv, TypeInv', NEW p \in Procs,
         \/ CheckGameBalance(p) \/ MarkEndGame(p) \/ MarkCompletedGame(p)
         \/ Settle(p) \/ PrizeToWinners(p) \/ RefundToPlayers(p)
         \/ CheckExpiredPlayers(p) \/ RefundToExpiredPlayers(p)
  PROVE  SettleInv'
<1> DEFINE d == loc[p].doc
           mode == loc[p].mode
           pc == loc[p].pc
<1>1. /\ loc[p] \in LocType /\ Flows(loc[p]) /\ Marked(loc[p]) /\ d \in DocType
      /\ Winning(d) /\ mode \in {"none", "watch", "complete", "api", "refund"}
  BY DEF SettleInv, TypeInv, DocsTyped, LocType, Flows, Modes
<1>2. /\ d.win \subseteq Bets /\ d.players \subseteq Bets /\ d.late \subseteq Bets
      /\ Bets \subseteq Nat /\ Agents \subseteq Nat
  BY <1>1, DocSets
<1>3. mode = "complete" => Completing(loc[p])
  BY <1>1 DEF Flows
<1>4. /\ pc \in {"determine", "defer"} \cup Paying => mode = "complete"
      /\ pc \in Repaying => mode \in {"complete", "refund"}
      /\ pc \in Collecting => mode \in {"watch", "api"}
  BY <1>1, ModeIs
<1>5. ASSUME NEW pc1, Local(p, pc1, d),
             ASSUME NEW r, r.pc = pc1, r.doc = d, r.mode = mode PROVE Flows(r)
      PROVE  SettleInv'
  BY <1>5, LocalCareful
<1> HIDE DEF d, mode, pc
<1>6. CASE CheckGameBalance(p)
  <2> DEFINE P == d.players \cup NewRecords(FilterTransfer(d), d.players)
             A == [a \in Agents |-> StakeOf({i \in P : BetOn[i] = a})]
             e == [d EXCEPT !.players = P, !.block = head, !.amount = A]
  <2>1. Local(p, "saveOnly", e) /\ pc = "balance"
    BY <1>6 DEF CheckGameBalance, d, pc
  <2> HIDE DEF A
  <2>2. /\ e.status = d.status /\ e.nWinners = d.nWinners /\ e.win = d.win
        /\ d.players \subseteq e.players
    BY <1>1 DEF DocType
  <2>3. mode \in {"watch", "api"}
    BY <1>4, <2>1 DEF Collecting
  <2> HIDE DEF P, e
  <2>4. Winning(e)
    BY <1>1, <2>2 DEF Winning
  <2>5. ASSUME NEW r, r.pc = "saveOnly", r.doc = e, r.mode = mode PROVE Flows(r)
    BY <2>3, <2>4, <2>5 DEF Flows, Collecting
  <2> QED BY <2>1, <2>2, <2>5, LocalCareful DEF d, mode
<1>7. CASE MarkEndGame(p)
  <2>0. pc = "collect"
    BY <1>7 DEF MarkEndGame, pc
  <2>1. mode \in {"watch", "api"}
    BY <1>4, <2>0 DEF Collecting
  <2>2. CASE Local(p, "saveOnly", [d EXCEPT !.status = "Ended"])
    <3> DEFINE e == [d EXCEPT !.status = "Ended"]
    <3>1. e.status = "Ended" /\ e.nWinners = d.nWinners /\ e.win = d.win /\ e.players = d.players
      BY <1>1 DEF DocType
    <3> HIDE DEF e
    <3>2. Winning(e)
      BY <1>1, <3>1 DEF Winning
    <3>3. ASSUME NEW r, r.pc = "saveOnly", r.doc = e, r.mode = mode PROVE Flows(r)
      BY <2>1, <3>2, <3>3 DEF Flows, Collecting
    <3> QED BY <2>2, <3>1, <3>3, LocalCareful DEF d, mode, e
  <2>3. CASE Uncollected(d) # {} /\ Transfer(p, <<"collect", Min(Uncollected(d))>>, "saveCollect")
    <3> DEFINE item == <<"collect", Min(Uncollected(d))>>
               e == Record(d, item)
    <3>1. Uncollected(d) \in SUBSET Nat /\ Uncollected(d) \subseteq Agents
      BY <1>2 DEF Uncollected
    <3>2. Min(Uncollected(d)) \in Agents
      BY <2>3, <3>1, LeastIs
    <3>3. item \in Items
      BY <3>2 DEF Items
    <3> HIDE DEF item, e
    <3>4. e.nWinners = d.nWinners /\ e.win = d.win /\ e.players = d.players
      BY <1>1, <3>3, RecordKeeps DEF e
    <3>5. Winning(e)
      BY <1>1, <3>4 DEF Winning
    <3>6. ASSUME NEW r, r.pc = "saveCollect", r.doc = e, r.mode = mode PROVE Flows(r)
      BY <2>1, <3>5, <3>6 DEF Flows, Collecting
    <3>7. Transfer(p, item, "saveCollect")
      BY <2>3 DEF item
    <3> QED BY <2>1, <3>3, <3>6, <3>7, TransferCareful DEF d, mode, e
  <2> QED BY <1>7, <2>2, <2>3 DEF MarkEndGame, d
<1>8. CASE MarkCompletedGame(p)
  <2>1. mode = "complete"
    BY <1>4, <1>8 DEF MarkCompletedGame, pc
  <2>2. CASE d.players = {} /\ Local(p, "scanLate", d)
    <3>1. Claims(d) = {}
      BY <2>2 DEF Claims
    <3>2. ASSUME NEW r, r.pc = "scanLate", r.doc = d, r.mode = mode PROVE Flows(r)
      BY <1>1, <2>1, <3>1, <3>2 DEF Flows, Completing, Paying, Repaying
    <3> QED BY <1>5, <2>2, <3>2
  <2>3. CASE d.players # {} /\ Local(p, "saveDetermined", DeterminePlayerWinner(d))
    <3> DEFINE e == DeterminePlayerWinner(d)
               W == {i \in d.players : BetOn[i] = d.winner}
    <3>1. e.players = d.players /\ e.status = d.status
      BY <1>1 DEF DeterminePlayerWinner, DocType
    <3>2. Winning(e)
      <4>1. CASE d.winner = NoAgent
        BY <1>1, <4>1 DEF DeterminePlayerWinner
      <4>2. CASE d.winner # NoAgent
        <5>1. e.nWinners = Cardinality(W) /\ e.win = d.win \cup W
          BY <1>1, <4>2 DEF DeterminePlayerWinner, DocType
        <5>2. Cardinality({}) = 0
          BY FS_EmptySet
        <5> HIDE DEF e
        <5> QED BY <3>1, <5>1, <5>2 DEF Winning
      <4> QED BY <4>1, <4>2
    <3> HIDE DEF e
    <3>3. ASSUME NEW r, r.pc = "saveDetermined", r.doc = e, r.mode = mode PROVE Flows(r)
      BY <2>1, <2>3, <3>1, <3>2, <3>3 DEF Flows, Completing, Paying, Repaying
    <3> QED BY <2>3, <3>1, <3>3, LocalCareful DEF d, mode, e
  <2> QED BY <1>8, <2>2, <2>3 DEF MarkCompletedGame, d
<1>9. CASE Settle(p)
  <2>1. pc = "settle" /\ mode = "complete" /\ d.players # {}
    <3>1. pc = "settle"
      BY <1>9 DEF Settle, pc
    <3>2. mode = "complete"
      BY <1>4, <3>1 DEF Paying
    <3> QED BY <1>3, <3>1, <3>2 DEF Completing, Paying, pc, d
  <2>2. CASE d.nWinners = 0 /\ Local(p, "refund", d)
    <3>1. ASSUME NEW r, r.pc = "refund", r.doc = d, r.mode = mode PROVE Flows(r)
      BY <1>1, <2>1, <2>2, <3>1 DEF Flows, Completing, Paying, Repaying
    <3> QED BY <1>5, <2>2, <3>1
  <2>3. CASE d.nWinners # 0 /\ UnpaidWinners(d) = {} /\ d.feePaid /\ Local(p, "scanLate", d)
    <3>1. Claims(d) \subseteq Recorded(d)
      BY <2>3 DEF Claims, Recorded, UnpaidWinners
    <3>2. ASSUME NEW r, r.pc = "scanLate", r.doc = d, r.mode = mode PROVE Flows(r)
      BY <1>1, <2>1, <3>1, <3>2 DEF Flows, Completing, Paying, Repaying
    <3> QED BY <1>5, <2>3, <3>2
  <2>4. CASE d.nWinners # 0 /\ d.feePaid /\ Local(p, "prize", d)
    <3>1. ASSUME NEW r, r.pc = "prize", r.doc = d, r.mode = mode PROVE Flows(r)
      BY <1>1, <2>1, <2>4, <3>1 DEF Flows, Completing, Paying, Repaying
    <3> QED BY <1>5, <2>4, <3>1
  <2>5. CASE d.nWinners # 0 /\ Transfer(p, <<"fee", 0>>, "saveFee")
    <3> DEFINE item == <<"fee", 0>>
               e == Record(d, item)
    <3>1. item \in Items /\ item \in Claims(d) /\ item[1] = "fee"
      BY <2>1, <2>5 DEF Items, Claims
    <3> HIDE DEF item, e
    <3>2. e.nWinners = d.nWinners /\ e.win = d.win /\ e.players = d.players /\ e.feePaid
      BY <1>1, <3>1, RecordKeeps DEF e
    <3>3. Winning(e)
      BY <1>1, <3>2 DEF Winning
    <3>4. ASSUME NEW r, r.pc = "saveFee", r.doc = e, r.mode = mode PROVE Flows(r)
      BY <2>1, <2>5, <3>2, <3>3, <3>4 DEF Flows, Completing, Paying, Repaying
    <3>5. Transfer(p, item, "saveFee")
      BY <2>5 DEF item
    <3> QED BY <3>1, <3>4, <3>5, TransferCareful DEF d, mode, e
  <2>6. CASE d.nWinners # 0 /\ GasUnpayable(d) /\ Goto(p, Panicked(p)) /\ UNCHANGED game
    <3>1. NilClaim(d)
      BY <1>1, <2>6, UnpayableIsNil
    <3> QED BY <1>1, <2>6, <3>1, FailedFlows, CarefulMove DEF d
  <2> QED BY <1>9, <2>2, <2>3, <2>4, <2>5, <2>6 DEF Settle, d
<1>10. CASE PrizeToWinners(p)
  <2>1. pc = "prize" /\ mode = "complete" /\ d.players # {} /\ d.feePaid /\ d.nWinners # 0
    <3>1. pc = "prize"
      BY <1>10 DEF PrizeToWinners, pc
    <3>2. mode = "complete"
      BY <1>4, <3>1 DEF Paying
    <3> QED BY <1>3, <3>1, <3>2 DEF Completing, Paying, pc, d
  <2>2. CASE UnpaidWinners(d) = {} /\ Local(p, "scanLate", d)
    <3>1. Claims(d) \subseteq Recorded(d)
      BY <2>1, <2>2 DEF Claims, Recorded, UnpaidWinners
    <3>2. ASSUME NEW r, r.pc = "scanLate", r.doc = d, r.mode = mode PROVE Flows(r)
      BY <1>1, <2>1, <3>1, <3>2 DEF Flows, Completing, Paying, Repaying
    <3> QED BY <1>5, <2>2, <3>2
  <2>3. CASE UnpaidWinners(d) # {} /\ Transfer(p, <<"prize", Min(UnpaidWinners(d))>>, "savePrize")
    <3> DEFINE item == <<"prize", Min(UnpaidWinners(d))>>
               e == Record(d, item)
    <3>1. UnpaidWinners(d) \in SUBSET Nat /\ UnpaidWinners(d) \subseteq d.win
      BY <1>2 DEF UnpaidWinners
    <3>2. Min(UnpaidWinners(d)) \in d.win
      BY <2>3, <3>1, LeastIs
    <3>3. item \in Items /\ item \in Claims(d)
      BY <1>2, <2>1, <3>2 DEF Items, Claims
    <3> HIDE DEF item, e
    <3>4. e.nWinners = d.nWinners /\ e.win = d.win /\ e.players = d.players /\ e.feePaid
      BY <1>1, <2>1, <3>3, RecordKeeps DEF e
    <3>5. Winning(e)
      BY <1>1, <3>4 DEF Winning
    <3>6. ASSUME NEW r, r.pc = "savePrize", r.doc = e, r.mode = mode PROVE Flows(r)
      BY <2>1, <3>4, <3>5, <3>6 DEF Flows, Completing, Paying, Repaying
    <3>7. Transfer(p, item, "savePrize")
      BY <2>3 DEF item
    <3> QED BY <3>3, <3>6, <3>7, TransferCareful DEF d, mode, e
  <2> QED BY <1>10, <2>2, <2>3 DEF PrizeToWinners, d
<1>11. CASE RefundToPlayers(p)
  <2>1. pc = "refund" /\ mode = "complete" /\ d.players # {} /\ d.nWinners = 0
    <3>1. pc = "refund"
      BY <1>11 DEF RefundToPlayers, pc
    <3>2. mode = "complete"
      BY <1>4, <3>1 DEF Paying
    <3> QED BY <1>3, <3>1, <3>2 DEF Completing, Paying, pc, d
  <2>2. CASE FirstOf(d.players) \ d.refunded = {} /\ Local(p, "scanLate", d)
    <3>1. Claims(d) \subseteq Recorded(d)
      BY <2>1, <2>2 DEF Claims, Recorded
    <3>2. ASSUME NEW r, r.pc = "scanLate", r.doc = d, r.mode = mode PROVE Flows(r)
      BY <1>1, <2>1, <3>1, <3>2 DEF Flows, Completing, Paying, Repaying
    <3> QED BY <1>5, <2>2, <3>2
  <2>3. ASSUME NEW i \in FirstOf(d.players) \ d.refunded, Transfer(p, <<"refund", i>>, "saveRefund")
        PROVE  SettleInv'
    <3> DEFINE item == <<"refund", i>>
               e == Record(d, item)
    <3>1. item \in Items /\ item \in Claims(d)
      BY <1>2, <2>1 DEF Items, Claims, FirstOf
    <3> HIDE DEF item, e
    <3>2. e.nWinners = d.nWinners /\ e.win = d.win /\ e.players = d.players
      BY <1>1, <3>1, RecordKeeps DEF e
    <3>3. Winning(e)
      BY <1>1, <3>2 DEF Winning
    <3>4. ASSUME NEW r, r.pc = "saveRefund", r.doc = e, r.mode = mode PROVE Flows(r)
      BY <2>1, <3>2, <3>3, <3>4 DEF Flows, Completing, Paying, Repaying
    <3>5. Transfer(p, item, "saveRefund")
      BY <2>3 DEF item
    <3> QED BY <3>1, <3>4, <3>5, TransferCareful DEF d, mode, e
  <2> QED BY <1>11, <2>2, <2>3 DEF RefundToPlayers, d
<1>12. CASE CheckExpiredPlayers(p)
  <2> DEFINE e == [d EXCEPT !.late = @ \cup NewRecords(FilterTransfer(d), d.players \cup @)]
  <2>1. pc = "scanLate" /\ Local(p, "saveScan", e)
    BY <1>12 DEF CheckExpiredPlayers, pc, d
  <2>2. mode \in {"complete", "refund"} /\ (mode = "complete" => Claims(d) \subseteq Recorded(d))
    <3>1. mode \in {"complete", "refund"}
      BY <1>4, <2>1 DEF Repaying
    <3> QED BY <1>3, <2>1, <3>1 DEF Completing, Repaying, pc, d
  <2>3. /\ e.status = d.status /\ e.nWinners = d.nWinners /\ e.win = d.win /\ e.players = d.players
        /\ Recorded(e) = Recorded(d)
    BY <1>1, RecordedSame DEF DocType
  <2> HIDE DEF e
  <2>4. Winning(e) /\ Claims(e) = Claims(d)
    BY <1>1, <2>3 DEF Winning, Claims
  <2>5. ASSUME NEW r, r.pc = "saveScan", r.doc = e, r.mode = mode PROVE Flows(r)
    BY <2>2, <2>3, <2>4, <2>5 DEF Flows, Completing, Paying, Repaying
  <2> QED BY <2>1, <2>3, <2>5, LocalCareful DEF d, mode
<1>13. CASE RefundToExpiredPlayers(p)
  <2>1. pc = "late"
    BY <1>13 DEF RefundToExpiredPlayers, pc
  <2>2. mode \in {"complete", "refund"} /\ (mode = "complete" => Claims(d) \subseteq Recorded(d))
    <3>1. mode \in {"complete", "refund"}
      BY <1>4, <2>1 DEF Repaying
    <3> QED BY <1>3, <2>1, <3>1 DEF Completing, Repaying, pc, d
  <2>3. CASE FirstOf(d.late) \ d.lateRefunded = {} /\ mode = "complete" /\ Local(p, "defer", d)
    <3>1. LateClaims(d) \subseteq Recorded(d)
      BY <2>3 DEF LateClaims, Recorded
    <3>2. Settled(d)
      BY <2>2, <2>3, <3>1 DEF Settled
    <3>3. ASSUME NEW r, r.pc = "defer", r.doc = d, r.mode = mode PROVE Flows(r)
      BY <1>1, <2>3, <3>2, <3>3 DEF Flows, Completing, Paying, Repaying
    <3> QED BY <1>5, <2>3, <3>3
  <2>4. ASSUME NEW i \in FirstOf(d.late) \ d.lateRefunded, Transfer(p, <<"late", i>>, "saveLate")
        PROVE  SettleInv'
    <3> DEFINE item == <<"late", i>>
               e == Record(d, item)
    <3>1. item \in Items /\ item \in LateClaims(d)
      BY <1>2 DEF Items, LateClaims, FirstOf
    <3> HIDE DEF item, e
    <3>2. /\ e.nWinners = d.nWinners /\ e.win = d.win /\ e.players = d.players
          /\ Claims(e) = Claims(d) /\ Recorded(d) \subseteq Recorded(e)
      BY <1>1, <3>1, RecordKeeps DEF e
    <3>3. Winning(e)
      BY <1>1, <3>2 DEF Winning
    <3>4. ASSUME NEW r, r.pc = "saveLate", r.doc = e, r.mode = mode PROVE Flows(r)
      BY <2>2, <3>2, <3>3, <3>4 DEF Flows, Completing, Paying, Repaying
    <3>5. Transfer(p, item, "saveLate")
      BY <2>4 DEF item
    <3> QED BY <3>1, <3>4, <3>5, TransferCareful DEF d, mode, e
  <2>5. CASE Goto(p, Idle) /\ UNCHANGED game
    BY <2>5, RestFlows, CarefulMove DEF Marked
  <2> QED BY <1>13, <2>3, <2>4, <2>5 DEF RefundToExpiredPlayers, d, mode
<1> QED BY <1>6, <1>7, <1>8, <1>9, <1>10, <1>11, <1>12, <1>13

\* Writing: a game becomes completed by the write deferred to the end of a completion.
LEMMA UpdateCareful ==
  ASSUME SettleInv, TypeInv', NEW p \in Procs, UpdateGame(p)
  PROVE  SettleInv' /\ (BecomesCompleted => Settled(game') \/ NilClaim(game'))
<1> DEFINE d == loc[p].doc
           go == AfterSave[loc[p].pc]
<1>1. /\ loc \in [Procs -> LocType] /\ loc[p] \in LocType /\ d \in DocType /\ loc[p].pc \in Saving
      /\ Flows(loc[p]) /\ Marked(loc[p]) /\ Winning(d)
  BY DEF SettleInv, TypeInv, DocsTyped, LocType, Flows, UpdateGame, Saving
<1>2. Winning(Outgoing(p))
  BY <1>1, StatusKeeps DEF Outgoing, Statuses
<1>3. /\ loc[p].pc = "defer" => loc[p].mode = "complete"
      /\ loc[p].pc = "defer" /\ loc[p].ok => Settled(d) \/ NilClaim(d)
  <2>1. loc[p].pc = "defer" => loc[p].mode = "complete"
    BY <1>1, ModeIs
  <2> QED BY <1>1, <2>1 DEF Flows, Completing
<1>4. loc[p].fresh /\ game' = Outgoing(p) /\ BecomesCompleted => Settled(game') \/ NilClaim(game')
  <2> SUFFICES ASSUME loc[p].fresh, game' = Outgoing(p), BecomesCompleted
               PROVE  Settled(game') \/ NilClaim(game')
    OBVIOUS
  <2>1. CASE loc[p].pc = "defer" /\ loc[p].ok
    <3> DEFINE e == [d EXCEPT !.status = "Completed"]
    <3>1. game' = e
      BY <2>1 DEF Outgoing
    <3>2. "Completed" \in Statuses
      BY DEF Statuses
    <3> HIDE DEF e, d
    <3>3. Settled(e) = Settled(d) /\ NilClaim(e) = NilClaim(d)
      BY <1>1, <3>2, StatusKeeps DEF e
    <3> QED BY <1>3, <2>1, <3>1, <3>3
  <2>2. CASE ~(loc[p].pc = "defer" /\ loc[p].ok)
    <3>1. game' = d
      BY <2>2 DEF Outgoing
    <3> QED BY <1>1, <3>1 DEF BecomesCompleted, Marked
  <2> QED BY <2>1, <2>2
<1> DEFINE f == [Failed(p) EXCEPT !.fresh = FALSE, !.unsaved = {}]
<1>5. Flows(f) /\ f.fresh = FALSE
  <2>1. Failed(p) \in LocType /\ Flows(Failed(p))
    BY <1>1, FailedType, FailedFlows
  <2>2. /\ f.doc = Failed(p).doc /\ f.mode = Failed(p).mode /\ f.pc = Failed(p).pc
        /\ f.ok = Failed(p).ok /\ f.fresh = FALSE
    BY <2>1 DEF LocType
  <2> HIDE DEF f
  <2> QED BY <2>1, <2>2 DEF Flows, Completing
<1>6. ASSUME NEW r, Flows(r), r.fresh /\ r.doc.status = "Completed" => game'.status = "Completed",
             loc' = [q \in Procs |-> IF q = p THEN r ELSE [loc[q] EXCEPT !.fresh = FALSE]],
             game' = Outgoing(p)
      PROVE  SettleInv'
  <2>1. ASSUME NEW q \in Procs PROVE Flows(loc'[q]) /\ (loc'[q].fresh /\ loc'[q].doc.status = "Completed" => game'.status = "Completed")
    <3>1. CASE q = p
      <4>1. loc'[q] = r
        BY <1>6, <3>1
      <4> QED BY <1>6, <4>1
    <3>2. CASE q # p
      <4>1. loc'[q] = [loc[q] EXCEPT !.fresh = FALSE] /\ loc[q] \in LocType
        BY <1>1, <1>6, <3>2
      <4>2. /\ loc'[q].doc = loc[q].doc /\ loc'[q].mode = loc[q].mode /\ loc'[q].pc = loc[q].pc
            /\ loc'[q].ok = loc[q].ok /\ loc'[q].fresh = FALSE
        BY <4>1 DEF LocType
      <4>3. Flows(loc[q])
        BY DEF SettleInv
      <4> QED BY <4>2, <4>3 DEF Flows, Completing
    <3> QED BY <3>1, <3>2
  <2>2. Winning(game')
    BY <1>2, <1>6
  <2> QED BY <2>1, <2>2 DEF SettleInv, Marked
<1>7. CASE DateMatches(p) /\ game' = Outgoing(p) /\ Written(p)
  <2> DEFINE r == IF go = "rest" THEN Rest(p) ELSE [loc[p] EXCEPT !.pc = go, !.unsaved = {}]
  <2>1. Flows(r) /\ (r.fresh /\ r.doc.status = "Completed" => game'.status = "Completed")
    <3>1. CASE go = "rest"
      BY <3>1, RestFlows
    <3>2. CASE go # "rest"
      <4>1. /\ r.pc = go /\ r.mode = loc[p].mode /\ r.doc = d /\ r.fresh = loc[p].fresh
        BY <1>1, <3>2 DEF LocType
      <4>2. loc[p].pc # "defer" /\ Outgoing(p) = d
        BY <3>2 DEF AfterSave, Outgoing
      <4>3. \/ loc[p].pc \in {"saveEndTime", "saveCollect"} /\ go = "collect"
            \/ loc[p].pc = "saveDetermined" /\ go = "settle"
            \/ loc[p].pc \in {"saveFee", "savePrize"} /\ go = "prize"
            \/ loc[p].pc = "saveRefund" /\ go = "refund"
            \/ loc[p].pc \in {"saveScan", "saveLate"} /\ go = "late"
        BY <1>1, <3>2 DEF Saving, AfterSave
      <4> HIDE DEF r, go, d
      <4>4. CASE loc[p].pc \in {"saveEndTime", "saveCollect"} /\ go = "collect"
        <5>1. loc[p].mode \in {"watch", "api"}
          BY <1>1, <4>4, ModeIs DEF Collecting
        <5> QED BY <1>1, <1>7, <4>1, <4>2, <4>4, <5>1 DEF Flows, Collecting
      <4>5. CASE go \in {"settle", "prize", "refund"}
        <5>1. loc[p].pc \in Paying /\ loc[p].mode = "complete"
          BY <1>1, <4>3, <4>5, ModeIs DEF Paying
        <5>2. Completing(loc[p])
          BY <1>1, <5>1 DEF Flows
        <5>3. Completing(r)
          BY <4>1, <4>3, <4>5, <5>1, <5>2 DEF Completing, Paying, Repaying, d
        <5> QED BY <1>1, <1>7, <4>1, <4>2, <5>1, <5>3 DEF Flows
      <4>6. CASE loc[p].pc \in {"saveScan", "saveLate"} /\ go = "late"
        <5>1. loc[p].mode \in {"complete", "refund"}
          BY <1>1, <4>6, ModeIs DEF Repaying
        <5>2. loc[p].mode = "complete" => Completing(r)
          BY <1>1, <4>1, <4>6 DEF Flows, Completing, Paying, Repaying, d
        <5> QED BY <1>1, <1>7, <4>1, <4>2, <4>6, <5>1, <5>2 DEF Flows, Repaying
      <4> QED BY <4>3, <4>4, <4>5, <4>6
    <3> QED BY <3>1, <3>2
  <2>2. loc' = [q \in Procs |-> IF q = p THEN r ELSE [loc[q] EXCEPT !.fresh = FALSE]]
    BY <1>7 DEF Written
  <2> HIDE DEF r
  <2>3. SettleInv'
    BY <1>6, <1>7, <2>1, <2>2
  <2> QED BY <1>4, <1>7, <2>3 DEF DateMatches
<1>8. CASE NotWritten(p) /\ UNCHANGED game
  <2>1. Goto(p, f)
    BY <1>8 DEF NotWritten
  <2> HIDE DEF f
  <2>2. SettleInv'
    BY <1>5, <1>8, <2>1, CarefulMove DEF Marked
  <2> QED BY <1>8, <2>2 DEF BecomesCompleted
<1>9. CASE /\ DateMatches(p) /\ game' = Outgoing(p)
           /\ LET r == Failed(p)
              IN loc' = [q \in Procs |->
                           IF q = p THEN [r EXCEPT !.fresh = FALSE, !.unsaved = {}]
                           ELSE [loc[q] EXCEPT !.fresh = FALSE]]
  <2>1. loc' = [q \in Procs |-> IF q = p THEN f ELSE [loc[q] EXCEPT !.fresh = FALSE]]
    BY <1>9
  <2> HIDE DEF f
  <2>2. SettleInv'
    BY <1>5, <1>6, <1>9, <2>1
  <2> QED BY <1>4, <1>9, <2>2 DEF DateMatches
<1> QED BY <1>7, <1>8, <1>9 DEF UpdateGame

\* The watch loop.
LEMMA WatchCareful ==
  ASSUME SettleInv, TypeInv', NEW w \in Watchers, Watch(w) PROVE SettleInv'
<1>1. /\ w \in Procs /\ loc[w] \in LocType /\ Flows(loc[w]) /\ Marked(loc[w]) /\ Winning(game)
      /\ game \in DocType
  BY DEF Procs, SettleInv, TypeInv, DocsTyped
<1>2. CASE StartPass(w)
  <2> DEFINE r == Reading("watch", "pass")
  <2>1. r.mode = "watch" /\ r.pc = "pass" /\ r.doc = game
    BY <1>1 DEF Reading, Idle
  <2>2. Goto(w, r) /\ UNCHANGED game
    BY <1>2 DEF StartPass
  <2> HIDE DEF r
  <2>3. Flows(r) /\ Marked(r)
    BY <1>1, <2>1 DEF Flows, Collecting, Marked
  <2> QED BY <1>1, <2>2, <2>3, CarefulMove
<1>3. CASE Dispatch(w)
  <2>1. loc[w].pc = "pass" /\ UNCHANGED game
    BY <1>3 DEF Dispatch
  <2>2. loc[w].mode \in {"watch", "api"}
    BY <1>1, <2>1, ModeIs DEF Collecting
  <2>3. CASE Goto(w, [loc[w] EXCEPT !.pc = "determine", !.mode = "complete"])
    <3> DEFINE r == [loc[w] EXCEPT !.pc = "determine", !.mode = "complete"]
    <3>1. r.pc = "determine" /\ r.mode = "complete" /\ r.doc = loc[w].doc /\ r.fresh = loc[w].fresh
      BY <1>1 DEF LocType
    <3> HIDE DEF r
    <3>2. Flows(r) /\ Marked(r)
      BY <1>1, <3>1 DEF Flows, Completing, Paying, Repaying, Marked
    <3> QED BY <1>1, <2>1, <2>3, <3>2, CarefulMove DEF r
  <2>4. ASSUME NEW pc \in {"collect", "balance"}, Goto(w, [loc[w] EXCEPT !.pc = pc]) PROVE SettleInv'
    <3> DEFINE r == [loc[w] EXCEPT !.pc = pc]
    <3>1. r.pc = pc /\ r.mode = loc[w].mode /\ r.doc = loc[w].doc /\ r.fresh = loc[w].fresh
      BY <1>1 DEF LocType
    <3> HIDE DEF r
    <3>2. Flows(r) /\ Marked(r)
      BY <1>1, <2>2, <3>1 DEF Flows, Collecting, Marked
    <3> QED BY <1>1, <2>1, <2>4, <3>2, CarefulMove DEF r
  <2>5. CASE Goto(w, Rest(w))
    BY <1>1, <2>1, <2>5, RestFlows, CarefulMove DEF Marked
  <2> QED BY <1>3, <2>3, <2>4, <2>5 DEF Dispatch
<1>4. CASE EndPass(w)
  BY <1>1, <1>4, RestFlows, CarefulMove DEF EndPass, Marked
<1> QED BY <1>2, <1>3, <1>4 DEF Watch

\* The handlers.
LEMMA HandlerCareful ==
  ASSUME SettleInv, TypeInv', GameResult \/ EndGame \/ RefundsExpiredPlayers PROVE SettleInv'
<1>1. Handler \in Procs /\ Winning(game) /\ game \in DocType /\ game' = game
  BY Constants DEF SettleInv, TypeInv, DocsTyped, GameResult, EndGame, RefundsExpiredPlayers
<1>2. \A mode, pc : /\ Reading(mode, pc).mode = mode /\ Reading(mode, pc).pc = pc
                    /\ Reading(mode, pc).doc = game
  BY DEF Reading, Idle
<1>3. ASSUME NEW r, NEW d, r.doc = d, r.mode = "api", r.pc \in {"saveOnly", "saveEndTime"}, Goto(Handler, r),
             d.nWinners = game.nWinners, d.win = game.win, d.players = game.players,
             d.status = "Completed" => game.status = "Completed"
      PROVE  SettleInv'
  <2>1. Winning(d)
    BY <1>1, <1>3 DEF Winning
  <2>2. Flows(r) /\ Marked(r)
    BY <1>3, <2>1 DEF Flows, Collecting, Marked
  <2> QED BY <1>1, <1>3, <2>2, CarefulMove
<1>4. CASE GameResult
  <2> DEFINE r == Reading("api", "saveOnly")
  <2>1. PICK a \in Agents \cup {NoAgent} :
          Goto(Handler, [r EXCEPT !.doc.winner = a, !.doc.status = "ResultUpdated",
                                  !.doc.result = @ + 1])
    BY <1>4 DEF GameResult
  <2> DEFINE s == [r EXCEPT !.doc.winner = a, !.doc.status = "ResultUpdated", !.doc.result = @ + 1]
             e == [game EXCEPT !.winner = a, !.status = "ResultUpdated", !.result = @ + 1]
  <2>2. r \in LocType
    <3>1. "api" \in Modes /\ "saveOnly" \in PCs
      BY DEF Modes, PCs, AfterSave
    <3> QED BY <1>1, <3>1, ReadingType
  <2>3. r.mode = "api" /\ r.pc = "saveOnly" /\ r.doc = game
    BY <1>2
  <2> HIDE DEF r
  <2>4. s = [r EXCEPT !.doc = e]
    BY <1>1, <2>2, <2>3 DEF LocType, DocType
  <2>5. e.nWinners = game.nWinners /\ e.win = game.win /\ e.players = game.players /\ e.status = "ResultUpdated"
    BY <1>1 DEF DocType
  <2> HIDE DEF e
  <2>6. s.doc = e /\ s.mode = "api" /\ s.pc = "saveOnly"
    BY <2>2, <2>3, <2>4 DEF LocType
  <2> HIDE DEF s
  <2>7. Goto(Handler, s)
    BY <2>1 DEF s
  <2> QED BY <1>3, <2>5, <2>6, <2>7
<1>5. CASE EndGame
  <2> DEFINE r == Reading("api", "saveEndTime")
             s == [r EXCEPT !.doc.forced = TRUE]
             e == [game EXCEPT !.forced = TRUE]
  <2>1. Goto(Handler, s)
    BY <1>5 DEF EndGame
  <2>2. r \in LocType
    <3>1. "api" \in Modes /\ "saveEndTime" \in PCs
      BY DEF Modes, PCs, AfterSave
    <3> QED BY <1>1, <3>1, ReadingType
  <2>3. r.mode = "api" /\ r.pc = "saveEndTime" /\ r.doc = game
    BY <1>2
  <2> HIDE DEF r
  <2>4. s.doc = e /\ s.mode = "api" /\ s.pc = "saveEndTime"
    BY <2>2, <2>3 DEF LocType
  <2>5. e.nWinners = game.nWinners /\ e.win = game.win /\ e.players = game.players /\ e.status = game.status
    BY <1>1 DEF DocType
  <2> HIDE DEF s, e
  <2> QED BY <1>3, <2>1, <2>4, <2>5
<1>6. CASE RefundsExpiredPlayers
  <2> DEFINE r == Reading("refund", "scanLate")
  <2>1. Goto(Handler, r)
    BY <1>6 DEF RefundsExpiredPlayers
  <2>2. r.mode = "refund" /\ r.pc = "scanLate" /\ r.doc = game
    BY <1>2
  <2> HIDE DEF r
  <2>3. Flows(r) /\ Marked(r)
    BY <1>1, <2>2 DEF Flows, Repaying, Marked
  <2> QED BY <1>1, <2>1, <2>3, CarefulMove
<1> QED BY <1>4, <1>5, <1>6

LEMMA InitCareful == Init => SettleInv
<1> SUFFICES ASSUME Init PROVE SettleInv
  OBVIOUS
<1>1. \A p \in Procs : loc[p] = Idle
  BY DEF Init
<1>2. Winning(game)
  BY DEF Init, NewGame, Winning
<1>3. \A p \in Procs : Flows(loc[p]) /\ Marked(loc[p])
  BY <1>1, RestFlows DEF Marked
<1> QED BY <1>2, <1>3, InitType DEF SettleInv

\* Every step.
LEMMA NextCareful ==
  ASSUME SettleInv, [Next]_vars
  PROVE  SettleInv' /\ (BecomesCompleted => Settled(game') \/ NilClaim(game'))
<1>1. TypeInv'
  BY NextType DEF SettleInv
<1>2. UNCHANGED game => ~BecomesCompleted
  BY DEF BecomesCompleted
<1>3. ASSUME NEW p \in Procs, UpdateGame(p)
      PROVE  SettleInv' /\ (BecomesCompleted => Settled(game') \/ NilClaim(game'))
  BY <1>1, <1>3, UpdateCareful
<1>4. ASSUME NEW p \in Procs, Step(p), ~UpdateGame(p) PROVE SettleInv' /\ UNCHANGED game
  <2>1. SettleInv'
    BY <1>1, <1>4, FlowCareful DEF Step
  <2>2. UNCHANGED game
    BY <1>4 DEF Step, CheckGameBalance, MarkEndGame, MarkCompletedGame, Settle, PrizeToWinners,
                RefundToPlayers, CheckExpiredPlayers, RefundToExpiredPlayers, Local, Transfer
  <2> QED BY <2>1, <2>2
<1>5. ASSUME NEW w \in Watchers, Watch(w) PROVE SettleInv' /\ UNCHANGED game
  BY <1>1, <1>5, WatchCareful DEF Watch, StartPass, Dispatch, EndPass
<1>6. CASE GameResult \/ EndGame \/ RefundsExpiredPlayers
  <2>1. UNCHANGED game
    BY <1>6 DEF GameResult, EndGame, RefundsExpiredPlayers
  <2> QED BY <1>1, <1>2, <1>6, <2>1, HandlerCareful
<1>7. ASSUME NEW p \in Procs, CallFails(p) \/ Crash(p) PROVE SettleInv' /\ UNCHANGED game
  <2>1. UNCHANGED game /\ (Goto(p, Failed(p)) \/ Goto(p, Idle))
    BY <1>7 DEF CallFails, Crash
  <2>2. /\ loc[p] \in LocType /\ Flows(loc[p]) /\ Marked(loc[p])
        /\ Flows(Idle) /\ Marked(Idle)
    BY RestFlows DEF SettleInv, TypeInv, DocsTyped, Marked
  <2> QED BY <1>1, <2>1, <2>2, FailedFlows, CarefulMove
<1>8. CASE PlaceBets \/ ClockTick \/ LockExpires \/ UNCHANGED vars
  <2>1. UNCHANGED <<game, loc>>
    BY <1>8 DEF PlaceBets, ClockTick, LockExpires, vars
  <2> QED BY <1>1, <1>2, <2>1 DEF SettleInv, Marked
<1> QED BY <1>2, <1>3, <1>4, <1>5, <1>6, <1>7, <1>8 DEF Next

\* A game is marked completed only when the fee and every prize, or every refund, and every
\* refund of a late bet is recorded as sent, or one of them was for nothing: the write
\* MarkCompletedGame defers to its end, after every failure and every retry.
THEOREM CompletedIsSettled == Spec => CompletedSettled
<1>1. SettleInv /\ [Next]_vars => SettleInv'
  BY NextCareful
<1>2. SettleInv /\ [Next]_vars => [BecomesCompleted => Settled(game') \/ NilClaim(game')]_vars
  BY NextCareful
<1> QED BY <1>1, <1>2, InitCareful, PTL DEF Spec, CompletedSettled

-----------------------------------------------------------------------------
(* Bets.                                                                    *)

\* The first bets of their senders in each transaction of the blocks f to b.
BetsFrom(f, b) == FirstRecords({i \in Bets : f <= BlockOf[i] /\ BlockOf[i] <= b})

\* The players of a document are these bets from some block to that of the last scan, and
\* from the first block on if the first scan looks back far enough.
Gapless(d) ==
  \E f \in Int : /\ f <= d.block /\ d.players = BetsFrom(f, d.block)
                 /\ NumBlocks <= Lookback => f <= 1

\* What a copy knows of the bets when the chain has h of them and result a is past its
\* buffer.
Known(d, h, a) ==
  /\ Gapless(d) /\ d.block <= h
  /\ d.result <= 1 => d.players \cap d.late = {}
  /\ d.status \in {"ResultUpdated", "Completed"} => d.result >= 1
  /\ d.status = "Completed" => a >= 1
  /\ d.late # {} => d.status # "Running" /\ a >= 1

Scanning(r, h, a) ==
  /\ Known(r.doc, h, a)
  /\ r.pc = "pass" => r.doc.status \in {"Running", "ResultUpdated"}
  /\ r.pc = "balance" /\ r.doc.result <= 1 => r.doc.late = {}
  /\ r.mode = "complete" => r.doc.status = "ResultUpdated" /\ a >= 1
  /\ r.mode = "refund" => r.doc.status = "Completed"

BetsInv ==
  SettleInv /\ Known(game, head, aged) /\ \A p \in Procs : Scanning(loc[p], head, aged)

\* Fields about bets.
SameBets(d, e) ==
  /\ d.players = e.players /\ d.late = e.late /\ d.block = e.block
  /\ d.result = e.result /\ d.status = e.status

LEMMA KnownSame == ASSUME NEW d, NEW e, SameBets(e, d), NEW h, NEW a, Known(d, h, a) PROVE Known(e, h, a)
BY DEF SameBets, Known, Gapless

LEMMA KnownLater ==
  ASSUME NEW d \in DocType, NEW h \in Nat, NEW a \in Nat, NEW h1 \in Nat, NEW a1 \in Nat,
         h <= h1, a <= a1, Known(d, h, a)
  PROVE  Known(d, h1, a1)
<1>1. d.block \in Nat
  BY Constants DEF DocType
<1> QED BY <1>1 DEF Known

\* The transfers of one transaction are in one block.
LEMMA Blocks ==
  /\ \A i \in Bets : BlockOf[i] \in Nat \ {0}
  /\ \A i, j \in Bets : SameRecord(i, j) => BlockOf[i] = BlockOf[j]
  /\ \A i \in Bets : SameRecord(i, i)
<1>1. \A i \in Bets : BlockOf[i] \in 1..NumBlocks
  BY BattleAssumption
<1>2. \A i \in 1..NumBlocks : i \in Nat \ {0}
  BY BattleAssumption
<1>3. \A i, j \in Bets : SameRecord(i, j) => BlockOf[i] = BlockOf[j]
  BY BattleAssumption DEF SameRecord
<1>4. \A i \in Bets : SameRecord(i, i)
  BY DEF SameRecord
<1> QED BY <1>1, <1>2, <1>3, <1>4

\* Whether a bet is the first of its sender in its transaction is settled by its block.
LEMMA FirstInBlock ==
  ASSUME NEW f \in Int, NEW b \in Int
  PROVE  BetsFrom(f, b) = {i \in FirstRecords(Bets) : f <= BlockOf[i] /\ BlockOf[i] <= b}
<1> DEFINE S == {i \in Bets : f <= BlockOf[i] /\ BlockOf[i] <= b}
<1>1. ASSUME NEW i \in S PROVE i \in FirstRecords(S) <=> i \in FirstRecords(Bets)
  <2>1. \A j \in Bets : SameRecord(i, j) => j \in S
    BY Blocks
  <2> QED BY <2>1 DEF FirstRecords
<1>2. BetsFrom(f, b) = FirstRecords(S)
  BY DEF BetsFrom
<1>3. \A i : i \in FirstRecords(S) => i \in S
  BY DEF FirstRecords
<1>4. \A i : i \in FirstRecords(Bets) => i \in Bets
  BY DEF FirstRecords
<1> QED BY <1>1, <1>2, <1>3, <1>4

\* A scan closes up to the head of the chain.
LEMMA ScanGapless ==
  ASSUME NEW d \in DocType, Gapless(d), head \in 0..NumBlocks, d.block <= head,
         NEW e, e.players = d.players \cup NewRecords(FilterTransfer(d), d.players), e.block = head
  PROVE  Gapless(e)
<1>1. d.block \in Nat /\ head \in Nat /\ Lookback \in Nat /\ NumBlocks \in Nat
  BY Constants DEF DocType
<1>2. PICK f \in Int : /\ f <= d.block /\ d.players = BetsFrom(f, d.block)
                       /\ NumBlocks <= Lookback => f <= 1
  BY DEF Gapless
<1>0. f \in Int /\ f <= d.block
  BY <1>2
<1>3. FilterTransfer(d) = {i \in Bets : FromBlock(d) <= BlockOf[i] /\ BlockOf[i] <= head}
  BY DEF FilterTransfer
<1>4. FromBlock(d) \in Int
  BY <1>1 DEF FromBlock
<1>5. NewRecords(FilterTransfer(d), d.players) =
        {i \in BetsFrom(FromBlock(d), head) : \A j \in d.players : ~SameRecord(i, j)}
  BY <1>3 DEF NewRecords, BetsFrom
<1>6. CASE d.block = 0
  <2>1. FromBlock(d) = head - Lookback
    BY <1>6 DEF FromBlock
  <2>2. d.players = {}
    <3>1. \A i \in Bets : ~(f <= BlockOf[i] /\ BlockOf[i] <= 0)
      BY Blocks
    <3>2. {i \in Bets : f <= BlockOf[i] /\ BlockOf[i] <= 0} = {}
      BY <3>1
    <3>3. d.players = FirstRecords({})
      BY <1>2, <1>6, <3>2 DEF BetsFrom
    <3> QED BY <3>3 DEF FirstRecords
  <2>3. e.players = BetsFrom(head - Lookback, head)
    BY <1>5, <2>1, <2>2
  <2>4. /\ head - Lookback \in Int /\ head - Lookback <= head
        /\ NumBlocks <= Lookback => head - Lookback <= 1
    BY <1>1
  <2> QED BY <2>3, <2>4 DEF Gapless
<1>7. CASE d.block # 0
  <2>1. FromBlock(d) = d.block
    BY <1>7 DEF FromBlock
  <2> DEFINE F == FirstRecords(Bets)
  <2>2. /\ d.players = {i \in F : f <= BlockOf[i] /\ BlockOf[i] <= d.block}
        /\ BetsFrom(FromBlock(d), head) = {i \in F : d.block <= BlockOf[i] /\ BlockOf[i] <= head}
        /\ BetsFrom(f, head) = {i \in F : f <= BlockOf[i] /\ BlockOf[i] <= head}
    <3>1. d.block \in Int /\ head \in Int
      BY <1>1
    <3>2. d.players = BetsFrom(f, d.block)
      BY <1>2
    <3> QED BY <1>0, <2>1, <3>1, <3>2, FirstInBlock
  <2>3. F \subseteq Bets
    BY DEF FirstRecords
  <2> HIDE DEF F
  <2>4. ASSUME NEW i \in F, d.block < BlockOf[i], NEW j \in d.players PROVE ~SameRecord(i, j)
    <3>1. j \in Bets /\ i \in Bets /\ BlockOf[j] <= d.block
      BY <2>2, <2>3
    <3>2. BlockOf[i] \in Nat /\ BlockOf[j] \in Nat
      BY <3>1, Blocks
    <3>3. BlockOf[i] # BlockOf[j]
      BY <1>1, <2>4, <3>1, <3>2
    <3> QED BY <3>1, <3>3, Blocks
  <2>5. \A i \in F : BlockOf[i] \in Nat
    BY <2>3, Blocks
  <2>6. ASSUME NEW i \in F PROVE i \in e.players <=> (f <= BlockOf[i] /\ BlockOf[i] <= head)
    <3>1. i \in d.players <=> (f <= BlockOf[i] /\ BlockOf[i] <= d.block)
      BY <2>2
    <3>2. i \in e.players <=>
            \/ i \in d.players
            \/ /\ d.block <= BlockOf[i] /\ BlockOf[i] <= head
               /\ \A j \in d.players : ~SameRecord(i, j)
      BY <1>5, <2>2
    <3>3. CASE BlockOf[i] <= d.block
      <4>1. d.block <= BlockOf[i] => f <= BlockOf[i]
        BY <1>0, <1>1, <2>5
      <4>2. BlockOf[i] <= head
        BY <1>1, <2>5, <3>3
      <4> QED BY <3>1, <3>2, <3>3, <4>1, <4>2
    <3>4. CASE d.block < BlockOf[i]
      <4>1. i \notin d.players /\ d.block <= BlockOf[i] /\ f <= BlockOf[i]
        BY <1>0, <1>1, <2>5, <3>1, <3>4
      <4>2. \A j \in d.players : ~SameRecord(i, j)
        BY <2>4, <3>4
      <4> QED BY <3>2, <4>1, <4>2
    <3> QED BY <1>1, <2>5, <3>3, <3>4
  <2>7. e.players \subseteq F
    BY <1>5, <2>2
  <2>8. e.players = BetsFrom(f, head)
    BY <2>2, <2>6, <2>7
  <2>9. f <= head
    BY <1>0, <1>1
  <2> QED BY <1>2, <2>8, <2>9 DEF Gapless
<1> QED BY <1>6, <1>7

\* A late bet is no player.
LEMMA LateIsNew ==
  ASSUME NEW d \in DocType, NEW K, d.players \subseteq K
  PROVE  NewRecords(FilterTransfer(d), K) \cap d.players = {}
BY DEF NewRecords, SameRecord

\* Processes at rest.
LEMMA RestScans ==
  ASSUME NEW p \in Procs, NEW h \in Nat, NEW a \in Nat
  PROVE  Scanning(Idle, h, a) /\ Scanning(Rest(p), h, a) /\ Known(NewGame, h, a)
<1>1. /\ Idle.mode = "none" /\ Idle.pc = "idle" /\ Idle.doc = NewGame /\ Idle \in LocType
      /\ NewGame.players = {} /\ NewGame.block = 0 /\ NewGame.late = {}
      /\ NewGame.status = "Running" /\ NewGame.result = 0
  BY IdleType DEF Idle, NewGame
<1>2. Known(NewGame, h, a)
  <2>1. \A i \in Bets : ~(BlockOf[i] <= 0)
    BY Blocks
  <2>2. {i \in Bets : 0 <= BlockOf[i] /\ BlockOf[i] <= 0} = {}
    BY <2>1
  <2>3. BetsFrom(0, 0) = {}
    BY <2>2 DEF BetsFrom, FirstRecords
  <2>4. Gapless(NewGame)
    <3>1. 0 \in Int /\ 0 <= 0 /\ (NumBlocks <= Lookback => 0 <= 1)
      OBVIOUS
    <3> QED BY <1>1, <2>3, <3>1 DEF Gapless
  <2> QED BY <1>1, <2>4 DEF Known
<1>3. Rest(p).mode = "none" /\ Rest(p).pc \in {"idle", "done"} /\ Rest(p).doc = NewGame
  BY <1>1 DEF Rest, LocType
<1> QED BY <1>1, <1>2, <1>3 DEF Scanning

\* A later step of the same flow with the same bets.
LEMMA ScansOn ==
  ASSUME NEW r, NEW s, NEW h, NEW a, Scanning(r, h, a), SameBets(s.doc, r.doc), s.mode = r.mode,
         s.pc \notin {"pass", "balance"}
  PROVE  Scanning(s, h, a)
<1>1. Known(s.doc, h, a)
  BY KnownSame DEF Scanning
<1> QED BY <1>1 DEF Scanning, SameBets

LEMMA FailedScans ==
  ASSUME NEW p \in Procs, loc[p] \in LocType, NEW h \in Nat, NEW a \in Nat, Scanning(loc[p], h, a)
  PROVE  Scanning(Failed(p), h, a) /\ Scanning(Panicked(p), h, a)
<1>1. Scanning(Idle, h, a) /\ Scanning(Rest(p), h, a)
  BY RestScans
<1>2. ASSUME NEW ok, NEW r, r = [loc[p] EXCEPT !.pc = "defer", !.ok = ok] PROVE Scanning(r, h, a)
  <2>1. r.pc = "defer" /\ r.mode = loc[p].mode /\ r.doc = loc[p].doc
    BY <1>2 DEF LocType
  <2> QED BY <2>1, ScansOn DEF SameBets
<1>3. [loc[p] EXCEPT !.pc = "defer"] = [loc[p] EXCEPT !.pc = "defer", !.ok = loc[p].ok]
  BY DEF LocType
<1> QED BY <1>1, <1>2, <1>3 DEF Failed, Panicked

\* A step of one process.
LEMMA BetsMove ==
  ASSUME BetsInv, SettleInv', NEW p \in Procs, NEW r, Goto(p, r), UNCHANGED <<game, head, aged>>,
         Scanning(r, head, aged)
  PROVE  BetsInv'
<1>1. loc' = [loc EXCEPT ![p] = r] /\ loc \in [Procs -> LocType]
  BY DEF BetsInv, SettleInv, TypeInv, DocsTyped, Goto
<1>2. \A q \in Procs : Scanning(loc'[q], head, aged)
  <2> TAKE q \in Procs
  <2>1. loc'[q] = IF q = p THEN r ELSE loc[q]
    BY <1>1
  <2> QED BY <2>1 DEF BetsInv
<1> QED BY <1>2 DEF BetsInv

\* What is recorded of transfers is not about bets.
LEMMA RecordSame ==
  ASSUME NEW d \in DocType, NEW item, item[1] \in {"collect", "fee", "prize", "refund", "late"}
  PROVE  SameBets(Record(d, item), d)
<1>1. CASE item[1] = "collect"
  BY <1>1 DEF Record, DocType, SameBets
<1>2. CASE item[1] = "fee"
  BY <1>2 DEF Record, DocType, SameBets
<1>3. CASE item[1] = "prize"
  BY <1>3 DEF Record, DocType, SameBets
<1>4. CASE item[1] = "refund"
  BY <1>4 DEF Record, DocType, SameBets
<1>5. CASE item[1] = "late"
  BY <1>5 DEF Record, DocType, SameBets
<1> QED BY <1>1, <1>2, <1>3, <1>4, <1>5

LEMMA TransferBets ==
  ASSUME BetsInv, SettleInv', NEW p \in Procs, NEW item, NEW next, Transfer(p, item, next),
         item[1] \in {"collect", "fee", "prize", "refund", "late"}, next \notin {"pass", "balance"}
  PROVE  BetsInv'
<1> DEFINE d == loc[p].doc
           r == [loc[p] EXCEPT !.pc = next, !.doc = Record(d, item), !.unsaved = @ \cup {item}]
<1>1. /\ loc[p] \in LocType /\ d \in DocType /\ Scanning(loc[p], head, aged)
      /\ head \in Nat /\ aged \in Nat /\ UNCHANGED <<game, head, aged>>
  BY Constants DEF BetsInv, SettleInv, TypeInv, DocsTyped, WorldTyped, LocType, Transfer, clocks
<1>2. CASE Goto(p, r)
  <2>1. r.pc = next /\ r.mode = loc[p].mode /\ r.doc = Record(d, item)
    BY <1>1 DEF LocType
  <2> HIDE DEF r
  <2>2. SameBets(r.doc, d)
    BY <1>1, <2>1, RecordSame
  <2>3. Scanning(r, head, aged)
    BY <1>1, <2>1, <2>2, ScansOn
  <2> QED BY <1>1, <1>2, <2>3, BetsMove
<1>3. CASE Goto(p, Failed(p)) \/ Goto(p, Panicked(p))
  BY <1>1, <1>3, FailedScans, BetsMove
<1> QED BY <1>2, <1>3 DEF Transfer, d, r

\* A step that changes only the copy and the place in the flow.
LEMMA LocalBets ==
  ASSUME BetsInv, SettleInv', NEW p \in Procs, NEW pc, NEW d, Local(p, pc, d),
         ASSUME NEW r, r.pc = pc, r.doc = d, r.mode = loc[p].mode PROVE Scanning(r, head, aged)
  PROVE  BetsInv'
<1> DEFINE r == [loc[p] EXCEPT !.pc = pc, !.doc = d]
<1>1. loc[p] \in LocType
  BY DEF BetsInv, SettleInv, TypeInv, DocsTyped
<1>2. r.pc = pc /\ r.doc = d /\ r.mode = loc[p].mode
  BY <1>1 DEF LocType
<1>3. Goto(p, r) /\ UNCHANGED <<game, head, aged>>
  BY DEF Local, chain, clocks
<1> HIDE DEF r
<1>4. Scanning(r, head, aged)
  BY <1>2
<1> QED BY <1>3, <1>4, BetsMove

\* The flows.
LEMMA FlowBets ==
  ASSUME BetsInv, SettleInv', NEW p \in Procs,
         \/ CheckGameBalance(p) \/ MarkEndGame(p) \/ MarkCompletedGame(p)
         \/ Settle(p) \/ PrizeToWinners(p) \/ RefundToPlayers(p)
         \/ CheckExpiredPlayers(p) \/ RefundToExpiredPlayers(p)
  PROVE  BetsInv'
<1> DEFINE d == loc[p].doc
           mode == loc[p].mode
<1>1. /\ loc[p] \in LocType /\ d \in DocType /\ Scanning(loc[p], head, aged) /\ Known(d, head, aged)
      /\ head \in 0..NumBlocks /\ NumBlocks \in Nat /\ aged \in Nat /\ Flows(loc[p]) /\ d.result \in Nat
  BY Constants DEF BetsInv, SettleInv, TypeInv, DocsTyped, WorldTyped, LocType, Scanning, DocType
<1>2. ASSUME NEW pc \in {"saveOnly", "saveDetermined", "scanLate", "refund", "prize", "defer"},
             NEW e, Local(p, pc, e), SameBets(e, d)
      PROVE  BetsInv'
  <2>1. ASSUME NEW r, r.pc = pc, r.doc = e, r.mode = mode PROVE Scanning(r, head, aged)
    BY <1>1, <1>2, <2>1, ScansOn
  <2> QED BY <1>2, <2>1, LocalBets
<1>3. SameBets(d, d)
  BY DEF SameBets
<1>4. CASE CheckGameBalance(p)
  <2> DEFINE P == d.players \cup NewRecords(FilterTransfer(d), d.players)
             A == [a \in Agents |-> StakeOf({i \in P : BetOn[i] = a})]
             e == [d EXCEPT !.players = P, !.block = head, !.amount = A]
  <2>1. Local(p, "saveOnly", e) /\ loc[p].pc = "balance"
    BY <1>4 DEF CheckGameBalance
  <2>2. mode \in {"watch", "api"}
    BY <1>1, <2>1, ModeIs DEF Collecting
  <2> HIDE DEF A
  <2>3. /\ e.players = d.players \cup NewRecords(FilterTransfer(d), d.players) /\ e.block = head
        /\ e.late = d.late /\ e.status = d.status /\ e.result = d.result
    BY <1>1 DEF DocType
  <2> HIDE DEF e, d
  <2>4. Gapless(e)
    BY <1>1, <2>3, ScanGapless DEF Known
  <2>5. d.result <= 1 => d.late = {}
    BY <1>1, <2>1 DEF Scanning, d
  <2>6. Known(e, head, aged)
    BY <1>1, <2>3, <2>4, <2>5 DEF Known
  <2>7. ASSUME NEW r, r.pc = "saveOnly", r.doc = e, r.mode = mode PROVE Scanning(r, head, aged)
    BY <2>2, <2>6, <2>7 DEF Scanning
  <2> QED BY <2>1, <2>7, LocalBets
<1>5. CASE MarkEndGame(p)
  <2>1. CASE Uncollected(d) # {} /\ Transfer(p, <<"collect", Min(Uncollected(d))>>, "saveCollect")
    BY <2>1, TransferBets
  <2>2. CASE Local(p, "saveOnly", [d EXCEPT !.status = "Ended"])
    <3> DEFINE e == [d EXCEPT !.status = "Ended"]
    <3>1. loc[p].pc = "collect"
      BY <1>5 DEF MarkEndGame
    <3>2. mode \in {"watch", "api"}
      BY <1>1, <3>1, ModeIs DEF Collecting
    <3>3. /\ e.players = d.players /\ e.block = d.block /\ e.late = d.late /\ e.status = "Ended"
          /\ e.result = d.result
      BY <1>1 DEF DocType
    <3> HIDE DEF e, d
    <3>4. Known(e, head, aged)
      BY <1>1, <3>3 DEF Known, Gapless
    <3>5. ASSUME NEW r, r.pc = "saveOnly", r.doc = e, r.mode = mode PROVE Scanning(r, head, aged)
      BY <3>2, <3>4, <3>5 DEF Scanning
    <3> QED BY <2>2, <3>5, LocalBets DEF e
  <2> QED BY <1>5, <2>1, <2>2 DEF MarkEndGame
<1>6. CASE MarkCompletedGame(p)
  <2>1. SameBets(DeterminePlayerWinner(d), d)
    BY <1>1 DEF SameBets, DeterminePlayerWinner, DocType
  <2> QED BY <1>2, <1>3, <1>6, <2>1 DEF MarkCompletedGame
<1>7. CASE Settle(p)
  <2>1. CASE Local(p, "refund", d) \/ Local(p, "scanLate", d) \/ Local(p, "prize", d)
    BY <1>2, <1>3, <2>1
  <2>2. CASE Transfer(p, <<"fee", 0>>, "saveFee")
    BY <2>2, TransferBets
  <2>3. CASE Goto(p, Panicked(p)) /\ UNCHANGED <<game, lock, chain, clocks, ends, faults, history>>
    BY <1>1, <2>3, FailedScans, BetsMove DEF chain, clocks
  <2> QED BY <1>7, <2>1, <2>2, <2>3 DEF Settle
<1>8. CASE PrizeToWinners(p)
  BY <1>2, <1>3, <1>8, TransferBets DEF PrizeToWinners
<1>9. CASE RefundToPlayers(p)
  <2>1. CASE Local(p, "scanLate", d)
    BY <1>2, <1>3, <2>1
  <2>2. ASSUME NEW i, Transfer(p, <<"refund", i>>, "saveRefund") PROVE BetsInv'
    BY <2>2, TransferBets
  <2> QED BY <1>9, <2>1, <2>2 DEF RefundToPlayers
<1>10. CASE CheckExpiredPlayers(p)
  <2> DEFINE e == [d EXCEPT !.late = @ \cup NewRecords(FilterTransfer(d), d.players \cup @)]
  <2>1. Local(p, "saveScan", e) /\ loc[p].pc = "scanLate"
    BY <1>10 DEF CheckExpiredPlayers
  <2>2. mode \in {"complete", "refund"}
    BY <1>1, <2>1, ModeIs DEF Repaying
  <2>3. d.status \in {"ResultUpdated", "Completed"} /\ aged >= 1
    BY <1>1, <2>2 DEF Scanning, Known
  <2>4. /\ e.players = d.players /\ e.block = d.block /\ e.status = d.status /\ e.result = d.result
        /\ e.late = d.late \cup NewRecords(FilterTransfer(d), d.players \cup d.late)
    BY <1>1 DEF DocType
  <2> HIDE DEF e, d
  <2>5. Known(e, head, aged)
    <3>1. Gapless(e) /\ e.block <= head
      BY <1>1, <2>4 DEF Known, Gapless
    <3>2. e.players \cap e.late = d.players \cap d.late
      BY <1>1, <2>4, LateIsNew
    <3> QED BY <1>1, <2>3, <2>4, <3>1, <3>2 DEF Known
  <2>6. ASSUME NEW r, r.pc = "saveScan", r.doc = e, r.mode = mode PROVE Scanning(r, head, aged)
    BY <1>1, <2>4, <2>5, <2>6 DEF Scanning, d
  <2> QED BY <2>1, <2>6, LocalBets
<1>11. CASE RefundToExpiredPlayers(p)
  <2>1. CASE Local(p, "defer", d)
    BY <1>2, <1>3, <2>1
  <2>2. ASSUME NEW i, Transfer(p, <<"late", i>>, "saveLate") PROVE BetsInv'
    BY <2>2, TransferBets
  <2>3. CASE Goto(p, Idle) /\ UNCHANGED <<game, lock, chain, clocks, ends, faults, history>>
    BY <1>1, <2>3, RestScans, BetsMove DEF chain, clocks
  <2> QED BY <1>11, <2>1, <2>2, <2>3 DEF RefundToExpiredPlayers
<1> QED BY <1>4, <1>5, <1>6, <1>7, <1>8, <1>9, <1>10, <1>11

\* Writing the copy back.
LEMMA UpdateBets ==
  ASSUME BetsInv, SettleInv', NEW p \in Procs, UpdateGame(p) PROVE BetsInv'
<1> DEFINE d == loc[p].doc
           go == AfterSave[loc[p].pc]
           f == [Failed(p) EXCEPT !.fresh = FALSE, !.unsaved = {}]
<1>1. /\ loc \in [Procs -> LocType] /\ loc[p] \in LocType /\ d \in DocType /\ loc[p].pc \in Saving
      /\ Scanning(loc[p], head, aged) /\ Flows(loc[p]) /\ head \in Nat /\ aged \in Nat
      /\ UNCHANGED <<head, aged>>
  BY Constants DEF BetsInv, SettleInv, TypeInv, DocsTyped, WorldTyped, LocType, UpdateGame, Saving,
                   chain, clocks
<1>2. Known(Outgoing(p), head, aged)
  <2>1. CASE loc[p].pc = "defer" /\ loc[p].ok
    <3> DEFINE e == [d EXCEPT !.status = "Completed"]
    <3>1. Outgoing(p) = e
      BY <2>1 DEF Outgoing
    <3>2. /\ e.players = d.players /\ e.block = d.block /\ e.late = d.late /\ e.status = "Completed"
          /\ e.result = d.result
      BY <1>1 DEF DocType
    <3>3. loc[p].mode = "complete"
      BY <1>1, <2>1, ModeIs
    <3>4. d.status = "ResultUpdated" /\ aged >= 1 /\ Known(d, head, aged)
      BY <1>1, <3>3 DEF Scanning
    <3> HIDE DEF e, d
    <3>5. Known(e, head, aged)
      BY <3>2, <3>4 DEF Known, Gapless
    <3> QED BY <3>1, <3>5
  <2>2. CASE ~(loc[p].pc = "defer" /\ loc[p].ok)
    BY <1>1, <2>2 DEF Outgoing, Scanning
  <2> QED BY <2>1, <2>2
<1>3. Scanning(f, head, aged)
  <2>1. Failed(p) \in LocType /\ Scanning(Failed(p), head, aged)
    BY <1>1, FailedType, FailedScans
  <2>2. f.doc = Failed(p).doc /\ f.mode = Failed(p).mode /\ f.pc = Failed(p).pc
    BY <2>1 DEF LocType
  <2> HIDE DEF f
  <2> QED BY <2>1, <2>2 DEF Scanning
<1>4. ASSUME NEW r, Scanning(r, head, aged), game' = Outgoing(p),
             loc' = [q \in Procs |-> IF q = p THEN r ELSE [loc[q] EXCEPT !.fresh = FALSE]]
      PROVE  BetsInv'
  <2>1. ASSUME NEW q \in Procs PROVE Scanning(loc'[q], head, aged)
    <3>1. CASE q = p
      <4>1. loc'[q] = r
        BY <1>4, <3>1
      <4> QED BY <1>4, <4>1
    <3>2. CASE q # p
      <4>1. loc'[q] = [loc[q] EXCEPT !.fresh = FALSE] /\ loc[q] \in LocType
        BY <1>1, <1>4, <3>2
      <4>2. loc'[q].doc = loc[q].doc /\ loc'[q].mode = loc[q].mode /\ loc'[q].pc = loc[q].pc
        BY <4>1 DEF LocType
      <4>3. Scanning(loc[q], head, aged)
        BY DEF BetsInv
      <4> QED BY <4>2, <4>3 DEF Scanning
    <3> QED BY <3>1, <3>2
  <2> QED BY <1>1, <1>2, <1>4, <2>1 DEF BetsInv
<1>5. CASE game' = Outgoing(p) /\ Written(p)
  <2> DEFINE r == IF go = "rest" THEN Rest(p) ELSE [loc[p] EXCEPT !.pc = go, !.unsaved = {}]
  <2>1. Scanning(r, head, aged)
    <3>1. CASE go = "rest"
      BY <1>1, <3>1, RestScans
    <3>2. CASE go # "rest"
      <4>1. r.pc = go /\ r.mode = loc[p].mode /\ r.doc = d
        BY <1>1, <3>2 DEF LocType
      <4>2. go \notin {"pass", "balance"}
        BY <1>1 DEF Saving, AfterSave
      <4> HIDE DEF r, go
      <4> QED BY <1>1, <4>1, <4>2, ScansOn DEF SameBets
    <3> QED BY <3>1, <3>2
  <2>2. loc' = [q \in Procs |-> IF q = p THEN r ELSE [loc[q] EXCEPT !.fresh = FALSE]]
    BY <1>5 DEF Written
  <2> HIDE DEF r
  <2> QED BY <1>4, <1>5, <2>1, <2>2
<1>6. CASE NotWritten(p) /\ UNCHANGED game
  <2>1. Goto(p, f)
    BY <1>6 DEF NotWritten
  <2> HIDE DEF f
  <2> QED BY <1>1, <1>3, <1>6, <2>1, BetsMove
<1>7. CASE /\ game' = Outgoing(p)
           /\ LET r == Failed(p)
              IN loc' = [q \in Procs |->
                           IF q = p THEN [r EXCEPT !.fresh = FALSE, !.unsaved = {}]
                           ELSE [loc[q] EXCEPT !.fresh = FALSE]]
  <2>1. loc' = [q \in Procs |-> IF q = p THEN f ELSE [loc[q] EXCEPT !.fresh = FALSE]]
    BY <1>7
  <2> HIDE DEF f
  <2> QED BY <1>3, <1>4, <1>7, <2>1
<1> QED BY <1>5, <1>6, <1>7 DEF UpdateGame

\* The watch loop.
LEMMA WatchBets ==
  ASSUME BetsInv, SettleInv', NEW w \in Watchers, Watch(w) PROVE BetsInv'
<1>1. /\ w \in Procs /\ loc[w] \in LocType /\ Flows(loc[w]) /\ Scanning(loc[w], head, aged)
      /\ Known(game, head, aged) /\ head \in Nat /\ aged \in Nat /\ loc[w].doc.result \in Nat
  BY Constants DEF Procs, BetsInv, SettleInv, TypeInv, DocsTyped, WorldTyped, LocType, DocType
<1>2. CASE StartPass(w)
  <2> DEFINE r == Reading("watch", "pass")
  <2>1. r.mode = "watch" /\ r.pc = "pass" /\ r.doc = game
    BY DEF Reading, Idle
  <2>2. Goto(w, r) /\ UNCHANGED <<game, head, aged>> /\ game.status \in {"Running", "ResultUpdated"}
    BY <1>2 DEF StartPass, chain, clocks
  <2> HIDE DEF r
  <2>3. Scanning(r, head, aged)
    BY <1>1, <2>1, <2>2 DEF Scanning
  <2> QED BY <1>1, <2>2, <2>3, BetsMove
<1>3. CASE Dispatch(w)
  <2> DEFINE d == loc[w].doc
  <2>1. loc[w].pc = "pass" /\ UNCHANGED <<game, head, aged>>
    BY <1>3 DEF Dispatch, chain, clocks
  <2>2. loc[w].mode \in {"watch", "api"} /\ d.status \in {"Running", "ResultUpdated"} /\ Known(d, head, aged)
    BY <1>1, <2>1, ModeIs DEF Collecting, Scanning
  <2>3. CASE d.status = "ResultUpdated" /\ d.result <= aged
             /\ Goto(w, [loc[w] EXCEPT !.pc = "determine", !.mode = "complete"])
    <3> DEFINE r == [loc[w] EXCEPT !.pc = "determine", !.mode = "complete"]
    <3>1. r.pc = "determine" /\ r.mode = "complete" /\ r.doc = d
      BY <1>1 DEF LocType
    <3> HIDE DEF r
    <3>2. aged >= 1
      BY <1>1, <2>2, <2>3 DEF Known
    <3>3. Scanning(r, head, aged)
      BY <2>2, <2>3, <3>1, <3>2 DEF Scanning
    <3> QED BY <1>1, <2>1, <2>3, <3>3, BetsMove DEF r
  <2>4. ASSUME NEW pc \in {"collect", "balance"}, Goto(w, [loc[w] EXCEPT !.pc = pc]),
               ~(d.status = "ResultUpdated" /\ d.result <= aged)
        PROVE BetsInv'
    <3> DEFINE r == [loc[w] EXCEPT !.pc = pc]
    <3>1. r.pc = pc /\ r.mode = loc[w].mode /\ r.doc = d
      BY <1>1 DEF LocType
    <3> HIDE DEF r
    <3>2. d.result <= 1 => d.late = {}
      <4> SUFFICES ASSUME d.result <= 1, d.late # {} PROVE FALSE
        OBVIOUS
      <4>1. d.status = "ResultUpdated" /\ aged >= 1
        BY <2>2 DEF Known
      <4> QED BY <1>1, <2>4, <4>1
    <3>3. Scanning(r, head, aged)
      BY <2>2, <3>1, <3>2 DEF Scanning
    <3> QED BY <1>1, <2>1, <2>4, <3>3, BetsMove DEF r
  <2>5. CASE Goto(w, Rest(w))
    BY <1>1, <2>1, <2>5, RestScans, BetsMove
  <2> QED BY <1>3, <2>3, <2>4, <2>5 DEF Dispatch, ResultDue, Overdue
<1>4. CASE EndPass(w)
  BY <1>1, <1>4, RestScans, BetsMove DEF EndPass, chain, clocks
<1> QED BY <1>2, <1>3, <1>4 DEF Watch

\* The handlers.
LEMMA HandlerBets ==
  ASSUME BetsInv, SettleInv', GameResult \/ EndGame \/ RefundsExpiredPlayers PROVE BetsInv'
<1>1. /\ Handler \in Procs /\ game \in DocType /\ Known(game, head, aged) /\ game.result \in Nat
      /\ UNCHANGED <<game, head, aged>>
  <2>1. UNCHANGED <<game, head, aged>>
    BY DEF GameResult, EndGame, RefundsExpiredPlayers, chain, clocks
  <2>2. game \in DocType /\ Known(game, head, aged)
    BY DEF BetsInv, SettleInv, TypeInv, DocsTyped
  <2>3. game.result \in Nat
    BY <2>2, Constants DEF DocType
  <2> QED BY <2>1, <2>2, <2>3, Constants
<1>2. \A mode, pc : /\ Reading(mode, pc).mode = mode /\ Reading(mode, pc).pc = pc
                    /\ Reading(mode, pc).doc = game
  BY DEF Reading, Idle
<1>3. ASSUME NEW r, r.mode = "api", r.pc \in {"saveOnly", "saveEndTime"}, Goto(Handler, r),
             Known(r.doc, head, aged)
      PROVE  BetsInv'
  <2>1. Scanning(r, head, aged)
    BY <1>3 DEF Scanning
  <2> QED BY <1>1, <1>3, <2>1, BetsMove
<1>4. CASE GameResult
  <2> DEFINE r == Reading("api", "saveOnly")
  <2>1. PICK a \in Agents \cup {NoAgent} :
          Goto(Handler, [r EXCEPT !.doc.winner = a, !.doc.status = "ResultUpdated",
                                  !.doc.result = @ + 1])
    BY <1>4 DEF GameResult
  <2> DEFINE s == [r EXCEPT !.doc.winner = a, !.doc.status = "ResultUpdated", !.doc.result = @ + 1]
             e == [game EXCEPT !.winner = a, !.status = "ResultUpdated", !.result = @ + 1]
  <2>2. r \in LocType
    <3>1. "api" \in Modes /\ "saveOnly" \in PCs
      BY DEF Modes, PCs, AfterSave
    <3> QED BY <1>1, <3>1, ReadingType
  <2>3. r.mode = "api" /\ r.pc = "saveOnly" /\ r.doc = game
    BY <1>2
  <2> HIDE DEF r
  <2>4. s = [r EXCEPT !.doc = e]
    BY <1>1, <2>2, <2>3 DEF LocType, DocType
  <2>5. /\ e.players = game.players /\ e.block = game.block /\ e.late = game.late
        /\ e.status = "ResultUpdated" /\ e.result = game.result + 1
    BY <1>1 DEF DocType
  <2> HIDE DEF e
  <2>6. s.doc = e /\ s.mode = "api" /\ s.pc = "saveOnly"
    BY <2>2, <2>3, <2>4 DEF LocType
  <2> HIDE DEF s
  <2>7. Goto(Handler, s)
    BY <2>1 DEF s
  <2>8. Known(e, head, aged)
    BY <1>1, <2>5 DEF Known, Gapless
  <2> QED BY <1>3, <2>6, <2>7, <2>8
<1>5. CASE EndGame
  <2> DEFINE r == Reading("api", "saveEndTime")
             s == [r EXCEPT !.doc.forced = TRUE]
             e == [game EXCEPT !.forced = TRUE]
  <2>1. Goto(Handler, s)
    BY <1>5 DEF EndGame
  <2>2. r \in LocType
    <3>1. "api" \in Modes /\ "saveEndTime" \in PCs
      BY DEF Modes, PCs, AfterSave
    <3> QED BY <1>1, <3>1, ReadingType
  <2>3. r.mode = "api" /\ r.pc = "saveEndTime" /\ r.doc = game
    BY <1>2
  <2> HIDE DEF r
  <2>4. s.doc = e /\ s.mode = "api" /\ s.pc = "saveEndTime"
    BY <2>2, <2>3 DEF LocType
  <2>5. SameBets(e, game)
    BY <1>1 DEF SameBets, DocType
  <2> HIDE DEF s, e
  <2>6. Known(e, head, aged)
    BY <1>1, <2>5, KnownSame
  <2> QED BY <1>3, <2>1, <2>4, <2>6
<1>6. CASE RefundsExpiredPlayers
  <2> DEFINE r == Reading("refund", "scanLate")
  <2>1. Goto(Handler, r) /\ game.status = "Completed"
    BY <1>6 DEF RefundsExpiredPlayers
  <2>2. r.mode = "refund" /\ r.pc = "scanLate" /\ r.doc = game
    BY <1>2
  <2> HIDE DEF r
  <2>3. Scanning(r, head, aged)
    BY <1>1, <2>1, <2>2 DEF Scanning
  <2> QED BY <1>1, <2>1, <2>3, BetsMove
<1> QED BY <1>4, <1>5, <1>6

\* More bets and later results.
LEMMA WorldBets ==
  ASSUME BetsInv, SettleInv', PlaceBets \/ ClockTick \/ LockExpires \/ UNCHANGED vars PROVE BetsInv'
<1>1. UNCHANGED <<game, loc>>
  BY DEF PlaceBets, ClockTick, LockExpires, vars
<1>2. /\ game \in DocType /\ game.result \in Nat /\ \A p \in Procs : loc[p].doc \in DocType
      /\ head \in Nat /\ aged \in Nat
  BY Constants DEF BetsInv, SettleInv, TypeInv, DocsTyped, WorldTyped, LocType, DocType
<1>3. head' \in Nat /\ aged' \in Nat /\ head <= head' /\ aged <= aged'
  <2>1. head' = head \/ head' = head + 1
    BY DEF PlaceBets, ClockTick, LockExpires, vars, chain
  <2>2. aged' = aged \/ (aged' = game.result /\ aged < game.result)
    BY DEF PlaceBets, ClockTick, LockExpires, vars, clocks
  <2> QED BY <1>2, <2>1, <2>2
<1>4. Known(game, head', aged')
  BY <1>2, <1>3, KnownLater DEF BetsInv
<1>5. ASSUME NEW p \in Procs PROVE Scanning(loc[p], head', aged')
  <2>1. Scanning(loc[p], head, aged)
    BY DEF BetsInv
  <2>2. Known(loc[p].doc, head', aged')
    BY <1>2, <1>3, <2>1, KnownLater DEF Scanning
  <2> QED BY <1>2, <1>3, <2>1, <2>2 DEF Scanning
<1> QED BY <1>1, <1>4, <1>5 DEF BetsInv

LEMMA InitBets == Init => BetsInv
<1> SUFFICES ASSUME Init PROVE BetsInv
  OBVIOUS
<1>1. (\A p \in Procs : loc[p] = Idle) /\ game = NewGame /\ head = 0 /\ aged = 0
  BY DEF Init
<1>2. Handler \in Procs /\ 0 \in Nat
  BY Constants
<1> QED BY <1>1, <1>2, InitCareful, RestScans DEF BetsInv

\* Every step.
LEMMA NextBets == ASSUME BetsInv, [Next]_vars PROVE BetsInv'
<1>1. SettleInv'
  BY NextCareful DEF BetsInv
<1>2. ASSUME NEW p \in Procs, Step(p) PROVE BetsInv'
  BY <1>1, <1>2, UpdateBets, FlowBets DEF Step
<1>3. ASSUME NEW w \in Watchers, Watch(w) PROVE BetsInv'
  BY <1>1, <1>3, WatchBets
<1>4. ASSUME NEW p \in Procs, CallFails(p) \/ Crash(p) PROVE BetsInv'
  <2>1. UNCHANGED <<game, head, aged>> /\ (Goto(p, Failed(p)) \/ Goto(p, Idle))
    BY <1>4 DEF CallFails, Crash, chain, clocks
  <2>2. loc[p] \in LocType /\ Scanning(loc[p], head, aged) /\ head \in Nat /\ aged \in Nat
    BY Constants DEF BetsInv, SettleInv, TypeInv, DocsTyped, WorldTyped
  <2> QED BY <1>1, <2>1, <2>2, RestScans, FailedScans, BetsMove
<1> QED BY <1>1, <1>2, <1>3, <1>4, HandlerBets, WorldBets DEF Next

\* The players are exactly the senders' first bets in each transaction up to the block of
\* the last scan, none skipped and none taken twice, and until a second result is given none
\* is both played and refunded as late: when the first scan looks back over all the blocks
\* there are (the last "lookback" ones).
THEOREM BetsAreFollowed == Spec => [](NumBlocks <= Lookback => BetsFollowed)
<1>1. BetsInv => (NumBlocks <= Lookback => BetsFollowed)
  <2> SUFFICES ASSUME BetsInv, NumBlocks <= Lookback PROVE BetsFollowed
    OBVIOUS
  <2>1. Gapless(game) /\ (game.result <= 1 => game.players \cap game.late = {})
    BY DEF BetsInv, Known
  <2>2. PICK f \in Int : f <= 1 /\ game.players = BetsFrom(f, game.block)
    <3>1. PICK f \in Int : /\ game.players = BetsFrom(f, game.block)
                           /\ NumBlocks <= Lookback => f <= 1
      BY <2>1 DEF Gapless
    <3> QED BY <3>1
  <2>3. \A i \in Bets : f <= BlockOf[i]
    <3>1. \A i \in Bets : BlockOf[i] >= 1
      BY Blocks
    <3> QED BY <2>2, <3>1, Blocks
  <2>4. {i \in Bets : f <= BlockOf[i] /\ BlockOf[i] <= game.block} =
          {i \in Bets : BlockOf[i] <= game.block}
    BY <2>3
  <2> QED BY <2>1, <2>2, <2>4 DEF BetsFrom, BetsFollowed
<1>2. BetsInv /\ [Next]_vars => BetsInv'
  BY NextBets
<1> QED BY <1>1, <1>2, InitBets, PTL DEF Spec

\* However far it looks back, the players are all the senders' first bets in a transaction
\* from one block to that of the last scan, and none of them is refunded as late before a
\* second result is given.
THEOREM ScansAreGapless ==
  Spec => [](Gapless(game) /\ (game.result <= 1 => game.players \cap game.late = {}))
<1>1. BetsInv => (Gapless(game) /\ (game.result <= 1 => game.players \cap game.late = {}))
  BY DEF BetsInv, Known
<1>2. BetsInv /\ [Next]_vars => BetsInv'
  BY NextBets
<1> QED BY <1>1, <1>2, InitBets, PTL DEF Spec

-----------------------------------------------------------------------------
(* Money.                                                                   *)

\* What the fee, the prizes and the refunds are worked out from.
SamePlan(d, e) ==
  /\ d.players = e.players /\ d.amount = e.amount /\ d.winner = e.winner /\ d.win = e.win
  /\ d.nWinners = e.nWinners /\ d.betWinners = e.betWinners /\ d.fee = e.fee /\ d.pool = e.pool

\* To determine the winners again changes nothing.
Fixed(d) == SamePlan(DeterminePlayerWinner(d), d)

\* What is true of a document when its time is up or not (t): stakes are collected only
\* when it is over, and up to the first result only bets on the winner win.
Backed(d, t) ==
  /\ d.moved # {} => (d.forced \/ t)
  /\ d.status = "Running" => d.result = 0
  /\ d.result = 0 => d.win = {}
  /\ d.result <= 1 => \A i \in d.win : i \in d.players /\ BetOn[i] = d.winner

\* What is true of a process with record r when the document is g: no bet is added once
\* stakes are collected, and a copy that can be written is not behind the document.
Following(r, g, t) ==
  /\ Backed(r.doc, t)
  /\ r.pc = "balance" => r.doc.moved = {}
  /\ r.pc \in {"collect", "saveCollect"} => (r.doc.forced \/ t)
  /\ r.pc = "saveEndTime" => r.doc.forced
  /\ r.pc = "saveDetermined" => Fixed(r.doc)
  /\ r.fresh => /\ r.doc.result >= g.result
                /\ r.pc # "saveDetermined" => r.doc.nWinners = g.nWinners

\* The transfers drawn on the game's wallet, and what is past the point where they may begin.
Outs == {<<"fee", 0>>} \cup ({"prize", "refund"} \X Bets)
Past(r) == r.pc \in {"settle", "saveFee", "prize", "savePrize", "refund", "saveRefund"}
Begun == game.nWinners # 0 \/ (\E p \in Procs : Past(loc[p])) \/ (\E c \in Outs : paid[c] # 0)

\* Whoever may pay, and whoever may write before a second result, has the plan of document g.
Agrees(r, g) ==
  /\ Past(r) => SamePlan(r.doc, g)
  /\ r.fresh /\ r.doc.result <= 1 => SamePlan(r.doc, g) /\ r.pc # "balance"

Owed(c, g) ==
  IF c[1] = "refund" THEN g.nWinners = 0
  ELSE g.nWinners # 0 /\ (c[1] = "prize" => c[2] \in g.win)

\* Once the winners are determined, the plan stays what it is until a second result.
Frozen ==
  game.result <= 1 /\ Begun =>
    /\ game.result = 1 /\ aged >= 1 /\ Fixed(game)
    /\ \A p \in Procs : Agrees(loc[p], game)
    /\ \A c \in Outs : paid[c] # 0 => Owed(c, game)

\* What has left the game's wallet when f[c] transfers c were made, and what has come in.
Spent(g, f) == SumFunctionOnSet([c \in Outs |-> f[c] * Amount(g, c)], Outs)
Collected(d) == SumFunctionOnSet(d.amount, d.moved)
Funded(d, m) == d.result <= 1 => Collected(d) <= m

\* What is recorded as collected is in the wallet or was spent.
Ledger ==
  game.result <= 1 =>
    /\ Funded(game, gameBal + Spent(game, paid))
    /\ \A p \in Procs : loc[p].fresh => Funded(loc[p].doc, gameBal + Spent(game, paid))

SolventInv ==
  /\ BetsInv /\ Backed(game, timeUp)
  /\ \A p \in Procs : Following(loc[p], game, timeUp)
  /\ Frozen /\ Ledger

-----------------------------------------------------------------------------
(* Plans.                                                                   *)

\* Determining the winners.
LEMMA DetermineIs ==
  ASSUME NEW d \in DocType, NEW e, e = DeterminePlayerWinner(d)
  PROVE  /\ e \in DocType
         /\ e.players = d.players /\ e.amount = d.amount /\ e.winner = d.winner
         /\ e.moved = d.moved /\ e.forced = d.forced /\ e.status = d.status /\ e.result = d.result
         /\ d.winner = NoAgent => e = d
         /\ d.winner # NoAgent =>
              /\ e.win = d.win \cup {i \in d.players : BetOn[i] = d.winner}
              /\ e.nWinners = Cardinality({i \in d.players : BetOn[i] = d.winner})
              /\ e.betWinners = StakeOf({i \in d.players : BetOn[i] = d.winner})
              /\ e.fee = RoundDiv(Total(d) * FeePct, 100)
              /\ e.pool = Total(d) - RoundDiv(Total(d) * FeePct, 100)
<1> DEFINE W == {i \in d.players : BetOn[i] = d.winner}
           fee == RoundDiv(Total(d) * FeePct, 100)
<1>1. e \in DocType
  BY DetermineType
<1>2. e = IF d.winner = NoAgent THEN d
          ELSE [d EXCEPT !.win = @ \cup W, !.nWinners = Cardinality(W),
                         !.betWinners = StakeOf(W), !.fee = fee, !.pool = Total(d) - fee]
  BY DEF DeterminePlayerWinner
<1> HIDE DEF W, fee
<1>3. CASE d.winner = NoAgent
  BY <1>1, <1>2, <1>3
<1>4. CASE d.winner # NoAgent
  <2>1. /\ e.players = d.players /\ e.amount = d.amount /\ e.winner = d.winner
        /\ e.moved = d.moved /\ e.forced = d.forced /\ e.status = d.status /\ e.result = d.result
        /\ e.win = d.win \cup W /\ e.nWinners = Cardinality(W) /\ e.betWinners = StakeOf(W)
        /\ e.fee = fee /\ e.pool = Total(d) - fee
    BY <1>2, <1>4 DEF DocType
  <2> QED BY <1>1, <1>4, <2>1 DEF W, fee
<1> QED BY <1>3, <1>4

\* It is the plan that decides on it,
LEMMA PlanDecides ==
  ASSUME NEW d \in DocType, NEW e \in DocType, SamePlan(d, e)
  PROVE  SamePlan(DeterminePlayerWinner(d), DeterminePlayerWinner(e))
<1> DEFINE dd == DeterminePlayerWinner(d)
           ee == DeterminePlayerWinner(e)
           W(x) == {i \in x.players : BetOn[i] = x.winner}
<1>1. W(d) = W(e) /\ Total(d) = Total(e)
  BY DEF SamePlan, Total
<1>2. CASE d.winner = NoAgent
  <2>1. dd = d /\ ee = e
    BY <1>2 DEF SamePlan, DeterminePlayerWinner
  <2> QED BY <2>1
<1>3. CASE d.winner # NoAgent
  <2>0. e.winner # NoAgent
    BY <1>3 DEF SamePlan
  <2>1. /\ dd.players = d.players /\ dd.amount = d.amount /\ dd.winner = d.winner
        /\ dd.win = d.win \cup W(d) /\ dd.nWinners = Cardinality(W(d)) /\ dd.betWinners = StakeOf(W(d))
        /\ dd.fee = RoundDiv(Total(d) * FeePct, 100)
        /\ dd.pool = Total(d) - RoundDiv(Total(d) * FeePct, 100)
    BY <1>3, DetermineIs
  <2>2. /\ ee.players = e.players /\ ee.amount = e.amount /\ ee.winner = e.winner
        /\ ee.win = e.win \cup W(e) /\ ee.nWinners = Cardinality(W(e)) /\ ee.betWinners = StakeOf(W(e))
        /\ ee.fee = RoundDiv(Total(e) * FeePct, 100)
        /\ ee.pool = Total(e) - RoundDiv(Total(e) * FeePct, 100)
    BY <2>0, DetermineIs
  <2> HIDE DEF dd, ee, W
  <2>3. SamePlan(dd, ee)
    BY <1>1, <2>1, <2>2 DEF SamePlan
  <2> QED BY <2>3 DEF dd, ee
<1> QED BY <1>2, <1>3

\* and once is enough.
LEMMA DetermineFixes == ASSUME NEW d \in DocType PROVE Fixed(DeterminePlayerWinner(d))
<1> DEFINE W(x) == {i \in x.players : BetOn[i] = x.winner}
<1>1. PICK e : e = DeterminePlayerWinner(d)
  OBVIOUS
<1>2. PICK f : f = DeterminePlayerWinner(e)
  OBVIOUS
<1>3. e \in DocType /\ e.players = d.players /\ e.amount = d.amount /\ e.winner = d.winner
  BY <1>1, DetermineIs
<1>4. W(e) = W(d) /\ Total(e) = Total(d)
  BY <1>3 DEF Total
<1>5. CASE d.winner = NoAgent
  <2>1. f = e
    BY <1>2, <1>3, <1>5 DEF DeterminePlayerWinner
  <2> QED BY <1>1, <1>2, <2>1 DEF Fixed, SamePlan
<1>6. CASE d.winner # NoAgent
  <2>1. /\ e.win = d.win \cup W(d) /\ e.nWinners = Cardinality(W(d)) /\ e.betWinners = StakeOf(W(d))
        /\ e.fee = RoundDiv(Total(d) * FeePct, 100)
        /\ e.pool = Total(d) - RoundDiv(Total(d) * FeePct, 100)
    BY <1>1, <1>6, DetermineIs
  <2>2. /\ f.players = e.players /\ f.amount = e.amount /\ f.winner = e.winner
        /\ f.win = e.win \cup W(e) /\ f.nWinners = Cardinality(W(e)) /\ f.betWinners = StakeOf(W(e))
        /\ f.fee = RoundDiv(Total(e) * FeePct, 100)
        /\ f.pool = Total(e) - RoundDiv(Total(e) * FeePct, 100)
    BY <1>2, <1>3, <1>6, DetermineIs
  <2> HIDE DEF W
  <2>3. f.win = e.win
    BY <1>4, <2>1, <2>2
  <2>4. SamePlan(f, e)
    BY <1>4, <2>1, <2>2, <2>3 DEF SamePlan
  <2> QED BY <1>1, <1>2, <2>4 DEF Fixed
<1> QED BY <1>5, <1>6

LEMMA PlanFixed ==
  ASSUME NEW d \in DocType, NEW e \in DocType, SamePlan(d, e), Fixed(e)
  PROVE  Fixed(d) /\ SamePlan(DeterminePlayerWinner(d), e)
<1>1. SamePlan(DeterminePlayerWinner(d), DeterminePlayerWinner(e))
  BY PlanDecides
<1> QED BY <1>1 DEF Fixed, SamePlan

\* The amounts of the transfers depend on nothing else.
LEMMA PlanAmount ==
  ASSUME NEW d, NEW e, SamePlan(d, e), NEW c \in Outs
  PROVE  Amount(d, c) = Amount(e, c)
<1>1. CASE c = <<"fee", 0>>
  BY <1>1 DEF Amount, SamePlan
<1>2. CASE c \in {"refund"} \X Bets
  <2>1. c[1] = "refund"
    BY <1>2
  <2> QED BY <2>1 DEF Amount, SamePlan
<1>3. CASE c \in {"prize"} \X Bets
  <2>1. c[1] = "prize"
    BY <1>3
  <2>2. \A i : Share(d, i) = Share(e, i)
    BY DEF Share, SamePlan
  <2>3. \A i : PrizeAmount(d, i) = PrizeAmount(e, i)
    <3> TAKE i
    <3> DEFINE S == {j \in d.win : j < i}
    <3>1. S = {j \in e.win : j < i}
      BY DEF SamePlan
    <3>2. [j \in S |-> Share(d, j)] = [j \in S |-> Share(e, j)]
      BY <2>2
    <3> HIDE DEF S
    <3> QED BY <2>2, <3>1, <3>2 DEF PrizeAmount, SamePlan, S
  <2> QED BY <2>1, <2>3 DEF Amount
<1> QED BY <1>1, <1>2, <1>3 DEF Outs

-----------------------------------------------------------------------------
(* Sums of money.                                                           *)

\* The transfers drawn on the game's wallet are finitely many.
LEMMA OutsAre == Outs \in SUBSET Items /\ IsFiniteSet(Outs)
<1>1. IsFiniteSet({"prize", "refund"} \X Bets)
  <2>1. IsFiniteSet({"prize", "refund"})
    <3>1. IsFiniteSet({"prize"})
      BY FS_Singleton
    <3>2. {"prize", "refund"} = {"prize"} \cup {"refund"}
      OBVIOUS
    <3> QED BY <3>1, <3>2, FS_AddElement
  <2> QED BY <2>1, Constants, FS_Product
<1>2. Outs = ({"prize", "refund"} \X Bets) \cup {<<"fee", 0>>}
  BY DEF Outs
<1>3. IsFiniteSet(Outs)
  BY <1>1, <1>2, FS_AddElement
<1>4. Outs \subseteq Items
  BY DEF Outs, Items
<1> QED BY <1>3, <1>4

\* The money spent is a natural,
LEMMA SpentIsNat ==
  ASSUME NEW g \in DocType, NEW f \in [Items -> Nat]
  PROVE  /\ Spent(g, f) \in Nat
         /\ \A c \in Outs : f[c] \in Nat /\ Amount(g, c) \in Nat /\ f[c] * Amount(g, c) \in Nat
<1>1. ASSUME NEW c \in Outs PROVE f[c] \in Nat /\ Amount(g, c) \in Nat /\ f[c] * Amount(g, c) \in Nat
  <2>1. f[c] \in Nat /\ Amount(g, c) \in Nat
    BY OutsAre, AmountIsNat
  <2> QED BY <2>1
<1> DEFINE h == [c \in Outs |-> f[c] * Amount(g, c)]
<1>2. \A c \in Outs : h[c] \in Nat
  BY <1>1
<1> HIDE DEF h
<1>3. SumFunctionOnSet(h, Outs) \in Nat
  BY <1>2, OutsAre, SumOfNaturals
<1> QED BY <1>1, <1>3 DEF Spent, h

\* nothing when nothing was sent,
LEMMA NothingSpent ==
  ASSUME NEW g \in DocType, NEW f \in [Items -> Nat], \A c \in Outs : f[c] = 0
  PROVE  Spent(g, f) = 0
<1> DEFINE h == [c \in Outs |-> f[c] * Amount(g, c)]
<1>1. ASSUME NEW c \in Outs PROVE h[c] = 0
  <2>1. f[c] = 0 /\ Amount(g, c) \in Nat
    BY SpentIsNat
  <2> QED BY <2>1
<1> HIDE DEF h
<1>2. SumFunctionOnSet(h, Outs) = 0
  BY <1>1, OutsAre, SumOfZeros
<1> QED BY <1>2 DEF Spent, h

\* the same by any document with the same plan,
LEMMA SpentSame ==
  ASSUME NEW d \in DocType, NEW e \in DocType, SamePlan(d, e), NEW f \in [Items -> Nat], NEW h \in [Items -> Nat],
         \A c \in Outs : f[c] = h[c]
  PROVE  Spent(d, f) = Spent(e, h)
<1>1. [c \in Outs |-> f[c] * Amount(d, c)] = [c \in Outs |-> h[c] * Amount(e, c)]
  <2> SUFFICES ASSUME NEW c \in Outs PROVE f[c] * Amount(d, c) = h[c] * Amount(e, c)
    OBVIOUS
  <2>1. Amount(d, c) = Amount(e, c)
    BY PlanAmount
  <2> QED BY <2>1
<1> QED BY <1>1 DEF Spent

\* and one transfer more spends its amount.
LEMMA SpentMore ==
  ASSUME NEW g \in DocType, NEW f \in [Items -> Nat], NEW item \in Outs
  PROVE  Spent(g, Bump(f, {item})) = Spent(g, f) + Amount(g, item)
<1> DEFINE h == Bump(f, {item})
           a == [c \in Outs |-> f[c] * Amount(g, c)]
           b == [c \in Outs |-> h[c] * Amount(g, c)]
<1>1. h \in [Items -> Nat] /\ \A c \in Outs : h[c] = f[c] + (IF c = item THEN 1 ELSE 0)
  BY BumpType, OutsAre DEF Bump
<1> HIDE DEF h
<1>2. \A c \in Outs : a[c] \in Int /\ b[c] \in Int
  BY <1>1, SpentIsNat
<1>3. ASSUME NEW c \in Outs \ {item} PROVE b[c] = a[c]
  <2>1. h[c] = f[c]
    BY <1>1, SpentIsNat
  <2> QED BY <2>1
<1>4. b[item] - a[item] = Amount(g, item)
  <2>1. h[item] = f[item] + 1 /\ f[item] \in Nat /\ Amount(g, item) \in Nat
    BY <1>1, SpentIsNat
  <2>2. ASSUME NEW x \in Nat, NEW y \in Nat PROVE (x + 1) * y - x * y = y
    OBVIOUS
  <2>3. a[item] = f[item] * Amount(g, item) /\ b[item] = (f[item] + 1) * Amount(g, item)
    BY <2>1
  <2> HIDE DEF a, b
  <2> QED BY <2>1, <2>2, <2>3
<1> HIDE DEF a, b
<1>5. SumFunctionOnSet(b, Outs) = SumFunctionOnSet(a, Outs) + (b[item] - a[item])
  BY <1>2, <1>3, OutsAre, SumChange
<1>6. SumFunctionOnSet(b, Outs) = SumFunctionOnSet(a, Outs) + Amount(g, item)
  BY <1>4, <1>5, Zenon
<1> QED BY <1>6 DEF Spent, a, b, h

\* What is collected is a natural, and grows with each agent.
LEMMA CollectedIs ==
  ASSUME NEW d \in DocType
  PROVE  /\ Collected(d) \in Nat
         /\ d.moved = {} => Collected(d) = 0
<1>1. d.moved \in SUBSET Agents /\ \A a \in Agents : d.amount[a] \in Nat
  BY DEF DocType
<1>2. IsFiniteSet(d.moved) /\ \A a \in d.moved : d.amount[a] \in Nat
  BY <1>1, Constants, FS_Subset
<1>3. SumFunctionOnSet(d.amount, d.moved) \in Nat
  BY <1>2, SumOfNaturals
<1> QED BY <1>3, SumOfNone DEF Collected

LEMMA CollectsOne ==
  ASSUME NEW d \in DocType, NEW a \in Agents, a \notin d.moved, NEW e, e = Record(d, <<"collect", a>>)
  PROVE  /\ Collected(e) = Collected(d) + d.amount[a] /\ d.amount[a] \in Nat
         /\ e.moved = d.moved \cup {a} /\ e.forced = d.forced /\ e.result = d.result /\ e.status = d.status
         /\ SamePlan(e, d)
<1>1. /\ e.moved = d.moved \cup {a} /\ e.forced = d.forced /\ e.result = d.result /\ e.status = d.status
      /\ SamePlan(e, d) /\ e.amount = d.amount
  BY DEF Record, DocType, SamePlan
<1>2. d.moved \in SUBSET Agents /\ \A b \in Agents : d.amount[b] \in Nat
  BY DEF DocType
<1>3. IsFiniteSet(d.moved) /\ \A b \in d.moved \cup {a} : d.amount[b] \in Int
  <2>1. IsFiniteSet(d.moved)
    BY <1>2, Constants, FS_Subset
  <2>2. \A b \in d.moved \cup {a} : d.amount[b] \in Int
    BY <1>2
  <2> QED BY <2>1, <2>2
<1>4. SumFunctionOnSet(d.amount, d.moved \cup {a}) = d.amount[a] + SumFunctionOnSet(d.amount, d.moved)
  BY <1>3, SumAdd
<1>5. Collected(d) \in Nat
  BY CollectedIs
<1> QED BY <1>1, <1>2, <1>4, <1>5 DEF Collected

-----------------------------------------------------------------------------
(* Steps of one process.                                                    *)

\* Fields that matter for money.
SameTerms(e, d) ==
  /\ SamePlan(e, d) /\ e.moved = d.moved /\ e.forced = d.forced /\ e.result = d.result
  /\ e.status = "Running" => d.status = "Running"

\* A step of process p that leaves it with record s, when m has come in or was spent.
Fits(p, s, m) ==
  /\ Following(s, game, timeUp)
  /\ Past(s) => Past(loc[p])
  /\ game.result <= 1 /\ Begun => Agrees(s, game)
  /\ game.result <= 1 /\ s.fresh => Funded(s.doc, m)

\* What was known, in the types.
LEMMA SolventTypes ==
  ASSUME SolventInv
  PROVE  /\ game \in DocType /\ loc \in [Procs -> LocType] /\ gameBal \in Nat /\ paid \in [Items -> Nat]
         /\ \A p \in Procs : loc[p] \in LocType /\ loc[p].doc \in DocType
         /\ Spent(game, paid) \in Nat /\ gameBal + Spent(game, paid) \in Nat
         /\ game.result \in Nat /\ \A p \in Procs : loc[p].doc.result \in Nat
<1>1. /\ game \in DocType /\ loc \in [Procs -> LocType] /\ gameBal \in Nat /\ paid \in [Items -> Nat]
  BY DEF SolventInv, BetsInv, SettleInv, TypeInv, DocsTyped, WorldTyped
<1>2. \A p \in Procs : loc[p] \in LocType /\ loc[p].doc \in DocType
  BY <1>1 DEF LocType
<1>3. Spent(game, paid) \in Nat
  BY <1>1, SpentIsNat
<1>4. \A d \in DocType : d.result \in Nat
  BY Constants DEF DocType
<1> QED BY <1>1, <1>2, <1>3, <1>4

LEMMA TermsKeep ==
  ASSUME NEW e, NEW d, SameTerms(e, d)
  PROVE  /\ \A t : Backed(d, t) => Backed(e, t)
         /\ Collected(e) = Collected(d)
         /\ \A m : Funded(d, m) => Funded(e, m)
         /\ \A g : SamePlan(d, g) => SamePlan(e, g)
<1>1. Collected(e) = Collected(d)
  BY DEF Collected, SameTerms, SamePlan
<1>2. \A m : Funded(d, m) => Funded(e, m)
  BY <1>1 DEF SameTerms, Funded
<1>3. \A t : Backed(d, t) => Backed(e, t)
  BY DEF SameTerms, SamePlan, Backed
<1>4. \A g : SamePlan(d, g) => SamePlan(e, g)
  BY DEF SameTerms, SamePlan
<1> QED BY <1>1, <1>2, <1>3, <1>4

\* More money can only help.
LEMMA FundedMore ==
  ASSUME NEW d \in DocType, NEW m \in Int, NEW n \in Int, m <= n, Funded(d, m)
  PROVE  Funded(d, n)
<1>1. Collected(d) \in Nat
  BY CollectedIs
<1> QED BY <1>1 DEF Funded

\* The invariant follows a step of one process that leaves the document alone.
LEMMA SolventMove ==
  ASSUME SolventInv, BetsInv', NEW p \in Procs, NEW s, Goto(p, s), UNCHANGED <<game, timeUp, aged>>,
         NEW m \in Int, game.result <= 1 => gameBal + Spent(game, paid) <= m,
         game.result <= 1 => m = gameBal' + Spent(game, paid'), Fits(p, s, m),
         \A c \in Outs : paid'[c] # 0 =>
           paid[c] # 0 \/ (Past(loc[p]) /\ (game.result <= 1 => Owed(c, game)))
  PROVE  SolventInv'
<1>1. \A q \in Procs : loc'[q] = IF q = p THEN s ELSE loc[q]
  BY SolventTypes DEF Goto
<1>2. ASSUME NEW q \in Procs PROVE Following(loc'[q], game, timeUp)
  <2>1. CASE q = p
    BY <1>1, <2>1 DEF Fits
  <2>2. CASE q # p
    BY <1>1, <2>2 DEF SolventInv
  <2> QED BY <2>1, <2>2
<1>3. Begun' => Begun
  <2>1. ASSUME NEW q \in Procs, Past(loc'[q]) PROVE Begun
    BY <1>1, <2>1 DEF Begun, Fits
  <2>2. ASSUME NEW c \in Outs, paid'[c] # 0 PROVE Begun
    BY <2>2 DEF Begun
  <2>3. game.nWinners # 0 => Begun
    BY DEF Begun
  <2>4. Begun' <=> (game.nWinners # 0 \/ (\E q \in Procs : Past(loc'[q])) \/ (\E c \in Outs : paid'[c] # 0))
    BY DEF Begun, Past
  <2> QED BY <2>1, <2>2, <2>3, <2>4
<1>4. Frozen'
  <2> SUFFICES ASSUME game.result <= 1, Begun'
               PROVE  /\ game.result = 1 /\ aged >= 1 /\ Fixed(game)
                      /\ \A q \in Procs : Agrees(loc'[q], game)
                      /\ \A c \in Outs : paid'[c] # 0 => Owed(c, game)
    BY DEF Frozen, Agrees, Past
  <2>1. Begun
    BY <1>3
  <2>2. /\ game.result = 1 /\ aged >= 1 /\ Fixed(game)
        /\ \A q \in Procs : Agrees(loc[q], game)
        /\ \A c \in Outs : paid[c] # 0 => Owed(c, game)
    BY <2>1 DEF SolventInv, Frozen
  <2>3. Agrees(s, game)
    BY <2>1 DEF Fits
  <2>4. ASSUME NEW q \in Procs PROVE Agrees(loc'[q], game)
    BY <1>1, <2>2, <2>3
  <2> QED BY <2>2, <2>4
<1>5. Ledger'
  <2> SUFFICES ASSUME game.result <= 1
               PROVE  /\ Funded(game, m)
                      /\ \A q \in Procs : loc'[q].fresh => Funded(loc'[q].doc, m)
    BY DEF Ledger
  <2>1. /\ game \in DocType /\ gameBal + Spent(game, paid) \in Int
        /\ gameBal + Spent(game, paid) <= m /\ \A q \in Procs : loc[q].doc \in DocType
    BY SolventTypes
  <2>2. Funded(game, m)
    BY <2>1, FundedMore DEF SolventInv, Ledger
  <2>3. ASSUME NEW q \in Procs, loc'[q].fresh PROVE Funded(loc'[q].doc, m)
    <3>1. CASE q = p
      BY <1>1, <2>3, <3>1 DEF Fits
    <3>2. CASE q # p
      <4>1. loc'[q] = loc[q]
        BY <1>1, <3>2
      <4>2. Funded(loc[q].doc, gameBal + Spent(game, paid))
        BY <2>3, <4>1 DEF SolventInv, Ledger
      <4> QED BY <2>1, <4>1, <4>2, FundedMore
    <3> QED BY <3>1, <3>2
  <2> QED BY <2>2, <2>3
<1>6. Backed(game, timeUp)' /\ \A q \in Procs : Following(loc[q], game, timeUp)'
  <2>1. Backed(game, timeUp)'
    BY DEF SolventInv, Backed
  <2>2. game' = game /\ timeUp' = timeUp
    OBVIOUS
  <2>3. ASSUME NEW q \in Procs PROVE Following(loc'[q], game', timeUp')
    BY <1>2, <2>2
  <2> QED BY <2>1, <2>3
<1> QED BY <1>4, <1>5, <1>6 DEF SolventInv

\* A step that moves no money.
LEMMA SolventStill ==
  ASSUME SolventInv, BetsInv', NEW p \in Procs, NEW s, Goto(p, s),
         UNCHANGED <<game, timeUp, aged, gameBal, paid>>, Fits(p, s, gameBal + Spent(game, paid))
  PROVE  SolventInv'
<1>1. gameBal + Spent(game, paid) \in Int
  BY SolventTypes
<1>2. gameBal' + Spent(game, paid') = gameBal + Spent(game, paid)
  OBVIOUS
<1>3. \A c \in Outs : paid'[c] # 0 => paid[c] # 0
  OBVIOUS
<1> QED BY <1>1, <1>2, <1>3, SolventMove

\* Processes at rest.
LEMMA RestFits ==
  ASSUME SolventInv, NEW p \in Procs, NEW m
  PROVE  Fits(p, Idle, m) /\ Fits(p, Rest(p), m)
<1>1. /\ NewGame.moved = {} /\ NewGame.result = 0 /\ NewGame.win = {}
      /\ Idle.doc = NewGame /\ Idle.pc = "idle" /\ Idle.fresh = FALSE /\ Idle \in LocType
  BY IdleType DEF NewGame, Idle
<1>2. ASSUME NEW r, r.doc = NewGame, r.pc \in {"idle", "done"}, r.fresh = FALSE PROVE Fits(p, r, m)
  BY <1>1, <1>2 DEF Fits, Following, Backed, Past, Agrees
<1>3. Rest(p).doc = NewGame /\ Rest(p).pc \in {"idle", "done"} /\ Rest(p).fresh = FALSE
  BY <1>1 DEF Rest, LocType
<1> QED BY <1>1, <1>2, <1>3

\* A process that goes on with the same terms.
LEMMA OnFits ==
  ASSUME SolventInv, NEW p \in Procs, NEW s, SameTerms(s.doc, loc[p].doc),
         s.fresh => loc[p].fresh /\ loc[p].pc # "saveDetermined", Past(s) => Past(loc[p]),
         s.pc \notin {"balance", "saveEndTime", "saveDetermined"},
         s.pc \in {"collect", "saveCollect"} => (loc[p].doc.forced \/ timeUp)
  PROVE  Fits(p, s, gameBal + Spent(game, paid))
<1> DEFINE r == loc[p]
           m == gameBal + Spent(game, paid)
<1>1. Following(r, game, timeUp)
  BY DEF SolventInv
<1>2. /\ \A t : Backed(r.doc, t) => Backed(s.doc, t)
      /\ \A n : Funded(r.doc, n) => Funded(s.doc, n)
      /\ \A g : SamePlan(r.doc, g) => SamePlan(s.doc, g)
  BY TermsKeep
<1>3. /\ s.doc.nWinners = r.doc.nWinners /\ s.doc.forced = r.doc.forced /\ s.doc.result = r.doc.result
      /\ s.doc.moved = r.doc.moved
  BY DEF SameTerms, SamePlan
<1>4. Following(s, game, timeUp)
  BY <1>1, <1>2, <1>3 DEF Following
<1>5. game.result <= 1 /\ Begun => Agrees(s, game)
  <2> SUFFICES ASSUME game.result <= 1, Begun PROVE Agrees(s, game)
    OBVIOUS
  <2>1. Agrees(r, game)
    BY DEF SolventInv, Frozen
  <2> QED BY <1>2, <1>3, <2>1 DEF Agrees
<1>6. game.result <= 1 /\ s.fresh => Funded(s.doc, m)
  BY <1>2 DEF SolventInv, Ledger
<1> QED BY <1>4, <1>5, <1>6 DEF Fits

\* After an error or a panic.
LEMMA FailedFits ==
  ASSUME SolventInv, NEW p \in Procs, NEW s \in {Failed(p), Panicked(p)}, loc[p].pc # "saveDetermined"
  PROVE  Fits(p, s, gameBal + Spent(game, paid))
<1>1. loc[p] \in LocType
  BY SolventTypes
<1>2. ASSUME NEW ok, s = [loc[p] EXCEPT !.pc = "defer", !.ok = ok]
      PROVE  Fits(p, s, gameBal + Spent(game, paid))
  <2>1. s.doc = loc[p].doc /\ s.pc = "defer" /\ s.fresh = loc[p].fresh
    BY <1>1, <1>2 DEF LocType
  <2>2. SameTerms(s.doc, loc[p].doc) /\ ~Past(s)
    BY <2>1 DEF SameTerms, SamePlan, Past
  <2> QED BY <2>1, <2>2, OnFits
<1>3. [loc[p] EXCEPT !.pc = "defer"] = [loc[p] EXCEPT !.pc = "defer", !.ok = loc[p].ok]
  BY <1>1 DEF LocType
<1>4. s = Idle \/ s = Rest(p) \/ \E ok : s = [loc[p] EXCEPT !.pc = "defer", !.ok = ok]
  BY <1>3 DEF Failed, Panicked
<1> QED BY <1>2, <1>4, RestFits

\* A step that changes only the copy and the place in the flow.
LEMMA LocalSolvent ==
  ASSUME SolventInv, BetsInv', NEW p \in Procs, NEW pc, NEW d, Local(p, pc, d),
         ASSUME NEW s, s.pc = pc, s.doc = d, s.fresh = loc[p].fresh
         PROVE  Fits(p, s, gameBal + Spent(game, paid))
  PROVE  SolventInv'
<1> DEFINE s == [loc[p] EXCEPT !.pc = pc, !.doc = d]
<1>1. s.pc = pc /\ s.doc = d /\ s.fresh = loc[p].fresh
  BY SolventTypes DEF LocType
<1>2. Goto(p, s) /\ UNCHANGED <<game, timeUp, aged, gameBal, paid>>
  BY DEF Local, clocks, chain, history
<1> HIDE DEF s
<1>3. Fits(p, s, gameBal + Spent(game, paid))
  BY <1>1
<1> QED BY <1>2, <1>3, SolventStill

-----------------------------------------------------------------------------
(* Transfers.                                                               *)

\* The records of what was paid out are not terms.
LEMMA RecordTerms ==
  ASSUME NEW d \in DocType, NEW item \in Items, item[1] # "collect"
  PROVE  SameTerms(Record(d, item), d)
<1>1. item[1] \in {"fee", "prize", "refund", "late"}
  BY ItemKinds
<1>2. CASE item[1] = "fee"
  BY <1>2 DEF Record, DocType, SameTerms, SamePlan
<1>3. CASE item[1] = "prize"
  BY <1>3 DEF Record, DocType, SameTerms, SamePlan
<1>4. CASE item[1] = "refund"
  BY <1>4 DEF Record, DocType, SameTerms, SamePlan
<1>5. CASE item[1] = "late"
  BY <1>5 DEF Record, DocType, SameTerms, SamePlan
<1> QED BY <1>1, <1>2, <1>3, <1>4, <1>5

LEMMA FitsMore ==
  ASSUME NEW p, NEW s, s.doc \in DocType, NEW m \in Int, NEW n \in Int, m <= n, Fits(p, s, m)
  PROVE  Fits(p, s, n)
BY FundedMore DEF Fits

\* Which transfers are drawn on the game's wallet.
LEMMA OutKinds ==
  ASSUME NEW item \in Items
  PROVE  /\ item \in Outs <=> item[1] \in {"fee", "prize", "refund"}
         /\ item \notin Outs <=> item[1] \in {"collect", "late"}
         /\ item \in Outs => Wallet(item) = NoAgent
         /\ item[1] = "late" => Wallet(item) \in Agents
<1>1. CASE item[1] = "collect" /\ item[2] \in Agents
  BY <1>1 DEF Outs
<1>2. CASE item = <<"fee", 0>>
  BY <1>2 DEF Outs, Wallet
<1>3. CASE item[1] \in {"prize", "refund"} /\ item[2] \in Bets
  <2>1. item \in {"prize", "refund"} \X Bets
    BY <1>3 DEF Items
  <2> QED BY <1>3, <2>1 DEF Outs, Wallet
<1>4. CASE item[1] = "late" /\ item[2] \in Bets
  BY <1>4, Constants DEF Outs, Wallet
<1> QED BY ItemKinds, <1>1, <1>2, <1>3, <1>4

\* Who may pay pays what the document says.
LEMMA PaysAsPlanned ==
  ASSUME SolventInv, NEW p \in Procs, NEW item \in Outs, game.result <= 1, Past(loc[p]),
         Owed(item, loc[p].doc)
  PROVE  Amount(loc[p].doc, item) = Amount(game, item) /\ Owed(item, game)
<1>1. Begun
  BY DEF Begun
<1>2. SamePlan(loc[p].doc, game)
  BY <1>1 DEF SolventInv, Frozen, Agrees
<1> QED BY <1>2, PlanAmount DEF Owed, SamePlan

\* What a transfer that is made does to the money.
LEMMA MoneyMoves ==
  ASSUME SolventInv, NEW p \in Procs, NEW item \in Items,
         item \in Outs => Past(loc[p]) /\ Owed(item, loc[p].doc),
         gameBal' = IF item[1] = "collect" THEN gameBal + Amount(loc[p].doc, item)
                    ELSE IF Wallet(item) = NoAgent THEN gameBal - Amount(loc[p].doc, item) ELSE gameBal,
         paid' = Bump(paid, {item})
  PROVE  /\ game.result <= 1 =>
              gameBal' + Spent(game, paid') = gameBal + Spent(game, paid)
                + (IF item[1] = "collect" THEN Amount(loc[p].doc, item) ELSE 0)
         /\ \A c \in Outs : paid'[c] # 0 =>
              paid[c] # 0 \/ (Past(loc[p]) /\ (game.result <= 1 => Owed(c, game)))
<1> DEFINE d == loc[p].doc
           amt == Amount(d, item)
<1>1. /\ game \in DocType /\ gameBal \in Nat /\ paid \in [Items -> Nat] /\ paid' \in [Items -> Nat]
      /\ Spent(game, paid) \in Nat /\ amt \in Nat
  BY SolventTypes, BumpType, AmountIsNat
<1>2. \A c \in Outs : c # item => paid'[c] = paid[c]
  <2> SUFFICES ASSUME NEW c \in Outs, c # item PROVE paid'[c] = paid[c]
    OBVIOUS
  <2>1. paid'[c] = paid[c] + 0 /\ paid[c] \in Nat
    BY <1>1, OutsAre DEF Bump
  <2> QED BY <2>1
<1>3. CASE item \in Outs
  <2>1. item[1] # "collect" /\ Wallet(item) = NoAgent
    BY <1>3, OutKinds
  <2>2. ASSUME game.result <= 1
        PROVE  gameBal' + Spent(game, paid') = gameBal + Spent(game, paid) /\ Owed(item, game)
    <3>1. amt = Amount(game, item) /\ Owed(item, game)
      BY <1>3, <2>2, PaysAsPlanned
    <3>2. Spent(game, paid') = Spent(game, paid) + Amount(game, item)
      BY <1>1, <1>3, SpentMore
    <3>3. gameBal' = gameBal - amt
      BY <2>1
    <3> HIDE DEF amt
    <3> QED BY <1>1, <3>1, <3>2, <3>3
  <2>3. game.result <= 1 =>
          gameBal' + Spent(game, paid') = gameBal + Spent(game, paid)
            + (IF item[1] = "collect" THEN Amount(loc[p].doc, item) ELSE 0)
    BY <1>1, <2>1, <2>2
  <2>4. ASSUME NEW c \in Outs, paid'[c] # 0, paid[c] = 0
        PROVE  Past(loc[p]) /\ (game.result <= 1 => Owed(c, game))
    <3>1. c = item
      BY <1>2, <2>4
    <3> QED BY <1>3, <2>2, <3>1
  <2> QED BY <2>3, <2>4
<1>4. CASE item \notin Outs
  <2>1. \A c \in Outs : paid'[c] = paid[c]
    BY <1>2, <1>4
  <2>2. SamePlan(game, game)
    BY DEF SamePlan
  <2>3. Spent(game, paid') = Spent(game, paid)
    <3>1. game \in DocType /\ paid' \in [Items -> Nat] /\ paid \in [Items -> Nat]
      BY <1>1
    <3> QED BY <2>1, <2>2, <3>1, SpentSame, ZenonT(40)
  <2>4. CASE item[1] = "collect"
    BY <1>1, <2>1, <2>3, <2>4
  <2>5. CASE item[1] = "late"
    <3>1. Wallet(item) # NoAgent
      BY <2>5, OutKinds, Constants
    <3>2. gameBal' = gameBal
      BY <2>5, <3>1
    <3>3. (IF item[1] = "collect" THEN amt ELSE 0) = 0
      BY <2>5
    <3> HIDE DEF amt
    <3>4. gameBal' + Spent(game, paid') = gameBal + Spent(game, paid) + 0
      BY <1>1, <2>3, <3>2
    <3> QED BY <2>1, <3>3, <3>4 DEF amt
  <2> QED BY <1>4, <2>4, <2>5, OutKinds
<1> QED BY <1>3, <1>4

\* A transfer that is due.
LEMMA TransferSolvent ==
  ASSUME SolventInv, BetsInv', NEW p \in Procs, NEW item \in Items, NEW next, Transfer(p, item, next),
         loc[p].pc # "saveDetermined",
         next \notin {"balance", "saveEndTime", "saveDetermined"},
         \A s : s.pc = next /\ Past(s) => Past(loc[p]),
         item[1] = "collect" => (loc[p].doc.forced \/ timeUp) /\ item[2] \notin loc[p].doc.moved,
         next \in {"collect", "saveCollect"} => (loc[p].doc.forced \/ timeUp),
         item \in Outs => Past(loc[p]) /\ Owed(item, loc[p].doc)
  PROVE  SolventInv'
<1> DEFINE d == loc[p].doc
           amt == Amount(d, item)
           m == gameBal + Spent(game, paid)
           n == m + (IF item[1] = "collect" THEN amt ELSE 0)
           s == [loc[p] EXCEPT !.pc = next, !.doc = Record(d, item), !.unsaved = @ \cup {item}]
<1>1. /\ loc \in [Procs -> LocType] /\ loc[p] \in LocType /\ d \in DocType /\ m \in Int /\ amt \in Nat
      /\ UNCHANGED <<game, timeUp, aged>>
  BY SolventTypes, AmountIsNat DEF Transfer, clocks
<1>2. n \in Int /\ m <= n
  <2> HIDE DEF m, amt
  <2> QED BY <1>1
<1>3. ASSUME NEW r \in {Failed(p), Panicked(p)} PROVE Fits(p, r, m) /\ Fits(p, r, n)
  <2>1. Fits(p, r, m)
    BY <1>3, FailedFits
  <2>2. r.doc \in DocType
    <3>1. r \in LocType
      BY <1>1, <1>3, FailedType
    <3> QED BY <3>1 DEF LocType
  <2> HIDE DEF m, n
  <2> QED BY <1>1, <1>2, <2>1, <2>2, FitsMore
<1>4. Fits(p, s, n)
  <2>1. s.doc = Record(d, item) /\ s.pc = next /\ s.fresh = loc[p].fresh
    BY <1>1 DEF LocType
  <2> HIDE DEF s
  <2>2. CASE item[1] = "collect"
    <3>1. item[2] \in Agents /\ item = <<"collect", item[2]>>
      BY <2>2, ItemKinds DEF Items
    <3>2. amt = d.amount[item[2]]
      BY <2>2 DEF Amount
    <3> HIDE DEF d, amt, m, n
    <3>3. /\ Collected(s.doc) = Collected(d) + d.amount[item[2]] /\ d.amount[item[2]] \in Nat
          /\ s.doc.moved = d.moved \cup {item[2]} /\ s.doc.forced = d.forced /\ s.doc.result = d.result
          /\ s.doc.status = d.status /\ SamePlan(s.doc, d)
      BY <1>1, <2>1, <2>2, <3>1, CollectsOne DEF d
    <3>4. d.forced \/ timeUp
      BY <2>2 DEF d
    <3>5. Following(loc[p], game, timeUp) /\ Backed(d, timeUp)
      BY DEF SolventInv, Following, d
    <3>6. Backed(s.doc, timeUp)
      BY <3>3, <3>4, <3>5 DEF Backed, SamePlan
    <3>7. Following(s, game, timeUp)
      BY <2>1, <3>3, <3>4, <3>5, <3>6 DEF Following, SamePlan, d
    <3>8. game.result <= 1 /\ Begun => Agrees(s, game)
      <4> SUFFICES ASSUME game.result <= 1, Begun PROVE Agrees(s, game)
        OBVIOUS
      <4>1. Agrees(loc[p], game)
        BY DEF SolventInv, Frozen
      <4>2. Past(s) => Past(loc[p])
        BY <2>1
      <4> QED BY <2>1, <3>3, <4>1, <4>2 DEF Agrees, SamePlan, d
    <3>9. ASSUME game.result <= 1, s.fresh PROVE Funded(s.doc, n)
      <4>1. Funded(d, m)
        BY <2>1, <3>9 DEF SolventInv, Ledger, d, m
      <4>2. n = m + amt
        BY <2>2 DEF n
      <4>3. Collected(d) \in Nat
        BY <1>1, CollectedIs
      <4> QED BY <1>1, <3>2, <3>3, <4>1, <4>2, <4>3 DEF Funded
    <3>10. Past(s) => Past(loc[p])
      BY <2>1
    <3> QED BY <3>7, <3>8, <3>9, <3>10 DEF Fits
  <2>3. CASE item[1] # "collect"
    <3>1. SameTerms(s.doc, loc[p].doc)
      BY <1>1, <2>1, <2>3, RecordTerms
    <3>2. Past(s) => Past(loc[p])
      BY <2>1
    <3>3. Fits(p, s, m)
      BY <2>1, <3>1, <3>2, OnFits
    <3>4. s.doc \in DocType
      BY <1>1, <2>1, RecordType
    <3> HIDE DEF m, n
    <3> QED BY <1>1, <1>2, <3>3, <3>4, FitsMore
  <2> QED BY <2>2, <2>3
<1>5. ASSUME gameBal' = (IF item[1] = "collect" THEN gameBal + amt
                         ELSE IF Wallet(item) = NoAgent THEN gameBal - amt ELSE gameBal),
             paid' = Bump(paid, {item}), NEW r, Goto(p, r), Fits(p, r, n)
      PROVE  SolventInv'
  <2>1. /\ game.result <= 1 => n = gameBal' + Spent(game, paid')
        /\ \A c \in Outs : paid'[c] # 0 =>
             paid[c] # 0 \/ (Past(loc[p]) /\ (game.result <= 1 => Owed(c, game)))
    BY <1>5, MoneyMoves
  <2>2. game.result <= 1 => gameBal + Spent(game, paid) <= n
    BY <1>2 DEF m
  <2> HIDE DEF n
  <2> QED BY <1>1, <1>2, <1>5, <2>1, <2>2, SolventMove
<1>6. ASSUME UNCHANGED <<gameBal, paid>>, NEW r \in {Failed(p), Panicked(p)}, Goto(p, r) PROVE SolventInv'
  BY <1>1, <1>3, <1>6, SolventStill
<1> HIDE DEF n, m
<1> QED BY <1>3, <1>4, <1>5, <1>6 DEF Transfer, d, amt, s

-----------------------------------------------------------------------------
(* The flows.                                                               *)

\* A scan: no stake has been collected yet, and no winner is determined.
LEMMA ScanSolvent == ASSUME SolventInv, BetsInv', NEW p \in Procs, CheckGameBalance(p) PROVE SolventInv'
<1> DEFINE d == loc[p].doc
           P == d.players \cup NewRecords(FilterTransfer(d), d.players)
           A == [a \in Agents |-> StakeOf({i \in P : BetOn[i] = a})]
           e == [d EXCEPT !.players = P, !.block = head, !.amount = A]
           m == gameBal + Spent(game, paid)
<1>1. Local(p, "saveOnly", e) /\ loc[p].pc = "balance"
  BY DEF CheckGameBalance
<1>2. /\ d \in DocType /\ Following(loc[p], game, timeUp) /\ Backed(d, timeUp) /\ m \in Nat /\ d.moved = {}
  BY <1>1, SolventTypes DEF SolventInv, Following
<1>3. e \in DocType
  <2>1. loc'[p].doc \in DocType
    BY DEF BetsInv, SettleInv, TypeInv, DocsTyped, LocType
  <2>2. loc'[p] = [loc[p] EXCEPT !.pc = "saveOnly", !.doc = e]
    BY <1>1, SolventTypes DEF Local, Goto
  <2> HIDE DEF e
  <2>3. loc'[p].doc = e
    BY <2>2, SolventTypes DEF LocType
  <2> QED BY <2>1, <2>3
<1> HIDE DEF A, P
<1>4. /\ e.players = P /\ e.moved = d.moved /\ e.forced = d.forced /\ e.status = d.status
      /\ e.result = d.result /\ e.win = d.win /\ e.winner = d.winner /\ e.nWinners = d.nWinners
  BY <1>2 DEF DocType
<1>5. d.players \subseteq P
  BY DEF P
<1> HIDE DEF e, d, m
<1>6. Backed(e, timeUp)
  BY <1>2, <1>4, <1>5 DEF Backed
<1>7. Collected(e) = 0
  BY <1>2, <1>3, <1>4, CollectedIs
<1>8. ASSUME NEW s, s.pc = "saveOnly", s.doc = e, s.fresh = loc[p].fresh PROVE Fits(p, s, m)
  <2>1. Following(s, game, timeUp)
    BY <1>1, <1>2, <1>4, <1>6, <1>8 DEF Following, d
  <2>2. game.result <= 1 /\ Begun => Agrees(s, game)
    <3> SUFFICES ASSUME game.result <= 1, Begun PROVE Agrees(s, game)
      OBVIOUS
    <3>1. Agrees(loc[p], game)
      BY DEF SolventInv, Frozen
    <3> QED BY <1>1, <1>4, <1>8, <3>1 DEF Agrees, Past, d
  <2>3. Funded(s.doc, m)
    BY <1>2, <1>7, <1>8 DEF Funded
  <2> QED BY <1>8, <2>1, <2>2, <2>3 DEF Fits, Past
<1> QED BY <1>1, <1>8, LocalSolvent DEF m

\* The winners are determined.
LEMMA DetermineSolvent ==
  ASSUME SolventInv, BetsInv', NEW p \in Procs, loc[p].pc = "determine",
         Local(p, "saveDetermined", DeterminePlayerWinner(loc[p].doc))
  PROVE  SolventInv'
<1> DEFINE d == loc[p].doc
           m == gameBal + Spent(game, paid)
<1>1. PICK e : e = DeterminePlayerWinner(d)
  OBVIOUS
<1>2. /\ loc[p] \in LocType /\ d \in DocType /\ game \in DocType /\ d.result \in Nat
      /\ Following(loc[p], game, timeUp) /\ Backed(d, timeUp)
      /\ Scanning(loc[p], head, aged) /\ Known(d, head, aged) /\ Flows(loc[p])
  BY SolventTypes DEF SolventInv, Following, BetsInv, Scanning, SettleInv
<1>3. loc[p].mode = "complete"
  BY <1>2, ModeIs
<1>4. d.status = "ResultUpdated" /\ d.result >= 1
  BY <1>2, <1>3 DEF Scanning, Known
<1>5. /\ e \in DocType
      /\ e.players = d.players /\ e.amount = d.amount /\ e.winner = d.winner
      /\ e.moved = d.moved /\ e.forced = d.forced /\ e.status = d.status /\ e.result = d.result
      /\ d.winner = NoAgent => e = d
      /\ d.winner # NoAgent => e.win = d.win \cup {i \in d.players : BetOn[i] = d.winner}
  <2>1. d \in DocType
    BY <1>2
  <2> HIDE DEF d
  <2> QED BY <1>1, <2>1, DetermineIs, ZenonT(40)
<1>6. Fixed(e)
  BY <1>1, <1>2, DetermineFixes
<1> HIDE DEF d, m
<1>7. Backed(e, timeUp)
  BY <1>2, <1>4, <1>5 DEF Backed
<1>8. Collected(e) = Collected(d)
  BY <1>5 DEF Collected
<1>9. ASSUME NEW s, s.pc = "saveDetermined", s.doc = e, s.fresh = loc[p].fresh PROVE Fits(p, s, m)
  <2>1. Following(s, game, timeUp)
    BY <1>2, <1>5, <1>6, <1>7, <1>9 DEF Following, d
  <2>2. game.result <= 1 /\ Begun => Agrees(s, game)
    <3> SUFFICES ASSUME game.result <= 1, Begun PROVE Agrees(s, game)
      OBVIOUS
    <3>1. Agrees(loc[p], game) /\ Fixed(game)
      BY DEF SolventInv, Frozen
    <3>2. SamePlan(d, game) => SamePlan(e, game)
      BY <1>1, <1>2, <3>1, PlanFixed
    <3> QED BY <1>5, <1>9, <3>1, <3>2 DEF Agrees, Past, d
  <2>3. game.result <= 1 /\ s.fresh => Funded(s.doc, m)
    <3> SUFFICES ASSUME game.result <= 1, loc[p].fresh PROVE Funded(e, m)
      BY <1>9
    <3>1. Funded(d, m)
      BY DEF SolventInv, Ledger, d, m
    <3> QED BY <1>5, <1>8, <3>1 DEF Funded
  <2> QED BY <1>9, <2>1, <2>2, <2>3 DEF Fits, Past
<1> QED BY <1>1, <1>9, LocalSolvent DEF m, d

\* The flows.
LEMMA FlowSolvent ==
  ASSUME SolventInv, BetsInv', NEW p \in Procs,
         \/ CheckGameBalance(p) \/ MarkEndGame(p) \/ MarkCompletedGame(p)
         \/ Settle(p) \/ PrizeToWinners(p) \/ RefundToPlayers(p)
         \/ CheckExpiredPlayers(p) \/ RefundToExpiredPlayers(p)
  PROVE  SolventInv'
<1> DEFINE d == loc[p].doc
           m == gameBal + Spent(game, paid)
<1>1. /\ loc[p] \in LocType /\ d \in DocType /\ Flows(loc[p]) /\ Following(loc[p], game, timeUp)
      /\ Backed(d, timeUp)
  BY SolventTypes DEF SolventInv, BetsInv, SettleInv, Following
<1>2. ASSUME NEW pc \in {"saveOnly", "scanLate", "refund", "prize", "defer", "saveScan"}, NEW e,
             Local(p, pc, e), SameTerms(e, d), pc \in {"refund", "prize"} => loc[p].pc = "settle",
             loc[p].pc # "saveDetermined"
      PROVE  SolventInv'
  <2>1. ASSUME NEW s, s.pc = pc, s.doc = e, s.fresh = loc[p].fresh PROVE Fits(p, s, m)
    <3>1. Past(s) => Past(loc[p])
      BY <1>2, <2>1 DEF Past
    <3> HIDE DEF m
    <3>2. s.pc \notin {"balance", "saveEndTime", "saveDetermined", "collect", "saveCollect"}
      BY <1>2, <2>1
    <3>3. SameTerms(s.doc, loc[p].doc)
      BY <1>2, <2>1
    <3> QED BY <1>2, <2>1, <3>1, <3>2, <3>3, OnFits DEF m
  <2> HIDE DEF m
  <2> QED BY <1>2, <2>1, LocalSolvent DEF m
<1>3. SameTerms(d, d)
  BY DEF SameTerms, SamePlan
<1>4. /\ d.win \subseteq Bets /\ d.players \subseteq Bets /\ d.late \subseteq Bets
      /\ Bets \subseteq Nat /\ Agents \subseteq Nat
  BY <1>1, DocSets
<1> HIDE DEF d, m
<1>5. CASE MarkEndGame(p)
  <2>0. loc[p].pc = "collect" /\ (d.forced \/ timeUp)
    BY <1>1, <1>5 DEF MarkEndGame, Following, d
  <2>1. CASE Local(p, "saveOnly", [d EXCEPT !.status = "Ended"])
    <3>1. SameTerms([d EXCEPT !.status = "Ended"], d)
      BY <1>1 DEF SameTerms, SamePlan, DocType
    <3> QED BY <1>2, <2>0, <2>1, <3>1
  <2>2. CASE Uncollected(d) # {} /\ Transfer(p, <<"collect", Min(Uncollected(d))>>, "saveCollect")
    <3>1. Uncollected(d) \in SUBSET Nat /\ Uncollected(d) \subseteq Agents
      BY <1>4 DEF Uncollected
    <3>2. Min(Uncollected(d)) \in Agents /\ Min(Uncollected(d)) \notin d.moved
      BY <2>2, <3>1, LeastIs DEF Uncollected
    <3>3. PICK item \in Items : item = <<"collect", Min(Uncollected(d))>>
      BY <3>2 DEF Items
    <3>4. item[1] = "collect" /\ item[2] \notin d.moved /\ item \notin Outs
      BY <3>2, <3>3, OutKinds
    <3>5. \A s : s.pc = "saveCollect" => ~Past(s)
      BY DEF Past
    <3> QED BY <2>0, <2>2, <3>3, <3>4, <3>5, TransferSolvent DEF d
  <2> QED BY <1>5, <2>1, <2>2 DEF MarkEndGame, d
<1>6. CASE MarkCompletedGame(p)
  <2>1. loc[p].pc = "determine"
    BY <1>6 DEF MarkCompletedGame
  <2> QED BY <1>2, <1>3, <1>6, <2>1, DetermineSolvent DEF MarkCompletedGame, d
<1>7. CASE Settle(p)
  <2>0. loc[p].pc = "settle"
    BY <1>7 DEF Settle
  <2>1. CASE Local(p, "refund", d) \/ Local(p, "scanLate", d) \/ Local(p, "prize", d)
    BY <1>2, <1>3, <2>0, <2>1
  <2>2. CASE d.nWinners # 0 /\ Transfer(p, <<"fee", 0>>, "saveFee")
    <3>1. PICK item \in Items : item = <<"fee", 0>>
      BY DEF Items
    <3>2. item[1] = "fee" /\ Past(loc[p])
      BY <2>0, <3>1 DEF Past
    <3>3. Owed(item, d)
      BY <2>2, <3>2 DEF Owed
    <3> QED BY <2>0, <2>2, <3>1, <3>2, <3>3, TransferSolvent DEF d
  <2>3. CASE Goto(p, Panicked(p)) /\ UNCHANGED <<game, lock, chain, clocks, ends, faults, history>>
    BY <2>0, <2>3, FailedFits, SolventStill DEF chain, clocks, history
  <2> QED BY <1>7, <2>1, <2>2, <2>3 DEF Settle, d
<1>8. CASE PrizeToWinners(p)
  <2>0. loc[p].pc = "prize"
    BY <1>8 DEF PrizeToWinners
  <2>1. CASE Local(p, "scanLate", d)
    BY <1>2, <1>3, <2>0, <2>1
  <2>2. CASE UnpaidWinners(d) # {} /\ Transfer(p, <<"prize", Min(UnpaidWinners(d))>>, "savePrize")
    <3>1. UnpaidWinners(d) \in SUBSET Nat
      BY <1>4 DEF UnpaidWinners
    <3>2. Min(UnpaidWinners(d)) \in d.win
      BY <2>2, <3>1, LeastIs DEF UnpaidWinners
    <3>3. PICK item \in Items : item = <<"prize", Min(UnpaidWinners(d))>>
      BY <1>4, <3>2 DEF Items
    <3>4. item[1] = "prize" /\ item[2] \in d.win /\ Past(loc[p])
      BY <2>0, <3>2, <3>3 DEF Past
    <3>5. d.nWinners # 0
      <4>1. loc[p].mode = "complete"
        BY <1>1, <2>0, ModeIs DEF Paying
      <4> QED BY <1>1, <2>0, <4>1 DEF Flows, Completing, d
    <3>6. Owed(item, d)
      BY <3>4, <3>5 DEF Owed
    <3> QED BY <2>0, <2>2, <3>3, <3>4, <3>6, TransferSolvent DEF d
  <2> QED BY <1>8, <2>1, <2>2 DEF PrizeToWinners, d
<1>9. CASE RefundToPlayers(p)
  <2>0. loc[p].pc = "refund"
    BY <1>9 DEF RefundToPlayers
  <2>1. CASE Local(p, "scanLate", d)
    BY <1>2, <1>3, <2>0, <2>1
  <2>2. ASSUME NEW i \in FirstOf(d.players) \ d.refunded, Transfer(p, <<"refund", i>>, "saveRefund")
        PROVE  SolventInv'
    <3>1. i \in Bets
      BY <1>4 DEF FirstOf
    <3>2. PICK item \in Items : item = <<"refund", i>>
      BY <3>1 DEF Items
    <3>3. item[1] = "refund" /\ Past(loc[p])
      BY <2>0, <3>2 DEF Past
    <3>4. d.nWinners = 0
      <4>1. loc[p].mode = "complete"
        BY <1>1, <2>0, ModeIs DEF Paying
      <4> QED BY <1>1, <2>0, <4>1 DEF Flows, Completing, d
    <3>5. Owed(item, d)
      BY <3>3, <3>4 DEF Owed
    <3> QED BY <2>0, <2>2, <3>2, <3>3, <3>5, TransferSolvent DEF d
  <2> QED BY <1>9, <2>1, <2>2 DEF RefundToPlayers, d
<1>10. CASE CheckExpiredPlayers(p)
  <2> DEFINE e == [d EXCEPT !.late = @ \cup NewRecords(FilterTransfer(d), d.players \cup @)]
  <2>1. Local(p, "saveScan", e) /\ loc[p].pc = "scanLate"
    BY <1>10 DEF CheckExpiredPlayers, d
  <2>2. SameTerms(e, d)
    BY <1>1 DEF DocType, SameTerms, SamePlan
  <2> HIDE DEF e
  <2> QED BY <1>2, <2>1, <2>2
<1>11. CASE RefundToExpiredPlayers(p)
  <2>0. loc[p].pc = "late"
    BY <1>11 DEF RefundToExpiredPlayers
  <2>1. CASE Local(p, "defer", d)
    BY <1>2, <1>3, <2>0, <2>1
  <2>2. ASSUME NEW i \in FirstOf(d.late) \ d.lateRefunded, Transfer(p, <<"late", i>>, "saveLate")
        PROVE  SolventInv'
    <3>1. i \in Bets
      BY <1>4 DEF FirstOf
    <3>2. PICK item \in Items : item = <<"late", i>>
      BY <3>1 DEF Items
    <3>3. item[1] = "late" /\ item \notin Outs
      BY <3>2, OutKinds
    <3>4. \A s : s.pc = "saveLate" => ~Past(s)
      BY DEF Past
    <3> QED BY <2>0, <2>2, <3>2, <3>3, <3>4, TransferSolvent
  <2>3. CASE Goto(p, Idle) /\ UNCHANGED <<game, lock, chain, clocks, ends, faults, history>>
    BY <2>3, RestFits, SolventStill DEF chain, clocks, history
  <2> QED BY <1>11, <2>1, <2>2, <2>3 DEF RefundToExpiredPlayers, d
<1> QED BY <1>5, <1>6, <1>7, <1>8, <1>9, <1>10, <1>11, ScanSolvent

-----------------------------------------------------------------------------
(* Writes.                                                                  *)

\* A process writes its copy and goes on with record s; nobody else can write any more.
LEMMA SolventWrite ==
  ASSUME SolventInv, BetsInv', NEW p \in Procs, loc[p].fresh, SameTerms(game', loc[p].doc),
         NEW s, loc' = [q \in Procs |-> IF q = p THEN s ELSE [loc[q] EXCEPT !.fresh = FALSE]],
         UNCHANGED <<timeUp, aged, gameBal, paid>>, Backed(s.doc, timeUp),
         s.fresh \/ Past(s) => s.doc = loc[p].doc,
         Past(s) => Past(loc[p]) \/ loc[p].pc = "saveDetermined",
         s.pc \notin {"balance", "saveEndTime", "saveDetermined"},
         s.pc \in {"collect", "saveCollect"} => (s.doc.forced \/ timeUp)
  PROVE  SolventInv'
<1> DEFINE d == loc[p].doc
           m == gameBal + Spent(game, paid)
<1>1. /\ loc \in [Procs -> LocType] /\ d \in DocType /\ game \in DocType /\ paid \in [Items -> Nat]
      /\ game.result \in Nat /\ d.result \in Nat /\ loc[p] \in LocType
  BY SolventTypes
<1>2. game' \in DocType /\ game'.result = d.result /\ SamePlan(game', d) /\ game'.nWinners = d.nWinners
  BY DEF BetsInv, SettleInv, TypeInv, DocsTyped, SameTerms, SamePlan
<1>3. ASSUME NEW q \in Procs, q # p
      PROVE  loc'[q].doc = loc[q].doc /\ loc'[q].pc = loc[q].pc /\ loc'[q].fresh = FALSE
  <2>1. loc[q] \in LocType /\ loc'[q] = [loc[q] EXCEPT !.fresh = FALSE]
    BY <1>1, <1>3
  <2> QED BY <2>1 DEF LocType
<1>4. loc'[p] = s
  OBVIOUS
<1>5. Following(loc[p], game, timeUp) /\ Backed(d, timeUp) /\ d.result >= game.result
  BY DEF SolventInv, Following
<1>6. Backed(game', timeUp)
  BY <1>5, TermsKeep
<1>7. ASSUME NEW q \in Procs PROVE Following(loc'[q], game', timeUp)
  <2>1. CASE q = p
    <3>1. s.fresh => s.doc.result >= game'.result /\ s.doc.nWinners = game'.nWinners
      BY <1>1, <1>2
    <3> QED BY <1>4, <2>1, <3>1 DEF Following
  <2>2. CASE q # p
    <3>1. Following(loc[q], game, timeUp)
      BY DEF SolventInv
    <3> QED BY <1>3, <2>2, <3>1 DEF Following
  <2> QED BY <2>1, <2>2
<1>8. ASSUME game'.result <= 1, Begun
      PROVE  /\ game.result = 1 /\ aged >= 1 /\ Fixed(game)
             /\ \A q \in Procs : Agrees(loc[q], game)
             /\ \A c \in Outs : paid[c] # 0 => Owed(c, game)
             /\ SamePlan(game', game)
  <2>1. game.result <= 1
    BY <1>1, <1>2, <1>5, <1>8
  <2>2. /\ game.result = 1 /\ aged >= 1 /\ Fixed(game)
        /\ \A q \in Procs : Agrees(loc[q], game)
        /\ \A c \in Outs : paid[c] # 0 => Owed(c, game)
    BY <1>8, <2>1 DEF SolventInv, Frozen
  <2>3. SamePlan(d, game)
    BY <1>2, <1>8, <2>2 DEF Agrees
  <2> HIDE DEF d
  <2>4. SamePlan(game', game)
    BY <1>2, <2>3 DEF SamePlan
  <2> QED BY <2>2, <2>4
<1>9. ASSUME game'.result <= 1, Begun' PROVE Agrees(s, game')
  <2>1. s.fresh \/ Past(s) => SamePlan(s.doc, game')
    BY <1>2 DEF SamePlan
  <2> QED BY <2>1 DEF Agrees
<1>10. Frozen'
  <2> SUFFICES ASSUME game'.result <= 1, Begun'
               PROVE  /\ game'.result = 1 /\ aged >= 1 /\ Fixed(game')
                      /\ \A q \in Procs : Agrees(loc'[q], game')
                      /\ \A c \in Outs : paid[c] # 0 => Owed(c, game')
    BY DEF Frozen
  <2>1. CASE Begun
    <3>1. /\ game.result = 1 /\ aged >= 1 /\ Fixed(game)
          /\ \A q \in Procs : Agrees(loc[q], game)
          /\ \A c \in Outs : paid[c] # 0 => Owed(c, game)
          /\ SamePlan(game', game)
      BY <1>8, <2>1
    <3>2. game'.result = 1
      BY <1>1, <1>2, <1>5, <3>1
    <3>3. Fixed(game')
      BY <1>1, <1>2, <3>1, PlanFixed
    <3>4. ASSUME NEW q \in Procs PROVE Agrees(loc'[q], game')
      <4>1. CASE q = p
        BY <1>4, <1>9, <4>1
      <4>2. CASE q # p
        <5>1. Past(loc[q]) => SamePlan(loc[q].doc, game)
          BY <3>1 DEF Agrees
        <5>2. Past(loc[q]) => SamePlan(loc[q].doc, game')
          BY <3>1, <5>1 DEF SamePlan
        <5> QED BY <1>3, <4>2, <5>2 DEF Agrees, Past
      <4> QED BY <4>1, <4>2
    <3>5. \A c \in Outs : paid[c] # 0 => Owed(c, game')
      BY <3>1 DEF Owed, SamePlan
    <3> QED BY <3>1, <3>2, <3>3, <3>4, <3>5
  <2>2. CASE ~Begun
    <3>1. /\ game.nWinners = 0 /\ \A q \in Procs : ~Past(loc[q])
          /\ \A c \in Outs : paid[c] = 0
      BY <2>2 DEF Begun
    <3>2. loc[p].pc = "saveDetermined"
      <4> SUFFICES ASSUME loc[p].pc # "saveDetermined" PROVE FALSE
        OBVIOUS
      <4>1. game'.nWinners = 0
        BY <1>2, <1>5, <3>1 DEF Following
      <4>2. \A q \in Procs : ~Past(loc'[q])
        BY <1>3, <1>4, <3>1 DEF Past
      <4> QED BY <3>1, <4>1, <4>2 DEF Begun, Past
    <3>3. aged >= 1 /\ d.result >= 1
      <4>1. Scanning(loc[p], head, aged) /\ Flows(loc[p])
        BY DEF SolventInv, BetsInv, SettleInv
      <4>2. loc[p].mode = "complete"
        BY <1>1, <3>2, <4>1, ModeIs DEF Paying
      <4> QED BY <4>1, <4>2 DEF Scanning, Known
    <3>4. game'.result = 1
      BY <1>1, <1>2, <3>3
    <3>5. Fixed(game')
      <4>1. Fixed(d)
        BY <1>5, <3>2 DEF Following
      <4> QED BY <1>1, <1>2, <4>1, PlanFixed
    <3>6. ASSUME NEW q \in Procs PROVE Agrees(loc'[q], game')
      <4>1. CASE q = p
        BY <1>4, <1>9, <4>1
      <4>2. CASE q # p
        BY <1>3, <3>1, <4>2 DEF Agrees, Past
      <4> QED BY <4>1, <4>2
    <3> QED BY <3>1, <3>3, <3>4, <3>5, <3>6
  <2> QED BY <2>1, <2>2
<1>11. Ledger'
  <2> SUFFICES ASSUME game'.result <= 1
               PROVE  /\ Funded(game', gameBal + Spent(game', paid))
                      /\ \A q \in Procs : loc'[q].fresh => Funded(loc'[q].doc, gameBal + Spent(game', paid))
    BY DEF Ledger
  <2>1. Spent(game', paid) = Spent(game, paid)
    <3>1. CASE Begun
      <4>1. SamePlan(game', game)
        BY <1>8, <3>1
      <4> QED BY <1>1, <1>2, <4>1, SpentSame
    <3>2. CASE ~Begun
      <4>1. \A c \in Outs : paid[c] = 0
        BY <3>2 DEF Begun
      <4> QED BY <1>1, <1>2, <4>1, NothingSpent
    <3> QED BY <3>1, <3>2
  <2>2. game.result <= 1
    BY <1>1, <1>2, <1>5
  <2>3. Funded(d, m)
    BY <2>2 DEF SolventInv, Ledger
  <2>4. Funded(game', m)
    BY <2>3, TermsKeep
  <2>5. ASSUME NEW q \in Procs, loc'[q].fresh PROVE Funded(loc'[q].doc, m)
    <3>1. q = p
      BY <1>3, <2>5
    <3> QED BY <1>4, <2>3, <2>5, <3>1
  <2> QED BY <2>1, <2>4, <2>5
<1>12. Backed(game, timeUp)' /\ \A q \in Procs : Following(loc[q], game, timeUp)'
  <2>1. timeUp' = timeUp
    OBVIOUS
  <2>2. Backed(game', timeUp')
    BY <1>6, <2>1
  <2>3. ASSUME NEW q \in Procs PROVE Following(loc'[q], game', timeUp')
    BY <1>7, <2>1
  <2> QED BY <2>2, <2>3
<1> QED BY <1>10, <1>11, <1>12 DEF SolventInv

\* The three outcomes of a write.
LEMMA UpdateSolvent ==
  ASSUME SolventInv, BetsInv', NEW p \in Procs, UpdateGame(p) PROVE SolventInv'
<1> DEFINE d == loc[p].doc
           go == AfterSave[loc[p].pc]
           f == [Failed(p) EXCEPT !.fresh = FALSE, !.unsaved = {}]
<1>1. /\ loc \in [Procs -> LocType] /\ loc[p] \in LocType /\ d \in DocType /\ loc[p].pc \in Saving
      /\ UNCHANGED <<timeUp, aged, gameBal, paid>>
  BY SolventTypes DEF UpdateGame, Saving, chain, clocks
<1>2. Following(loc[p], game, timeUp) /\ Backed(d, timeUp)
  BY DEF SolventInv, Following
<1>3. SameTerms(Outgoing(p), d)
  BY <1>1 DEF Outgoing, SameTerms, SamePlan, DocType
<1>4. /\ f.fresh = FALSE /\ f.pc \in {"idle", "done", "defer"} /\ Backed(f.doc, timeUp)
      /\ f.doc = d \/ f.doc = NewGame
  <2>1. Failed(p) \in LocType
    BY <1>1, FailedType
  <2>2. f.fresh = FALSE /\ f.pc = Failed(p).pc /\ f.doc = Failed(p).doc
    BY <2>1 DEF LocType
  <2>3. \/ Failed(p).pc = "defer" /\ Failed(p).doc = d
        \/ Failed(p).pc = "defer" /\ Failed(p).doc = loc[p].doc
        \/ Failed(p).pc \in {"idle", "done"} /\ Failed(p).doc = NewGame
    <3>1. Idle.doc = NewGame /\ Idle.pc = "idle" /\ Idle \in LocType
      BY IdleType DEF Idle
    <3>2. Rest(p).doc = NewGame /\ Rest(p).pc \in {"idle", "done"}
      BY <3>1 DEF Rest, LocType
    <3>3. CASE Failed(p) = Rest(p)
      BY <3>2, <3>3
    <3>4. CASE Failed(p) = [loc[p] EXCEPT !.pc = "defer", !.ok = FALSE]
      BY <1>1, <3>4 DEF LocType
    <3> QED BY <3>3, <3>4 DEF Failed
  <2>4. Backed(NewGame, timeUp)
    BY DEF Backed, NewGame
  <2> HIDE DEF f, d
  <2> QED BY <1>2, <2>2, <2>3, <2>4 DEF d
<1>5. f.pc \notin {"balance", "saveEndTime", "saveDetermined", "collect", "saveCollect"} /\ ~Past(f)
  BY <1>4 DEF Past
<1>6. CASE DateMatches(p) /\ game' = Outgoing(p) /\ Written(p)
  <2> DEFINE r == IF go = "rest" THEN Rest(p) ELSE [loc[p] EXCEPT !.pc = go, !.unsaved = {}]
  <2>1. loc' = [q \in Procs |-> IF q = p THEN r ELSE [loc[q] EXCEPT !.fresh = FALSE]]
    BY <1>6 DEF Written
  <2>2. /\ Backed(r.doc, timeUp) /\ (r.fresh \/ Past(r) => r.doc = d)
        /\ Past(r) => Past(loc[p]) \/ loc[p].pc = "saveDetermined"
        /\ r.pc \notin {"balance", "saveEndTime", "saveDetermined"}
        /\ r.pc \in {"collect", "saveCollect"} => (r.doc.forced \/ timeUp)
    <3>1. CASE go = "rest"
      <4>1. Idle.doc = NewGame /\ Idle.pc = "idle" /\ Idle.fresh = FALSE /\ Idle \in LocType
        BY IdleType DEF Idle
      <4>2. r.doc = NewGame /\ r.pc \in {"idle", "done"} /\ r.fresh = FALSE
        BY <3>1, <4>1 DEF Rest, LocType
      <4>3. Backed(NewGame, timeUp)
        BY DEF Backed, NewGame
      <4> HIDE DEF r
      <4> QED BY <4>2, <4>3 DEF Past
    <3>2. CASE go # "rest"
      <4>1. r.doc = d /\ r.pc = go
        BY <1>1, <3>2 DEF LocType
      <4>2. /\ go \in {"collect", "settle", "prize", "refund", "late"}
            /\ go = "collect" => loc[p].pc \in {"saveEndTime", "saveCollect"}
            /\ go = "settle" => loc[p].pc = "saveDetermined"
            /\ go = "prize" => loc[p].pc \in {"saveFee", "savePrize"}
            /\ go = "refund" => loc[p].pc = "saveRefund"
        BY <1>1, <3>2 DEF Saving, AfterSave
      <4> HIDE DEF r, go
      <4>3. Past(r) => Past(loc[p]) \/ loc[p].pc = "saveDetermined"
        BY <4>1, <4>2 DEF Past
      <4>4. r.pc \in {"collect", "saveCollect"} => (r.doc.forced \/ timeUp)
        BY <1>2, <4>1, <4>2 DEF Following
      <4> QED BY <1>2, <4>1, <4>2, <4>3, <4>4
    <3> QED BY <3>1, <3>2
  <2> HIDE DEF r
  <2>3. loc[p].fresh /\ SameTerms(game', loc[p].doc)
    BY <1>3, <1>6 DEF DateMatches
  <2> QED BY <1>1, <2>1, <2>2, <2>3, SolventWrite
<1>7. CASE NotWritten(p) /\ UNCHANGED game
  <2>1. Goto(p, f)
    BY <1>7 DEF NotWritten
  <2> HIDE DEF f
  <2>2. Fits(p, f, gameBal + Spent(game, paid))
    BY <1>4, <1>5 DEF Fits, Following, Agrees
  <2> QED BY <1>1, <1>7, <2>1, <2>2, SolventStill
<1>8. CASE /\ DateMatches(p) /\ game' = Outgoing(p)
           /\ LET r == Failed(p)
              IN loc' = [q \in Procs |->
                           IF q = p THEN [r EXCEPT !.fresh = FALSE, !.unsaved = {}]
                           ELSE [loc[q] EXCEPT !.fresh = FALSE]]
  <2>1. loc' = [q \in Procs |-> IF q = p THEN f ELSE [loc[q] EXCEPT !.fresh = FALSE]]
    BY <1>8
  <2> HIDE DEF f
  <2>2. loc[p].fresh /\ SameTerms(game', loc[p].doc)
    BY <1>3, <1>8 DEF DateMatches
  <2> QED BY <1>1, <1>4, <1>5, <2>1, <2>2, SolventWrite
<1> QED BY <1>6, <1>7, <1>8 DEF UpdateGame

-----------------------------------------------------------------------------
(* Reading, the clocks, and every step.                                     *)

\* The watch loop.
LEMMA WatchSolvent == ASSUME SolventInv, BetsInv', NEW w \in Watchers, Watch(w) PROVE SolventInv'
<1> DEFINE d == loc[w].doc
           m == gameBal + Spent(game, paid)
<1>1. /\ w \in Procs /\ loc[w] \in LocType /\ d \in DocType /\ game \in DocType
      /\ Following(loc[w], game, timeUp) /\ Backed(d, timeUp) /\ Scanning(loc[w], head, aged)
      /\ d.result \in Nat /\ game.result \in Nat
  BY SolventTypes DEF Procs, SolventInv, Following, BetsInv
<1>2. CASE StartPass(w)
  <2>1. PICK s : s = Reading("watch", "pass")
    OBVIOUS
  <2>2. s.pc = "pass" /\ s.doc = game /\ s.fresh = TRUE
    BY <2>1 DEF Reading, Idle
  <2>3. Goto(w, s) /\ UNCHANGED <<game, timeUp, aged, gameBal, paid>>
    BY <1>2, <2>1 DEF StartPass, chain, clocks, history
  <2>4. Following(s, game, timeUp) /\ ~Past(s) /\ Agrees(s, game)
    BY <1>1, <2>2 DEF Following, Past, Agrees, SamePlan, SolventInv
  <2>5. game.result <= 1 => Funded(s.doc, m)
    BY <2>2 DEF SolventInv, Ledger
  <2>6. Fits(w, s, m)
    BY <2>4, <2>5 DEF Fits
  <2> QED BY <1>1, <2>3, <2>6, SolventStill
<1>3. CASE Dispatch(w)
  <2>1. loc[w].pc = "pass" /\ UNCHANGED <<game, timeUp, aged, gameBal, paid>>
    BY <1>3 DEF Dispatch, chain, clocks, history
  <2>2. SameTerms(d, d)
    BY DEF SameTerms, SamePlan
  <2>3. CASE Goto(w, [loc[w] EXCEPT !.pc = "determine", !.mode = "complete"])
    <3>1. PICK s : s = [loc[w] EXCEPT !.pc = "determine", !.mode = "complete"]
      OBVIOUS
    <3>2. s.pc = "determine" /\ s.doc = d /\ s.fresh = loc[w].fresh
      BY <1>1, <3>1 DEF LocType
    <3>3. ~Past(s)
      BY <3>2 DEF Past
    <3>4. Fits(w, s, m)
      BY <1>1, <2>1, <2>2, <3>2, <3>3, OnFits
    <3> QED BY <1>1, <2>1, <2>3, <3>1, <3>4, SolventStill
  <2>4. CASE (d.forced \/ timeUp) /\ Goto(w, [loc[w] EXCEPT !.pc = "collect"])
    <3>1. PICK s : s = [loc[w] EXCEPT !.pc = "collect"]
      OBVIOUS
    <3>2. s.pc = "collect" /\ s.doc = d /\ s.fresh = loc[w].fresh
      BY <1>1, <3>1 DEF LocType
    <3>3. ~Past(s)
      BY <3>2 DEF Past
    <3>4. Fits(w, s, m)
      BY <1>1, <2>1, <2>2, <2>4, <3>2, <3>3, OnFits
    <3> QED BY <1>1, <2>1, <2>4, <3>1, <3>4, SolventStill
  <2>5. CASE /\ ~(d.status = "ResultUpdated" /\ d.result <= aged) /\ ~(d.forced \/ timeUp)
             /\ Goto(w, [loc[w] EXCEPT !.pc = "balance"])
    <3>1. PICK s : s = [loc[w] EXCEPT !.pc = "balance"]
      OBVIOUS
    <3>2. s.pc = "balance" /\ s.doc = d /\ s.fresh = loc[w].fresh
      BY <1>1, <3>1 DEF LocType
    <3> HIDE DEF d, m
    <3>3. Following(s, game, timeUp)
      BY <1>1, <2>1, <2>5, <3>2 DEF Following, Backed, d
    <3>4. ASSUME game.result <= 1, Begun, s.fresh, d.result <= 1 PROVE FALSE
      <4>1. game.result = 1 /\ aged >= 1
        BY <3>4 DEF SolventInv, Frozen
      <4>2. d.result = 1
        BY <1>1, <3>2, <3>4, <4>1 DEF Following, d
      <4>3. d.status \in {"Running", "ResultUpdated"}
        BY <1>1, <2>1 DEF Scanning, d
      <4>4. d.status = "ResultUpdated"
        BY <1>1, <4>2, <4>3 DEF Backed
      <4> QED BY <2>5, <4>1, <4>2, <4>4
    <3>5. game.result <= 1 /\ Begun => Agrees(s, game)
      BY <3>2, <3>4 DEF Agrees, Past
    <3>6. game.result <= 1 /\ s.fresh => Funded(s.doc, m)
      BY <1>1, <3>2 DEF SolventInv, Ledger, d, m
    <3>7. Fits(w, s, m)
      BY <3>2, <3>3, <3>5, <3>6 DEF Fits, Past
    <3> QED BY <1>1, <2>1, <2>5, <3>1, <3>7, SolventStill DEF m
  <2>6. CASE Goto(w, Rest(w))
    BY <1>1, <2>1, <2>6, RestFits, SolventStill
  <2> QED BY <1>3, <2>3, <2>4, <2>5, <2>6 DEF Dispatch, ResultDue, Overdue
<1>4. CASE EndPass(w)
  <2>1. Goto(w, Idle) /\ UNCHANGED <<game, timeUp, aged, gameBal, paid>>
    BY <1>4 DEF EndPass, chain, clocks, history
  <2> QED BY <1>1, <2>1, RestFits, SolventStill
<1> QED BY <1>2, <1>3, <1>4 DEF Watch

\* The handlers.
LEMMA HandlerSolvent ==
  ASSUME SolventInv, BetsInv', GameResult \/ EndGame \/ RefundsExpiredPlayers PROVE SolventInv'
<1> DEFINE m == gameBal + Spent(game, paid)
<1>1. /\ Handler \in Procs /\ game \in DocType /\ game.result \in Nat /\ Backed(game, timeUp)
      /\ game.result <= 1 => Funded(game, m)
      /\ game.result <= 1 /\ Begun => game.result = 1
      /\ UNCHANGED <<game, timeUp, aged, gameBal, paid>>
  <2>1. UNCHANGED <<game, timeUp, aged, gameBal, paid>>
    BY DEF GameResult, EndGame, RefundsExpiredPlayers, chain, clocks, history
  <2>2. Handler \in Procs /\ game \in DocType /\ game.result \in Nat /\ Backed(game, timeUp)
    BY SolventTypes, Constants DEF SolventInv
  <2>3. game.result <= 1 => Funded(game, m)
    BY DEF SolventInv, Ledger
  <2>4. game.result <= 1 /\ Begun => game.result = 1
    BY DEF SolventInv, Frozen
  <2> QED BY <2>1, <2>2, <2>3, <2>4
<1>2. \A mode, pc : /\ Reading(mode, pc).pc = pc /\ Reading(mode, pc).doc = game
                    /\ Reading(mode, pc).fresh = TRUE
  BY DEF Reading, Idle
<1>3. SamePlan(game, game)
  BY DEF SamePlan
<1> HIDE DEF m
<1>4. CASE GameResult
  <2>1. PICK r \in LocType : r = Reading("api", "saveOnly")
    <3>1. "api" \in Modes /\ "saveOnly" \in PCs
      BY DEF Modes, PCs, AfterSave
    <3> QED BY <1>1, <3>1, ReadingType
  <2>2. PICK a \in Agents \cup {NoAgent} :
          Goto(Handler, [r EXCEPT !.doc.winner = a, !.doc.status = "ResultUpdated", !.doc.result = @ + 1])
    BY <1>4, <2>1 DEF GameResult
  <2>3. PICK e : e = [game EXCEPT !.winner = a, !.status = "ResultUpdated", !.result = @ + 1]
    OBVIOUS
  <2>4. PICK s : s = [r EXCEPT !.doc.winner = a, !.doc.status = "ResultUpdated", !.doc.result = @ + 1]
    OBVIOUS
  <2>5. r.doc = game /\ r.pc = "saveOnly" /\ r.fresh = TRUE
    BY <1>2, <2>1
  <2>6. s = [r EXCEPT !.doc = e]
    BY <1>1, <2>3, <2>4, <2>5 DEF LocType, DocType
  <2>7. s.doc = e /\ s.pc = "saveOnly" /\ s.fresh = TRUE
    BY <2>5, <2>6 DEF LocType
  <2>8. /\ e.status = "ResultUpdated" /\ e.result = game.result + 1 /\ e.moved = game.moved
        /\ e.forced = game.forced /\ e.win = game.win /\ e.nWinners = game.nWinners
        /\ e.amount = game.amount
    BY <1>1, <2>3 DEF DocType
  <2>9. Backed(e, timeUp)
    BY <1>1, <2>8 DEF Backed
  <2>10. Following(s, game, timeUp)
    BY <1>1, <2>7, <2>8, <2>9 DEF Following
  <2>11. game.result <= 1 /\ Begun => Agrees(s, game)
    BY <1>1, <2>7, <2>8 DEF Agrees, Past
  <2>12. game.result <= 1 => Funded(s.doc, m)
    BY <1>1, <2>7, <2>8 DEF Funded, Collected
  <2>13. Fits(Handler, s, m)
    BY <2>7, <2>10, <2>11, <2>12 DEF Fits, Past
  <2> QED BY <1>1, <2>2, <2>4, <2>13, SolventStill DEF m
<1>5. CASE EndGame
  <2>1. PICK r \in LocType : r = Reading("api", "saveEndTime")
    <3>1. "api" \in Modes /\ "saveEndTime" \in PCs
      BY DEF Modes, PCs, AfterSave
    <3> QED BY <1>1, <3>1, ReadingType
  <2>2. PICK s : s = [r EXCEPT !.doc.forced = TRUE]
    OBVIOUS
  <2>3. PICK e : e = [game EXCEPT !.forced = TRUE]
    OBVIOUS
  <2>4. r.doc = game /\ r.pc = "saveEndTime" /\ r.fresh = TRUE
    BY <1>2, <2>1
  <2>5. s.doc = e /\ s.pc = "saveEndTime" /\ s.fresh = TRUE
    BY <2>2, <2>3, <2>4 DEF LocType
  <2>6. SamePlan(e, game) /\ e.forced = TRUE /\ e.result = game.result /\ e.moved = game.moved /\ e.status = game.status
    BY <1>1, <2>3 DEF DocType, SamePlan
  <2>7. Backed(e, timeUp)
    BY <1>1, <2>6 DEF Backed, SamePlan
  <2>8. Following(s, game, timeUp)
    BY <1>1, <2>5, <2>6, <2>7 DEF Following, SamePlan
  <2>9. Agrees(s, game)
    BY <2>5, <2>6 DEF Agrees, Past
  <2>10. game.result <= 1 => Funded(s.doc, m)
    BY <1>1, <2>5, <2>6 DEF Funded, Collected, SamePlan
  <2>11. Fits(Handler, s, m)
    BY <2>5, <2>8, <2>9, <2>10 DEF Fits, Past
  <2>12. Goto(Handler, s)
    BY <1>5, <2>1, <2>2 DEF EndGame
  <2> QED BY <1>1, <2>11, <2>12, SolventStill DEF m
<1>6. CASE RefundsExpiredPlayers
  <2>1. PICK s : s = Reading("refund", "scanLate")
    OBVIOUS
  <2>2. s.doc = game /\ s.pc = "scanLate" /\ s.fresh = TRUE /\ Goto(Handler, s)
    BY <1>2, <1>6, <2>1 DEF RefundsExpiredPlayers
  <2>3. Following(s, game, timeUp) /\ Agrees(s, game) /\ ~Past(s)
    BY <1>1, <1>3, <2>2 DEF Following, Agrees, Past
  <2>4. Fits(Handler, s, m)
    BY <1>1, <2>2, <2>3 DEF Fits
  <2> QED BY <1>1, <2>2, <2>4, SolventStill DEF m
<1> QED BY <1>4, <1>5, <1>6

\* Bets, clocks and the lock.
LEMMA WorldSolvent ==
  ASSUME SolventInv, BetsInv', PlaceBets \/ ClockTick \/ LockExpires \/ UNCHANGED vars PROVE SolventInv'
<1>1. UNCHANGED <<game, loc, gameBal, paid>>
  BY DEF PlaceBets, ClockTick, LockExpires, vars, chain, history
<1>2. timeUp => timeUp'
  BY DEF PlaceBets, ClockTick, LockExpires, vars, clocks
<1>3. aged >= 1 => aged' >= 1
  <2>1. aged \in Nat /\ game.result \in Nat
    BY SolventTypes, Constants DEF SolventInv, BetsInv, SettleInv, TypeInv, WorldTyped
  <2>2. aged' = aged \/ (aged' = game.result /\ aged < game.result)
    BY DEF PlaceBets, ClockTick, LockExpires, vars, clocks
  <2> QED BY <2>1, <2>2
<1>4. \A d : Backed(d, timeUp) => Backed(d, timeUp')
  BY <1>2 DEF Backed
<1>5. \A r : Following(r, game, timeUp) => Following(r, game, timeUp')
  BY <1>2, <1>4 DEF Following
<1>6. Backed(game', timeUp') /\ \A p \in Procs : Following(loc'[p], game', timeUp')
  BY <1>1, <1>4, <1>5 DEF SolventInv
<1>7. Begun' => Begun
  BY <1>1 DEF Begun, Past
<1>8. Frozen'
  <2> SUFFICES ASSUME game.result <= 1, Begun'
               PROVE  /\ game.result = 1 /\ aged' >= 1 /\ Fixed(game)
                      /\ \A q \in Procs : Agrees(loc[q], game)
                      /\ \A c \in Outs : paid[c] # 0 => Owed(c, game)
    BY <1>1 DEF Frozen
  <2> QED BY <1>3, <1>7 DEF SolventInv, Frozen
<1>9. Ledger'
  BY <1>1 DEF SolventInv, Ledger
<1> QED BY <1>6, <1>8, <1>9 DEF SolventInv

LEMMA InitSolvent == Init => SolventInv
<1> SUFFICES ASSUME Init PROVE SolventInv
  OBVIOUS
<1>1. /\ game = NewGame /\ \A p \in Procs : loc[p] = Idle
      /\ \A i \in Items : paid[i] = 0
      /\ gameBal = 0 /\ paid = [i \in Items |-> 0]
  BY DEF Init
<1>2. /\ NewGame.moved = {} /\ NewGame.result = 0 /\ NewGame.win = {} /\ NewGame.nWinners = 0
      /\ Idle.doc = NewGame /\ Idle.pc = "idle" /\ Idle.fresh = FALSE
  BY DEF NewGame, Idle
<1>3. BetsInv
  BY InitBets
<1>4. Backed(game, timeUp) /\ \A p \in Procs : Following(loc[p], game, timeUp)
  BY <1>1, <1>2 DEF Backed, Following
<1>5. ~Begun
  <2>1. \A c \in Outs : paid[c] = 0
    BY <1>1, OutsAre
  <2>2. \A p \in Procs : ~Past(loc[p])
    BY <1>1, <1>2 DEF Past
  <2> QED BY <1>1, <1>2, <2>1, <2>2 DEF Begun
<1>6. Frozen
  BY <1>5 DEF Frozen
<1>7. Ledger
  <2>1. game \in DocType /\ paid \in [Items -> Nat]
    BY <1>1, NewGameType
  <2>2. Spent(game, paid) \in Nat /\ Collected(game) = 0
    BY <1>1, <1>2, <2>1, SpentIsNat, CollectedIs
  <2>3. Funded(game, gameBal + Spent(game, paid))
    BY <1>1, <2>2 DEF Funded
  <2> QED BY <1>1, <1>2, <2>3 DEF Ledger
<1> QED BY <1>3, <1>4, <1>6, <1>7 DEF SolventInv

\* Every step.
LEMMA NextSolvent == ASSUME SolventInv, [Next]_vars PROVE SolventInv'
<1>1. BetsInv'
  BY NextBets DEF SolventInv
<1>2. ASSUME NEW p \in Procs, Step(p) PROVE SolventInv'
  BY <1>1, <1>2, UpdateSolvent, FlowSolvent DEF Step
<1>3. ASSUME NEW w \in Watchers, Watch(w) PROVE SolventInv'
  BY <1>1, <1>3, WatchSolvent
<1>4. ASSUME NEW p \in Procs, CallFails(p) \/ Crash(p) PROVE SolventInv'
  <2>1. UNCHANGED <<game, timeUp, aged, gameBal, paid>>
    BY <1>4 DEF CallFails, Crash, chain, clocks, history
  <2>2. CASE Crash(p)
    <3>1. Goto(p, Idle)
      BY <2>2 DEF Crash
    <3> QED BY <1>1, <2>1, <3>1, RestFits, SolventStill
  <2>3. CASE CallFails(p)
    <3>1. Goto(p, Failed(p)) /\ loc[p].pc # "saveDetermined"
      BY <2>3 DEF CallFails
    <3> QED BY <1>1, <2>1, <3>1, FailedFits, SolventStill
  <2> QED BY <1>4, <2>2, <2>3
<1> QED BY <1>1, <1>2, <1>3, <1>4, HandlerSolvent, WorldSolvent DEF Next

-----------------------------------------------------------------------------
(* Prizes.                                                                  *)

LEMMA Distribute == ASSUME NEW a \in Int, NEW b \in Int, NEW c \in Int PROVE a * (b + c) = a * b + a * c
OBVIOUS

LEMMA Cancel ==
  ASSUME NEW b \in Nat, b # 0, NEW x \in Int, NEW y \in Int, b * x <= b * y PROVE x <= y
<1> SUFFICES ASSUME y + 1 <= x PROVE FALSE
  OBVIOUS
<1>1. PICK k \in Nat : x = y + 1 + k
  <2>1. x - (y + 1) \in Nat /\ x = y + 1 + (x - (y + 1))
    OBVIOUS
  <2> QED BY <2>1
<1>2. b * x = b * y + b * (1 + k)
  BY <1>1, Distribute
<1>3. b * (1 + k) = b + b * k
  BY Distribute
<1>4. b * k \in Nat /\ b * y \in Int
  OBVIOUS
<1> QED BY <1>2, <1>3, <1>4

\* Rounding adds at most a half.
LEMMA RoundUp ==
  ASSUME NEW x \in Nat, NEW y \in Nat, y # 0
  PROVE  2 * (y * RoundDiv(x, y)) <= 2 * x + y
<1> DEFINE a == 2 * x + y
           b == 2 * y
           q == a \div b
<1>1. a \in Nat /\ b \in Nat /\ b # 0
  OBVIOUS
<1>2. q \in Nat /\ b * q <= a
  <2> HIDE DEF a, b
  <2> QED BY <1>1
<1>3. RoundDiv(x, y) = q
  BY DEF RoundDiv
<1> HIDE DEF q
<1>4. 2 * (y * q) = b * q
  BY <1>2
<1> QED BY <1>2, <1>3, <1>4

\* The shares of n winners exceed their part of the pool by at most n halves.
LEMMA SharesRound ==
  ASSUME NEW d \in DocType, d.betWinners # 0
  PROVE  \A T \in SUBSET Bets :
           2 * (d.betWinners * SumFunctionOnSet([i \in Bets |-> Share(d, i)], T))
             <= 2 * (d.pool * StakeOf(T)) + d.betWinners * Cardinality(T)
<1> DEFINE B == d.betWinners
           P == d.pool
           f == [i \in Bets |-> Share(d, i)]
           F(T) == SumFunctionOnSet(f, T)
           Good == {T \in SUBSET Bets : 2 * (B * F(T)) <= 2 * (P * StakeOf(T)) + B * Cardinality(T)}
<1>1. B \in Nat /\ P \in Nat /\ B # 0 /\ IsFiniteSet(Bets)
  BY Constants DEF DocType
<1>2. ASSUME NEW i \in Bets
      PROVE  f[i] \in Nat /\ Stake[i] \in Nat /\ 2 * (B * f[i]) <= 2 * (P * Stake[i]) + B
  <2>1. f[i] \in Nat /\ Stake[i] \in Nat
    BY ShareIsNat, Constants
  <2>2. f[i] = RoundDiv(Stake[i] * P, B)
    BY <1>1 DEF Share
  <2> HIDE DEF B, P, f
  <2>3. Stake[i] * P \in Nat /\ Stake[i] * P = P * Stake[i]
    BY <1>1, <2>1
  <2> QED BY <1>1, <2>1, <2>2, <2>3, RoundUp
<1> HIDE DEF B, P, f
<1>3. {} \in Good
  <2>1. F({}) = 0 /\ StakeOf({}) = 0
    BY SumOfNone DEF StakeOf
  <2>2. Cardinality({}) = 0
    BY FS_EmptySet
  <2> QED BY <1>1, <2>1, <2>2
<1>4. ASSUME NEW T \in SUBSET Bets, NEW x \in Bets \ T, T \in Good PROVE T \cup {x} \in Good
  <2>1. /\ IsFiniteSet(T) /\ Cardinality(T) \in Nat
        /\ Cardinality(T \cup {x}) = Cardinality(T) + 1
    BY <1>1, FS_Subset, FS_CardinalityType, FS_AddElement
  <2>2. \A y \in T \cup {x} : f[y] \in Int /\ Stake[y] \in Int
    BY <1>2
  <2>3. F(T \cup {x}) = f[x] + F(T) /\ StakeOf(T \cup {x}) = Stake[x] + StakeOf(T)
    BY <2>1, <2>2, SumAdd DEF StakeOf
  <2>4. F(T) \in Int /\ StakeOf(T) \in Int
    BY <2>1, <2>2, SumOfIntegers DEF StakeOf
  <2>5. 2 * (B * F(T)) <= 2 * (P * StakeOf(T)) + B * Cardinality(T)
    BY <1>4
  <2>6. f[x] \in Int /\ Stake[x] \in Int /\ 2 * (B * f[x]) <= 2 * (P * Stake[x]) + B
    BY <1>2
  <2> HIDE DEF F, Good
  <2>7. ASSUME NEW u \in Int, NEW v \in Int, NEW s \in Int, NEW t \in Int, NEW n \in Nat,
               2 * (B * u) <= 2 * (P * s) + B * n, 2 * (B * v) <= 2 * (P * t) + B
        PROVE  2 * (B * (v + u)) <= 2 * (P * (t + s)) + B * (n + 1)
    <3>1. B * (v + u) = B * v + B * u /\ P * (t + s) = P * t + P * s /\ B * (n + 1) = B * n + B * 1
      BY <1>1, Distribute
    <3>2. /\ B * v \in Int /\ B * u \in Int /\ P * t \in Int /\ P * s \in Int /\ B * n \in Int
          /\ B * 1 = B
      BY <1>1
    <3> QED BY <1>1, <2>7, <3>1, <3>2
  <2>8. 2 * (B * (f[x] + F(T))) <= 2 * (P * (Stake[x] + StakeOf(T))) + B * (Cardinality(T) + 1)
    BY <2>1, <2>4, <2>5, <2>6, <2>7
  <2> QED BY <2>1, <2>3, <2>8 DEF Good
<1> HIDE DEF Good
<1>5. \A T \in SUBSET Bets : T \in Good
  BY <1>1, <1>3, <1>4, SubsetInduction, Zenon
<1> QED BY <1>5 DEF Good, F, f, B, P

\* Of n winners all but the last get what is theirs in proportion, and the last what is left
\* if that is less: when the last share is large enough no prize is more than what is left.
LEMMA PrizesWithin ==
  ASSUME NEW d \in DocType, d.win # {}, d.nWinners = Cardinality(d.win), d.betWinners = StakeOf(d.win),
         RoundingSmall(d)
  PROVE  SumFunctionOnSet([i \in d.win |-> Amount(d, <<"prize", i>>)], d.win) <= d.pool
<1> DEFINE W == d.win
           f == [i \in Bets |-> Share(d, i)]
           a == [i \in W |-> Amount(d, <<"prize", i>>)]
           n == Cardinality(W)
           B == d.betWinners
<1>1. /\ W \in SUBSET Bets /\ IsFiniteSet(W) /\ n \in Nat /\ n # 0 /\ W \in SUBSET (0..NumBets)
      /\ d.pool \in Nat /\ B \in Nat
  <2>1. W \in SUBSET Bets /\ d.pool \in Nat /\ B \in Nat
    BY DEF DocType
  <2>2. IsFiniteSet(W) /\ W \in SUBSET (0..NumBets)
    BY <2>1, Constants, FS_Subset DEF Bets
  <2>3. n \in Nat /\ n # 0
    BY <2>2, FS_CardinalityType, FS_EmptySet
  <2> QED BY <2>1, <2>2, <2>3
<1>2. PICK k \in W : \A y \in W : y <= k
  <2> HIDE DEF W
  <2> QED BY <1>1, Constants, GreatestIs DEF W
<1> DEFINE R == W \ {k}
<1>3. R \in SUBSET Bets /\ IsFiniteSet(R) /\ Cardinality(R) = n - 1 /\ k \in Bets /\ Bets \subseteq Nat
  BY <1>1, FS_RemoveElement DEF Bets
<1>4. \A i \in Bets : f[i] = Share(d, i) /\ f[i] \in Nat
  BY ShareIsNat
<1>5. \A i \in W : n <= 2 * f[i]
  BY <1>1 DEF RoundingSmall
<1>6. B # 0
  <2> SUFFICES ASSUME B = 0 PROVE FALSE
    OBVIOUS
  <2>1. f[k] = 0
    BY <1>3 DEF Share
  <2>2. n <= 2 * f[k]
    BY <1>2, <1>5
  <2> HIDE DEF n, f
  <2> QED BY <1>1, <2>1, <2>2
<1>7. /\ SumFunctionOnSet(f, R) \in Nat
      /\ SumFunctionOnSet(f, W) = f[k] + SumFunctionOnSet(f, R)
  <2>1. \A i \in W : f[i] \in Int
    BY <1>1, <1>4
  <2>2. \A i \in R : f[i] \in Nat
    BY <1>3, <1>4
  <2> HIDE DEF f
  <2>3. SumFunctionOnSet(f, R) \in Nat
    <3> HIDE DEF R
    <3> QED BY <1>3, <2>2, SumOfNaturals
  <2>4. SumFunctionOnSet(f, W) = f[k] + SumFunctionOnSet(f, R)
    <3> HIDE DEF W
    <3> QED BY <1>1, <2>1, SumWithout
  <2> QED BY <2>3, <2>4
<1>8. SumFunctionOnSet(f, R) <= d.pool
  <2>1. 2 * (B * SumFunctionOnSet(f, W)) <= 2 * (d.pool * B) + B * n
    BY <1>1, <1>6, SharesRound
  <2>2. n <= 2 * f[k] /\ f[k] \in Nat
    BY <1>1, <1>4, <1>5
  <2> HIDE DEF f, n, B, R, W
  <2>3. PICK s \in Nat : s = SumFunctionOnSet(f, R)
    BY <1>7
  <2>4. PICK t \in Nat : t = f[k]
    BY <2>2
  <2>5. PICK P \in Nat : P = d.pool
    BY <1>1
  <2>6. 2 * (B * (t + s)) <= 2 * (P * B) + B * n
    BY <1>7, <2>1, <2>3, <2>4, <2>5
  <2>7. B * (2 * (t + s)) <= B * (2 * P + n)
    <3>1. B * (2 * P + n) = B * (2 * P) + B * n
      BY <1>1, Distribute
    <3>2. 2 * (B * (t + s)) = B * (2 * (t + s)) /\ 2 * (P * B) = B * (2 * P)
      BY <1>1
    <3> QED BY <2>6, <3>1, <3>2
  <2>8. 2 * (t + s) <= 2 * P + n
    BY <1>1, <1>6, <2>7, Cancel
  <2>9. s <= P
    BY <1>1, <2>2, <2>4, <2>8
  <2> QED BY <2>3, <2>5, <2>9
<1>9. ASSUME NEW i \in R PROVE a[i] = f[i]
  <2> DEFINE S == {j \in d.win : j < i}
  <2>1. S \subseteq R \ {i} /\ i \in Bets
    <3>1. i \in W /\ i \in Bets /\ i <= k /\ i \in Nat /\ k \in Nat
      BY <1>2, <1>3
    <3>2. ASSUME NEW j \in S PROVE j \in W /\ j # i /\ j # k
      <4>1. j \in W /\ j < i /\ j \in Nat
        BY <1>1, <1>3
      <4> QED BY <3>1, <4>1
    <3> QED BY <3>1, <3>2
  <2>2. Cardinality(S) + 1 # n
    <3>1. IsFiniteSet(R \ {i}) /\ Cardinality(R \ {i}) = Cardinality(R) - 1
      BY <1>3, FS_RemoveElement
    <3>2. Cardinality(S) <= Cardinality(R \ {i}) /\ Cardinality(S) \in Nat
      BY <2>1, <3>1, FS_Subset, FS_CardinalityType
    <3> HIDE DEF S, R, n
    <3> QED BY <1>1, <1>3, <3>1, <3>2
  <2>3. PrizeAmount(d, i) = Share(d, i)
    BY <2>2 DEF PrizeAmount
  <2>4. Amount(d, <<"prize", i>>) = Share(d, i)
    <3>1. Share(d, i) \in Nat
      BY <2>1, ShareIsNat
    <3> QED BY <2>3, <3>1 DEF Amount
  <2> QED BY <2>1, <2>4
<1>10. a[k] \in Nat /\ a[k] <= d.pool - SumFunctionOnSet(f, R)
  <2>1. R = {j \in d.win : j < k}
    BY <1>1, <1>2, <1>3
  <2>2. SumFunctionOnSet([j \in R |-> Share(d, j)], R) = SumFunctionOnSet(f, R)
    <3> DEFINE g == [j \in R |-> Share(d, j)]
    <3>1. ASSUME NEW j \in R PROVE g[j] = f[j] /\ f[j] \in Int
      <4>1. j \in Bets
        BY <1>3
      <4>2. f[j] = Share(d, j) /\ f[j] \in Nat
        BY <1>4, <4>1
      <4>3. g[j] = Share(d, j)
        OBVIOUS
      <4> HIDE DEF f, g
      <4> QED BY <4>2, <4>3
    <3> HIDE DEF g, f, R
    <3>2. SumFunctionOnSet(g, R) = SumFunctionOnSet(f, R)
      BY <1>3, <3>1, SumSame
    <3> QED BY <3>2 DEF g
  <2>3. PICK left \in Nat : left = d.pool - SumFunctionOnSet(f, R)
    <3> HIDE DEF f, R
    <3> QED BY <1>1, <1>7, <1>8
  <2>4. PICK x \in Nat : x = Share(d, k)
    BY <1>3, <1>4
  <2>5. Cardinality(R) + 1 = d.nWinners
    BY <1>1, <1>3
  <2>6. PrizeAmount(d, k) = IF x > left THEN left ELSE x
    <3> HIDE DEF f
    <3> QED BY <2>1, <2>2, <2>3, <2>4, <2>5 DEF PrizeAmount
  <2>7. PrizeAmount(d, k) \in Nat /\ PrizeAmount(d, k) <= left
    BY <2>6
  <2>8. Amount(d, <<"prize", k>>) = PrizeAmount(d, k)
    BY <2>7 DEF Amount
  <2>9. a[k] = PrizeAmount(d, k)
    BY <2>8
  <2> HIDE DEF a, f, R
  <2> QED BY <2>3, <2>7, <2>9
<1>11. SumFunctionOnSet(a, W) = a[k] + SumFunctionOnSet(f, R)
  <2> HIDE DEF a, f
  <2>2. \A i \in R : a[i] = f[i] /\ f[i] \in Int
    <3> TAKE i \in R
    <3>1. f[i] \in Nat
      BY <1>3, <1>4
    <3> QED BY <1>9, <3>1
  <2>1. \A i \in W : a[i] \in Int
    <3> TAKE i \in W
    <3>1. CASE i = k
      BY <1>10, <3>1
    <3>2. CASE i \in R
      BY <2>2, <3>2
    <3> QED BY <3>1, <3>2
  <2>3. SumFunctionOnSet(a, R) = SumFunctionOnSet(f, R)
    <3> HIDE DEF R
    <3> QED BY <1>3, <2>2, SumSame
  <2>4. SumFunctionOnSet(a, W) = a[k] + SumFunctionOnSet(a, R)
    <3> HIDE DEF W
    <3> QED BY <1>1, <2>1, SumWithout
  <2> QED BY <2>3, <2>4
<1>12. SumFunctionOnSet(a, W) <= d.pool
  <2> HIDE DEF a, f, R, W
  <2> QED BY <1>1, <1>7, <1>10, <1>11
<1> QED BY <1>12 DEF a, W

-----------------------------------------------------------------------------
(* What is owed is there.                                                   *)

\* The winners are the bets on the agent that won, and the plan is theirs.
LEMMA WinnersAre ==
  ASSUME SolventInv, game.result <= 1, game.nWinners # 0
  PROVE  /\ game \in DocType /\ game.win # {} /\ game.players # {}
         /\ game.nWinners = Cardinality(game.win) /\ game.betWinners = StakeOf(game.win)
         /\ game.fee + game.pool = Total(game)
         /\ \A c \in Outs : paid[c] # 0 => Owed(c, game)
<1>1. /\ game \in DocType /\ game.win # {} /\ game.players # {}
      /\ \A i \in game.win : i \in game.players /\ BetOn[i] = game.winner
  BY SolventTypes DEF SolventInv, BetsInv, SettleInv, Winning, Backed
<1>2. Fixed(game) /\ \A c \in Outs : paid[c] # 0 => Owed(c, game)
  BY DEF SolventInv, Frozen, Begun
<1>3. game.winner # NoAgent
  <2>1. PICK i \in game.win : BetOn[i] = game.winner
    BY <1>1
  <2>2. i \in Bets
    BY <1>1 DEF DocType
  <2> QED BY <2>1, <2>2, Constants
<1> DEFINE W == {i \in game.players : BetOn[i] = game.winner}
<1>4. PICK e : e = DeterminePlayerWinner(game)
  OBVIOUS
<1>5. /\ e.win = game.win \cup W /\ e.nWinners = Cardinality(W) /\ e.betWinners = StakeOf(W)
      /\ e.fee = RoundDiv(Total(game) * FeePct, 100)
      /\ e.pool = Total(game) - RoundDiv(Total(game) * FeePct, 100)
  BY <1>1, <1>3, <1>4, DetermineIs
<1>6. /\ e.win = game.win /\ e.nWinners = game.nWinners /\ e.betWinners = game.betWinners
      /\ e.fee = game.fee /\ e.pool = game.pool
  BY <1>2, <1>4 DEF Fixed, SamePlan
<1>7. W = game.win
  <2>1. game.win \subseteq W
    BY <1>1
  <2> HIDE DEF W
  <2> QED BY <1>5, <1>6, <2>1
<1>8. game.fee + game.pool = Total(game)
  <2>1. Total(game) \in Nat /\ game.fee \in Nat
    BY <1>1, TotalIsNat DEF DocType
  <2> QED BY <1>5, <1>6, <2>1
<1> HIDE DEF W
<1> QED BY <1>1, <1>2, <1>5, <1>6, <1>7, <1>8

\* The fee and the prizes are no more than all the stakes.
LEMMA ClaimsWithin ==
  ASSUME SolventInv, game.result <= 1, game.nWinners # 0, RoundingSmall(game)
  PROVE  /\ Claims(game) = {<<"fee", 0>>} \cup ({"prize"} \X game.win)
         /\ Claims(game) \in SUBSET Outs
         /\ SumFunctionOnSet([c \in Outs |-> Amount(game, c)], Claims(game)) <= Total(game)
<1> DEFINE W == game.win
           P == {"prize"} \X W
           f == [c \in Outs |-> Amount(game, c)]
           a == [i \in W |-> Amount(game, <<"prize", i>>)]
<1>1. /\ game \in DocType /\ W \in SUBSET Bets /\ IsFiniteSet(W) /\ game.players # {} /\ W # {}
      /\ game.nWinners = Cardinality(W) /\ game.betWinners = StakeOf(W)
      /\ game.fee + game.pool = Total(game) /\ game.fee \in Nat /\ game.pool \in Nat
  <2>1. /\ game \in DocType /\ game.players # {} /\ W # {}
        /\ game.nWinners = Cardinality(W) /\ game.betWinners = StakeOf(W)
        /\ game.fee + game.pool = Total(game)
    BY WinnersAre
  <2>2. W \in SUBSET Bets /\ game.fee \in Nat /\ game.pool \in Nat
    BY <2>1 DEF DocType
  <2>3. IsFiniteSet(W)
    BY <2>2, Constants, FS_Subset
  <2> QED BY <2>1, <2>2, <2>3
<1>2. Claims(game) = P \cup {<<"fee", 0>>}
  BY <1>1 DEF Claims
<1>3. P \in SUBSET Outs /\ <<"fee", 0>> \in Outs /\ <<"fee", 0>> \notin P
  BY <1>1 DEF Outs
<1>4. \A c \in Outs : f[c] = Amount(game, c) /\ f[c] \in Nat
  BY <1>1, OutsAre, AmountIsNat
<1>5. f[<<"fee", 0>>] = game.fee
  BY <1>3 DEF Amount
<1>6. SumFunctionOnSet(a, W) <= game.pool
  BY <1>1, PrizesWithin
<1>7. \A i \in W : a[i] \in Int /\ f[<<"prize", i>>] = a[i]
  <2> TAKE i \in W
  <2>1. <<"prize", i>> \in Outs
    BY <1>3
  <2>2. f[<<"prize", i>>] = Amount(game, <<"prize", i>>) /\ f[<<"prize", i>>] \in Nat
    BY <1>4, <2>1
  <2>3. a[i] = Amount(game, <<"prize", i>>)
    OBVIOUS
  <2> HIDE DEF a, f
  <2> QED BY <2>2, <2>3
<1> HIDE DEF a, f
<1>8. SumFunctionOnSet(f, P) = SumFunctionOnSet(a, W) /\ IsFiniteSet(P)
  <2>1. \A i \in W : a[i] \in Int /\ f[<<"prize", i>>] = a[i]
    BY <1>7
  <2>2. IsFiniteSet(W)
    BY <1>1
  <2> HIDE DEF W
  <2>3. SumFunctionOnSet(f, {"prize"} \X W) = SumFunctionOnSet(a, W) /\ IsFiniteSet({"prize"} \X W)
    BY <2>1, <2>2, SumOfPairs, Zenon
  <2> QED BY <2>3
<1>9. SumFunctionOnSet(a, W) \in Int
  BY <1>1, <1>7, SumOfIntegers
<1>10. SumFunctionOnSet(f, P \cup {<<"fee", 0>>}) = f[<<"fee", 0>>] + SumFunctionOnSet(f, P)
  <2>1. \A y \in P \cup {<<"fee", 0>>} : f[y] \in Int
    BY <1>3, <1>4
  <2> HIDE DEF P
  <2> QED BY <1>3, <1>8, <2>1, SumAdd
<1>11. SumFunctionOnSet(f, Claims(game)) <= Total(game)
  <2> HIDE DEF P, W
  <2> QED BY <1>1, <1>2, <1>5, <1>6, <1>8, <1>9, <1>10
<1> QED BY <1>2, <1>3, <1>11 DEF f

\* When nothing is left to collect, what was collected is all the stakes.
LEMMA AllCollected ==
  ASSUME NEW d \in DocType, Uncollected(d) = {}
  PROVE  Collected(d) = Total(d)
<1> DEFINE M == d.moved
           f == d.amount
<1>1. M \in SUBSET Agents /\ IsFiniteSet(Agents) /\ \A x \in Agents : f[x] \in Nat
  BY Constants DEF DocType
<1>2. \A x \in Agents \ M : f[x] = 0
  BY DEF Uncollected
<1> HIDE DEF M, f
<1>3. /\ {} \in SUBSET M /\ \A c \in Agents : f[c] \in Int
      /\ \A x \in {} : f[x] = 0
      /\ \A x \in M \ {} : f[x] = f[x]
  BY <1>1
<1>4. SumFunctionOnSet(f, {}) + SumFunctionOnSet(f, Agents) = SumFunctionOnSet(f, M)
  BY <1>1, <1>2, <1>3, SumParts
<1>5. SumFunctionOnSet(f, {}) = 0 /\ SumFunctionOnSet(f, Agents) \in Int
  BY <1>1, SumOfNone, SumOfIntegers
<1> QED BY <1>4, <1>5 DEF Collected, Total, M, f

\* With nothing lost or paid twice, a claim is open or it was paid once.
LEMMA OpenOrPaid ==
  ASSUME RecordInv, NothingAstray, NEW c \in Items
  PROVE  /\ (c \notin Recorded(game) /\ InFlight(c) = {}) => paid[c] = 0
         /\ ~(c \notin Recorded(game) /\ InFlight(c) = {}) => paid[c] = 1
<1> DEFINE r == IF c \in Recorded(game) THEN 1 ELSE 0
           n == Cardinality(InFlight(c))
<1>1. paid[c] = r + lost[c] + n /\ paid[c] <= 1 /\ lost[c] = 0
  BY DEF RecordInv, PaymentsAccounted, NothingAstray
<1>2. n \in Nat /\ (InFlight(c) = {} <=> n = 0)
  <2>1. IsFiniteSet(InFlight(c))
    BY Constants, FS_Subset DEF InFlight
  <2> QED BY <2>1, FS_CardinalityType, FS_EmptySet
<1>3. r \in {0, 1} /\ (c \in Recorded(game) <=> r = 1)
  OBVIOUS
<1>4. (r = 0 /\ n = 0 => paid[c] = 0) /\ (r # 0 \/ n # 0 => paid[c] = 1)
  <2> HIDE DEF r, n
  <2> QED BY <1>1, <1>2, <1>3
<1> HIDE DEF r, n
<1> QED BY <1>2, <1>3, <1>4

\* The open claims, and what was spent, are all the claims.
LEMMA OpenAndSpent ==
  ASSUME RecordInv, SolventInv, NothingAstray, game.result <= 1, game.nWinners # 0,
         Claims(game) = {<<"fee", 0>>} \cup ({"prize"} \X game.win),
         Claims(game) \in SUBSET Outs,
         NEW O, O = {k \in Claims(game) \ Recorded(game) : InFlight(k) = {}}
  PROVE  SumFunctionOnSet([c \in O |-> Amount(game, c)], O) + Spent(game, paid)
           = SumFunctionOnSet([c \in Outs |-> Amount(game, c)], Claims(game))
<1> DEFINE C == Claims(game)
           f == [c \in Outs |-> Amount(game, c)]
           h == [c \in Outs |-> paid[c] * Amount(game, c)]
           o == [c \in O |-> Amount(game, c)]
<1>1. game \in DocType /\ paid \in [Items -> Nat] /\ Outs \in SUBSET Items /\ IsFiniteSet(Outs)
  BY SolventTypes, OutsAre
<1>2. \A c \in Outs : f[c] = Amount(game, c) /\ h[c] = paid[c] * Amount(game, c)
  OBVIOUS
<1>3. \A c \in O : o[c] = Amount(game, c)
  OBVIOUS
<1>4. \A c \in Outs : paid[c] \in Nat /\ Amount(game, c) \in Nat /\ paid[c] * Amount(game, c) \in Nat
  BY <1>1, SpentIsNat
<1> HIDE DEF f, h, o
<1>5. C \in SUBSET Outs /\ O \in SUBSET C
  OBVIOUS
<1>6. ASSUME NEW c \in C PROVE paid[c] = IF c \in O THEN 0 ELSE 1
  BY <1>1, OpenOrPaid
<1>7. ASSUME NEW c \in Outs \ C PROVE paid[c] = 0
  <2> SUFFICES ASSUME paid[c] # 0 PROVE FALSE
    OBVIOUS
  <2>1. Owed(c, game)
    BY WinnersAre
  <2>2. c = <<"fee", 0>> \/ (\E i \in Bets : c = <<"prize", i>> \/ c = <<"refund", i>>)
    BY DEF Outs
  <2> QED BY <2>1, <2>2 DEF Owed
<1>8. \A c \in Outs : f[c] \in Int /\ h[c] \in Int
  BY <1>2, <1>4
<1>9. \A c \in Outs \ C : h[c] = 0
  <2> TAKE c \in Outs \ C
  <2>1. paid[c] = 0 /\ h[c] = paid[c] * Amount(game, c) /\ Amount(game, c) \in Nat
    BY <1>2, <1>4, <1>7
  <2> QED BY <2>1
<1>10. \A c \in O : h[c] = 0
  <2> TAKE c \in O
  <2>1. paid[c] = 0 /\ h[c] = paid[c] * Amount(game, c) /\ Amount(game, c) \in Nat
    BY <1>2, <1>4, <1>5, <1>6
  <2> QED BY <2>1
<1>11. \A c \in C \ O : h[c] = f[c]
  <2> TAKE c \in C \ O
  <2>1. /\ paid[c] = 1 /\ h[c] = paid[c] * Amount(game, c) /\ Amount(game, c) \in Nat
        /\ f[c] = Amount(game, c)
    BY <1>2, <1>4, <1>5, <1>6
  <2> QED BY <2>1
<1>12. SumFunctionOnSet(f, O) + SumFunctionOnSet(h, Outs) = SumFunctionOnSet(f, C)
  <2> HIDE DEF C
  <2> QED BY <1>1, <1>5, <1>8, <1>9, <1>10, <1>11, SumParts
<1>13. SumFunctionOnSet(o, O) = SumFunctionOnSet(f, O)
  <2>1. IsFiniteSet(O) /\ \A c \in O : o[c] = f[c] /\ f[c] \in Int
    BY <1>1, <1>2, <1>3, <1>5, <1>8, FS_Subset
  <2> QED BY <2>1, SumSame
<1> QED BY <1>12, <1>13 DEF Spent, f, h, o

LEMMA SolventNow == ASSUME RecordInv, SolventInv PROVE GameSolvent
<1> SUFFICES ASSUME NothingAstray, game.result <= 1, game.nWinners # 0, RoundingSmall(game),
                    Uncollected(game) = {},
                    NEW O, O = {k \in Claims(game) \ Recorded(game) : InFlight(k) = {}}
             PROVE  SumFunctionOnSet([c \in O |-> Amount(game, c)], O) <= gameBal
  BY DEF GameSolvent
<1> DEFINE due == SumFunctionOnSet([c \in O |-> Amount(game, c)], O)
           all == SumFunctionOnSet([c \in Outs |-> Amount(game, c)], Claims(game))
<1>1. /\ game \in DocType /\ gameBal \in Nat /\ Spent(game, paid) \in Nat
      /\ Collected(game) <= gameBal + Spent(game, paid)
  <2>1. game \in DocType /\ gameBal \in Nat /\ paid \in [Items -> Nat]
    BY SolventTypes
  <2>2. Spent(game, paid) \in Nat
    BY <2>1, SpentIsNat
  <2> QED BY <2>1, <2>2 DEF SolventInv, Ledger, Funded
<1>2. Collected(game) = Total(game) /\ Total(game) \in Nat
  BY <1>1, AllCollected, TotalIsNat
<1>3. all <= Total(game)
  BY ClaimsWithin
<1>4. due + Spent(game, paid) = all
  <2>1. /\ Claims(game) = {<<"fee", 0>>} \cup ({"prize"} \X game.win)
        /\ Claims(game) \in SUBSET Outs
    BY ClaimsWithin
  <2> QED BY <2>1, OpenAndSpent
<1>5. due \in Int
  <2> DEFINE o == [c \in O |-> Amount(game, c)]
  <2>1. O \in SUBSET Outs
    BY ClaimsWithin
  <2>2. IsFiniteSet(O)
    BY <2>1, OutsAre, FS_Subset
  <2>3. \A c \in O : o[c] \in Int
    <3>1. \A c \in O : Amount(game, c) \in Nat
      BY <1>1, <2>1, OutsAre, AmountIsNat
    <3> QED BY <3>1
  <2> HIDE DEF o
  <2>4. SumFunctionOnSet(o, O) \in Int
    BY <2>2, <2>3, SumOfIntegers
  <2> QED BY <2>4 DEF o
<1> HIDE DEF due, all
<1>6. due <= gameBal
  BY <1>1, <1>2, <1>3, <1>4, <1>5
<1> QED BY <1>6 DEF due

\* Once the stakes are collected, as long as no transfer was lost or made twice, no second
\* result was given and the prizes are large against their rounding, the game's wallet holds
\* the fee and every prize not yet sent, whatever order watchers, handlers and failed writes
\* come in (Settle, PrizeToWinners and DeterminePlayerWinner of game.go).
THEOREM GameIsSolvent == Spec => []GameSolvent
<1>1. Init => RecordInv /\ SolventInv
  BY InitRecords, InitSolvent
<1>2. RecordInv /\ SolventInv /\ [Next]_vars => (RecordInv /\ SolventInv)'
  BY NextRecords, NextSolvent
<1>3. RecordInv /\ SolventInv => GameSolvent
  BY SolventNow
<1> QED BY <1>1, <1>2, <1>3, PTL DEF Spec
=============================================================================

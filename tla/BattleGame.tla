------------------------------ MODULE BattleGame ------------------------------
(***************************************************************************)
(* One betting game of the agent-battle backend.                           *)
(*                                                                         *)
(* The game is ONE document of a database.  Watchers (loops started again  *)
(* by every tick of the scheduler) and HTTP handlers each read a private   *)
(* copy of it, send token transfers on chain, change the copy and write    *)
(* the copy back with a conditional replace: the write succeeds only when  *)
(* nobody has written since the copy was read.  A transfer cannot be       *)
(* undone, so what matters is what becomes of the transfers a process made *)
(* before a write of its own fails or it crashes.                          *)
(*                                                                         *)
(* Bets are token transfers to an agent, numbered in the order in which    *)
(* they land on chain; "head" is the last block.  The game knows a bet     *)
(* again by its sender and its transaction, so that of several transfers   *)
(* one transaction makes for one sender it records only the first.         *)
(***************************************************************************)
EXTENDS Integers, FiniteSets, FiniteSetsExt

CONSTANTS
  Watchers,      \* goroutines that run the watch loop
  Handler,       \* the HTTP handler in progress
  Agents,        \* the battling agents, numbered in wallet order
  NumBets,       \* the bets players may send
  NumBlocks,     \* bound: the blocks of the chain
  BlockOf,       \* BlockOf[i]: the block bet i lands in
  TxOf,          \* TxOf[i]: the transaction that makes bet i
  Bettor,        \* Bettor[i]: the address bet i comes from
  BetOn,         \* BetOn[i]: the agent bet i is sent to
  Stake,         \* Stake[i]: the recorded tokens of bet i; 0 if it is dust that rounds to nothing
  FeePct,        \* the game fee in percent of the bets
  Lookback,      \* blocks the first scan looks back
  MaxResults, MaxEnds, MaxFaults   \* bounds: results given, EndGame calls, faults

Bets == 1..NumBets
Procs == Watchers \cup {Handler}
NoAgent == 0

ASSUME BattleAssumption ==
  /\ Handler \notin Watchers /\ IsFiniteSet(Watchers)
  /\ NumBets \in Nat /\ Agents \subseteq Nat \ {0} /\ IsFiniteSet(Agents)
  /\ Stake \in [Bets -> Nat] /\ BetOn \in [Bets -> Agents]
  /\ DOMAIN Bettor = Bets /\ DOMAIN TxOf = Bets
  /\ NumBlocks \in Nat /\ BlockOf \in [Bets -> 1..NumBlocks]
  /\ \A i, j \in Bets : /\ i <= j => BlockOf[i] <= BlockOf[j]
                        /\ TxOf[i] = TxOf[j] => BlockOf[i] = BlockOf[j]
  /\ FeePct \in 0..100 /\ Lookback \in Nat
  /\ MaxResults \in Nat /\ MaxEnds \in Nat /\ MaxFaults \in Nat

VARIABLES
  game,      \* the document in the database
  loc,       \* loc[p]: what process p is doing, with its copy of the document
  lock,      \* the worker document the watch loops take turns with
  head,      \* the last block of the chain
  agentBal,  \* tokens in the wallet of each agent
  gameBal,   \* tokens in the wallet of the game
  betOpen, timeUp, aged,  \* clocks: BetEndTime and EndTime passed, latest result past its buffer
  ends, faults,           \* EndGame calls and faults so far
  paid, lost              \* history: transfers made, and those of them no document will ever record

vars == <<game, loc, lock, head, agentBal, gameBal, betOpen, timeUp, aged,
          ends, faults, paid, lost>>

Statuses == {"Running", "Ended", "ResultUpdated", "Completed"}

\* A transfer the game has to make: its purpose and the agent or bet it is for.
Items == ({"collect"} \X Agents) \cup {<<"fee", 0>>}
           \cup ({"prize", "refund", "late"} \X Bets)

-----------------------------------------------------------------------------
(* The document.  A player record is the number of its bet.                 *)

NewGame ==
  [status |-> "Running", winner |-> NoAgent, result |-> 0, forced |-> FALSE,
   players |-> {}, late |-> {}, block |-> 0,
   amount |-> [a \in Agents |-> 0], moved |-> {},
   win |-> {}, nWinners |-> 0, betWinners |-> 0, fee |-> 0, pool |-> 0,
   feePaid |-> FALSE, prizePaid |-> {}, refunded |-> {}, lateRefunded |-> {}]

Total(d) == SumFunctionOnSet(d.amount, Agents)
StakeOf(S) == SumFunctionOnSet(Stake, S)

Unscaled(x, y) == x
\* x / y rounded half up to a whole number of tokens.
RoundDiv(x, y) == (2 * x + y) \div (2 * y)

\* The bets on the winner win; the fee is rounded, the pool is the rest.
\* With no winner nothing is reset, and a win once given is never taken back.
DeterminePlayerWinner(d) ==
  IF d.winner = NoAgent THEN d
  ELSE LET W == {i \in d.players : BetOn[i] = d.winner}
           fee == RoundDiv(Total(d) * FeePct, 100)
       IN [d EXCEPT !.win = @ \cup W, !.nWinners = Cardinality(W),
                    !.betWinners = StakeOf(W), !.fee = fee,
                    !.pool = Total(d) - fee]

\* A winner's share of the pool, in proportion to its bet (not a number when the
\* winning bets are of nothing: GasUnpayable) ...
Share(d, i) ==
  IF d.betWinners = 0 THEN 0 ELSE RoundDiv(Stake[i] * d.pool, d.betWinners)

FullShare(d, i) == Share(d, i)

\* ... except that the last winner gets no more than what is left.
PrizeAmount(d, i) ==
  LET before == {j \in d.win : j < i}
      left == d.pool - SumFunctionOnSet([j \in before |-> Share(d, j)], before)
  IN IF Cardinality(before) + 1 = d.nWinners /\ Share(d, i) > left
       THEN left ELSE Share(d, i)

\* The first record of each address stands for all of its records.
FirstOf(S) == {i \in S : \A j \in S : Bettor[j] = Bettor[i] => i <= j}
RefundAmount(S, i) == StakeOf({j \in S : Bettor[j] = Bettor[i]})

\* What the document records as sent.
Recorded(d) ==
  ({"collect"} \X d.moved) \cup (IF d.feePaid THEN {<<"fee", 0>>} ELSE {})
    \cup ({"prize"} \X d.prizePaid) \cup ({"refund"} \X d.refunded)
    \cup ({"late"} \X d.lateRefunded)

Record(d, item) ==
  CASE item[1] = "collect" -> [d EXCEPT !.moved = @ \cup {item[2]}]
    [] item[1] = "fee"     -> [d EXCEPT !.feePaid = TRUE]
    [] item[1] = "prize"   -> [d EXCEPT !.prizePaid = @ \cup {item[2]}]
    [] item[1] = "refund"  -> [d EXCEPT !.refunded = @ \cup {item[2]}]
    [] item[1] = "late"    -> [d EXCEPT !.lateRefunded = @ \cup {item[2]}]

Amount(d, item) ==
  CASE item[1] = "collect" -> d.amount[item[2]]
    [] item[1] = "fee"     -> d.fee
    [] item[1] = "prize"   -> LET x == PrizeAmount(d, item[2])
                              IN IF x < 0 THEN -x ELSE x    \* the encoding drops the sign
    [] item[1] = "refund"  -> RefundAmount(d.players, item[2])
    [] item[1] = "late"    -> RefundAmount(d.late, item[2])

\* The wallet a transfer is drawn on: an agent, or the game (NoAgent).
Wallet(item) ==
  CASE item[1] = "collect" -> item[2]
    [] item[1] = "late"    -> BetOn[item[2]]
    [] OTHER               -> NoAgent

Funds(w) == IF w = NoAgent THEN gameBal ELSE agentBal[w]

-----------------------------------------------------------------------------
(* Processes.  pc names the next step; "done" is the end of a watch pass.   *)

Idle == [pc |-> "idle", mode |-> "none", doc |-> NewGame, fresh |-> FALSE,
         ok |-> TRUE, unsaved |-> {}]

Rest(p) == IF p \in Watchers THEN [Idle EXCEPT !.pc = "done"] ELSE Idle

Goto(p, r) == loc' = [loc EXCEPT ![p] = r]

CompleteAnyway(p) ==
  IF loc[p].mode = "complete" THEN [loc[p] EXCEPT !.pc = "defer"] ELSE Rest(p)

\* How a flow goes on after an error: completing a game still runs its deferred
\* write, without the Completed status; every other flow returns.
Failed(p) ==
  IF loc[p].mode = "complete" /\ loc[p].pc # "defer"
    THEN [loc[p] EXCEPT !.pc = "defer", !.ok = FALSE]
    ELSE Rest(p)

\* A panic: the deferred write of a completion still runs, and since no error was
\* returned it marks the game completed; elsewhere the process is gone.
Panicked(p) ==
  IF loc[p].mode = "complete" THEN [loc[p] EXCEPT !.pc = "defer"] ELSE Idle

Bump(f, S) == [i \in Items |-> f[i] + (IF i \in S THEN 1 ELSE 0)]

\* The refund handler returns at once, which cancels the context its goroutine
\* works with: every call of the goroutine may fail without any other cause.
Cancelled(p) == loc[p].mode = "refund"

Fault == faults < MaxFaults /\ faults' = faults + 1

Init ==
  /\ game = NewGame
  /\ loc = [p \in Procs |-> Idle]
  /\ lock = [running |-> FALSE, recent |-> FALSE, holder |-> Handler]
  /\ head = 0
  /\ agentBal = [a \in Agents |-> 0] /\ gameBal = 0
  /\ betOpen = TRUE /\ timeUp = FALSE /\ aged = 0
  /\ ends = 0 /\ faults = 0
  /\ paid = [i \in Items |-> 0] /\ lost = [i \in Items |-> 0]

chain == <<head, agentBal, gameBal>>
clocks == <<betOpen, timeUp, aged>>
history == <<paid, lost>>

-----------------------------------------------------------------------------
(* The outside: players, clocks and crashes.                                *)

\* The next block, with the bets that land in it.
PlaceBets ==
  /\ head < NumBlocks
  /\ head' = head + 1
  /\ agentBal' = [a \in Agents |->
                    agentBal[a] + StakeOf({i \in Bets : BlockOf[i] = head + 1 /\ BetOn[i] = a})]
  /\ UNCHANGED <<game, loc, lock, gameBal, clocks, ends, faults, history>>

ClockTick ==
  /\ \/ betOpen /\ betOpen' = FALSE /\ UNCHANGED <<timeUp, aged>>
     \/ ~timeUp /\ timeUp' = TRUE /\ UNCHANGED <<betOpen, aged>>
     \/ aged < game.result /\ aged' = game.result /\ UNCHANGED <<betOpen, timeUp>>
  /\ UNCHANGED <<game, loc, lock, chain, ends, faults, history>>

\* One minute after the last pass ended the lock is free, whoever holds it.
LockExpires ==
  /\ lock.recent
  /\ lock' = [lock EXCEPT !.recent = FALSE]
  /\ UNCHANGED <<game, loc, chain, clocks, ends, faults, history>>

\* A process dies with its copy: what it had sent and not recorded is lost.
Crash(p) ==
  /\ loc[p].pc # "idle"
  /\ Fault
  /\ lost' = Bump(lost, loc[p].unsaved)
  /\ Goto(p, Idle)
  /\ UNCHANGED <<game, lock, chain, clocks, ends, paid>>

-----------------------------------------------------------------------------
(* Starting: the watch loop and the three handlers.                         *)

Reading(mode, pc) ==
  [Idle EXCEPT !.pc = pc, !.mode = mode, !.doc = game, !.fresh = TRUE]

StartPass(w) ==
  /\ loc[w].pc = "idle"
  /\ ~(lock.running /\ lock.recent)
  /\ game.status \in {"Running", "ResultUpdated"}
  /\ lock' = [lock EXCEPT !.running = TRUE, !.holder = w]
  /\ Goto(w, Reading("watch", "pass"))
  /\ UNCHANGED <<game, chain, clocks, ends, faults, history>>

Overdue(d) == d.forced \/ timeUp

ResultInTime(d) == d.status = "ResultUpdated" /\ d.result <= aged /\ ~Overdue(d)
\* A result is settled once its buffer has passed, whether the time is over or not.
ResultDue(d) == d.status = "ResultUpdated" /\ d.result <= aged

\* The three tests of the watch loop, in their order, on the copy it read.
Dispatch(w) ==
  LET d == loc[w].doc
  IN /\ loc[w].pc = "pass"
     /\ \/ /\ ResultDue(d)
           /\ Goto(w, [loc[w] EXCEPT !.pc = "determine", !.mode = "complete"])
        \/ /\ ~ResultDue(d) /\ Overdue(d)
           /\ Goto(w, [loc[w] EXCEPT !.pc = "collect"])
        \/ /\ ~ResultDue(d) /\ ~Overdue(d) /\ betOpen
           /\ Goto(w, [loc[w] EXCEPT !.pc = "balance"])
        \/ /\ ~ResultDue(d) /\ ~Overdue(d) /\ ~betOpen
           /\ Goto(w, Rest(w))
     /\ UNCHANGED <<game, lock, chain, clocks, ends, faults, history>>

\* The lock is given back only if nobody took it over meanwhile.
EndPass(w) ==
  /\ loc[w].pc = "done"
  /\ Goto(w, Idle)
  /\ lock' = IF lock.holder = w
               THEN [running |-> FALSE, recent |-> TRUE, holder |-> w] ELSE lock
  /\ UNCHANGED <<game, chain, clocks, ends, faults, history>>

\* A result is refused only while another one is waiting to be settled.
GameResult ==
  /\ loc[Handler].pc = "idle"
  /\ game.status # "ResultUpdated"
  /\ game.result < MaxResults
  /\ \E w \in Agents \cup {NoAgent} :
       LET r == Reading("api", "saveOnly")
       IN Goto(Handler, [r EXCEPT !.doc.winner = w, !.doc.status = "ResultUpdated",
                                  !.doc.result = @ + 1])
  /\ UNCHANGED <<game, lock, chain, clocks, ends, faults, history>>

EndGame ==
  /\ loc[Handler].pc = "idle"
  /\ ends < MaxEnds
  /\ ends' = ends + 1
  /\ LET r == Reading("api", "saveEndTime")
     IN Goto(Handler, [r EXCEPT !.doc.forced = TRUE])
  /\ UNCHANGED <<game, lock, chain, clocks, faults, history>>

RefundsExpiredPlayers ==
  /\ loc[Handler].pc = "idle"
  /\ game.status = "Completed"
  /\ Goto(Handler, Reading("refund", "scanLate"))
  /\ UNCHANGED <<game, lock, chain, clocks, ends, faults, history>>

-----------------------------------------------------------------------------
(* Writing the copy back.                                                   *)

\* Where a flow goes on once its write is in.
AfterSave ==
  [saveOnly |-> "rest", defer |-> "rest", saveEndTime |-> "collect",
   saveCollect |-> "collect", saveDetermined |-> "settle", saveFee |-> "prize",
   savePrize |-> "prize", saveRefund |-> "refund", saveScan |-> "late",
   saveLate |-> "late"]

\* The document the write replaces the stored one with.
Outgoing(p) ==
  IF loc[p].pc = "defer" /\ loc[p].ok
    THEN [loc[p].doc EXCEPT !.status = "Completed"] ELSE loc[p].doc

LastWriteWins(p) == TRUE
\* The replace matches on the modification date the copy was read with.
DateMatches(p) == loc[p].fresh

Written(p) ==
  LET go == AfterSave[loc[p].pc]
      r == IF go = "rest" THEN Rest(p)
           ELSE [loc[p] EXCEPT !.pc = go, !.unsaved = {}]
  IN loc' = [q \in Procs |-> IF q = p THEN r ELSE [loc[q] EXCEPT !.fresh = FALSE]]

\* A failed write has already moved the copy's date on: none of the later writes
\* of the same flow can match any more, and what it sent is on no record.
NotWritten(p) ==
  LET r == Failed(p)
  IN Goto(p, [r EXCEPT !.fresh = FALSE, !.unsaved = {}])

UpdateGame(p) ==
  /\ loc[p].pc \in DOMAIN AfterSave
  /\ \/ /\ DateMatches(p)
        /\ game' = Outgoing(p)
        /\ Written(p)
        /\ UNCHANGED <<faults, lost>>
     \/ /\ IF DateMatches(p) /\ ~Cancelled(p) THEN Fault ELSE UNCHANGED faults
        /\ NotWritten(p)
        /\ lost' = Bump(lost, loc[p].unsaved)
        /\ UNCHANGED game
     \/ /\ DateMatches(p) /\ Fault           \* written, and reported as an error
        /\ game' = Outgoing(p)
        /\ LET r == Failed(p)
           IN loc' = [q \in Procs |->
                        IF q = p THEN [r EXCEPT !.fresh = FALSE, !.unsaved = {}]
                        ELSE [loc[q] EXCEPT !.fresh = FALSE]]
        /\ UNCHANGED lost
  /\ UNCHANGED <<lock, chain, clocks, ends, paid>>

-----------------------------------------------------------------------------
(* Transfers.                                                               *)

\* One transfer and what the process does next.  An amount of 0 is a nil integer
\* and panics when it is encoded.  Otherwise the transfer is refused when the
\* wallet is short; it may fail before it is sent; and it may be sent, and mined,
\* and still be reported as an error, which no document records.
Transfer(p, item, next) ==
  LET d == loc[p].doc
      amt == Amount(d, item)
      w == Wallet(item)
      sent == /\ amt # 0 /\ amt <= Funds(w)
              /\ agentBal' = IF w = NoAgent THEN agentBal
                             ELSE [agentBal EXCEPT ![w] = @ - amt]
              /\ gameBal' = IF item[1] = "collect" THEN gameBal + amt
                            ELSE IF w = NoAgent THEN gameBal - amt ELSE gameBal
              /\ paid' = Bump(paid, {item})
  IN /\ \/ /\ sent
           /\ Goto(p, [loc[p] EXCEPT !.pc = next, !.doc = Record(d, item),
                                     !.unsaved = @ \cup {item}])
           /\ UNCHANGED <<faults, lost>>
        \/ /\ sent /\ Fault
           /\ lost' = Bump(lost, {item})
           /\ Goto(p, Failed(p))
        \/ /\ amt # 0
           /\ IF amt > Funds(w) \/ Cancelled(p) THEN UNCHANGED faults ELSE Fault
           /\ Goto(p, Failed(p))
           /\ UNCHANGED <<agentBal, gameBal, paid, lost>>
        \/ /\ amt = 0
           /\ Goto(p, Panicked(p))
           /\ UNCHANGED <<agentBal, gameBal, paid, lost, faults>>
     /\ UNCHANGED <<game, lock, head, clocks, ends>>

\* A step that changes nothing but the process: the next pc and copy.
Local(p, pc, d) ==
  /\ Goto(p, [loc[p] EXCEPT !.pc = pc, !.doc = d])
  /\ UNCHANGED <<game, lock, chain, clocks, ends, faults, history>>

\* A call to the chain that fails before it changes anything.
CallFails(p) ==
  /\ loc[p].pc \in {"balance", "settle", "scanLate"}
  /\ IF Cancelled(p) THEN UNCHANGED faults ELSE Fault
  /\ Goto(p, Failed(p))
  /\ UNCHANGED <<game, lock, chain, clocks, ends, history>>

-----------------------------------------------------------------------------
(* The flows.                                                               *)

FromBlock(d) == IF d.block # 0 THEN d.block ELSE head - Lookback

BehindHead(d) == {i \in Bets : FromBlock(d) <= BlockOf[i] /\ BlockOf[i] < head}

\* The bets the scan of the chain finds, from the block of the last scan.
FilterTransfer(d) == {i \in Bets : FromBlock(d) <= BlockOf[i] /\ BlockOf[i] <= head}

SameRecord(i, j) == Bettor[i] = Bettor[j] /\ TxOf[i] = TxOf[j]

\* The first bet of each sender in each transaction.
FirstRecords(S) == {i \in S : \A j \in S : SameRecord(i, j) => i <= j}

\* The bets found that become records, given those on record already.
NewRecords(found, known) ==
  {i \in FirstRecords(found) : \A j \in known : ~SameRecord(i, j)}

\* Every bet found and not known yet becomes a player; the amounts are recomputed.
CheckGameBalance(p) ==
  LET d == loc[p].doc
      P == d.players \cup NewRecords(FilterTransfer(d), d.players)
  IN /\ loc[p].pc = "balance"
     /\ Local(p, "saveOnly",
              [d EXCEPT !.players = P, !.block = head,
                        !.amount = [a \in Agents |-> StakeOf({i \in P : BetOn[i] = a})]])

\* The agents whose recorded bets still have to be moved to the game's wallet.
Uncollected(d) == {a \in Agents : d.amount[a] # 0} \ d.moved

CollectOnly(p) ==
  LET d == loc[p].doc
  IN /\ loc[p].pc = "collect"
     /\ \/ /\ Uncollected(d) # {}
           /\ Transfer(p, <<"collect", Min(Uncollected(d))>>, "saveCollect")
        \/ Uncollected(d) = {} /\ Local(p, "saveOnly", d)

MarkEndGame(p) ==
  LET d == loc[p].doc
  IN /\ loc[p].pc = "collect"
     /\ \/ /\ Uncollected(d) # {}
           /\ Transfer(p, <<"collect", Min(Uncollected(d))>>, "saveCollect")
        \/ /\ Uncollected(d) = {}
           /\ Local(p, "saveOnly", [d EXCEPT !.status = "Ended"])

\* Completing a game: who has won what, or nobody took part.
MarkCompletedGame(p) ==
  LET d == loc[p].doc
  IN /\ loc[p].pc = "determine"
     /\ \/ d.players = {} /\ Local(p, "scanLate", d)
        \/ d.players # {} /\ Local(p, "saveDetermined", DeterminePlayerWinner(d))

AllWinners(d) == d.win
UnpaidWinners(d) == d.win \ d.prizePaid

\* The gas of the fee and of the largest prize is estimated first, which panics
\* on a fee or a prize of nothing.
GasUnpayable(d) ==
  d.fee = 0 \/ d.betWinners = 0 \/ \A i \in d.win : PrizeAmount(d, i) = 0

Settle(p) ==
  LET d == loc[p].doc
  IN /\ loc[p].pc = "settle"
     /\ \/ d.nWinners = 0 /\ Local(p, "refund", d)
        \/ /\ d.nWinners # 0 /\ UnpaidWinners(d) = {} /\ d.feePaid
           /\ Local(p, "scanLate", d)
        \/ /\ d.nWinners # 0 /\ (UnpaidWinners(d) # {} \/ ~d.feePaid)
           /\ IF GasUnpayable(d)
                THEN /\ Goto(p, Panicked(p))
                     /\ UNCHANGED <<game, lock, chain, clocks, ends, faults, history>>
                ELSE IF d.feePaid THEN Local(p, "prize", d)
                                  ELSE Transfer(p, <<"fee", 0>>, "saveFee")

PrizeToWinners(p) ==
  LET d == loc[p].doc
  IN /\ loc[p].pc = "prize"
     /\ \/ /\ UnpaidWinners(d) # {}
           /\ Transfer(p, <<"prize", Min(UnpaidWinners(d))>>, "savePrize")
        \/ UnpaidWinners(d) = {} /\ Local(p, "scanLate", d)

\* One transfer per address, in any order.
RefundToPlayers(p) ==
  LET d == loc[p].doc
      due == FirstOf(d.players) \ d.refunded
  IN /\ loc[p].pc = "refund"
     /\ \/ \E i \in due : Transfer(p, <<"refund", i>>, "saveRefund")
        \/ due = {} /\ Local(p, "scanLate", d)

\* Bets found after the last balance check came too late.
CheckExpiredPlayers(p) ==
  LET d == loc[p].doc
  IN /\ loc[p].pc = "scanLate"
     /\ Local(p, "saveScan",
              [d EXCEPT !.late = @ \cup NewRecords(FilterTransfer(d), d.players \cup @)])

RefundToExpiredPlayers(p) ==
  LET d == loc[p].doc
      due == FirstOf(d.late) \ d.lateRefunded
  IN /\ loc[p].pc = "late"
     /\ \/ \E i \in due : Transfer(p, <<"late", i>>, "saveLate")
        \/ /\ due = {} /\ loc[p].mode = "complete"
           /\ Local(p, "defer", d)
        \/ /\ due = {} /\ loc[p].mode = "refund"
           /\ Goto(p, Idle)
           /\ UNCHANGED <<game, lock, chain, clocks, ends, faults, history>>

-----------------------------------------------------------------------------
Step(p) ==
  \/ UpdateGame(p) \/ CheckGameBalance(p) \/ MarkEndGame(p) \/ MarkCompletedGame(p)
  \/ Settle(p) \/ PrizeToWinners(p) \/ RefundToPlayers(p)
  \/ CheckExpiredPlayers(p) \/ RefundToExpiredPlayers(p)

Watch(w) == StartPass(w) \/ Dispatch(w) \/ EndPass(w)

Next ==
  \/ PlaceBets \/ ClockTick \/ LockExpires
  \/ \E w \in Watchers : Watch(w)
  \/ GameResult \/ EndGame \/ RefundsExpiredPlayers
  \/ \E p \in Procs : Step(p) \/ CallFails(p) \/ Crash(p)

Spec == Init /\ [][Next]_vars

\* The watch loop goes on, a step begun is finished, and time passes.
Fairness ==
  /\ \A w \in Watchers : WF_vars(Watch(w))
  /\ \A p \in Procs : WF_vars(Step(p))
  /\ WF_vars(ClockTick) /\ WF_vars(LockExpires)

FairSpec == Spec /\ Fairness
=============================================================================

---------------------------- MODULE BattleGameProps ----------------------------
(* What a game of agent-battle owes its players, and what its writes may do. *)
EXTENDS BattleGame

DocType ==
  [status : Statuses, winner : Agents \cup {NoAgent}, result : 0..MaxResults,
   forced : BOOLEAN, players : SUBSET Bets, late : SUBSET Bets, block : 0..NumBlocks,
   amount : [Agents -> Nat], moved : SUBSET Agents, win : SUBSET Bets,
   nWinners : 0..NumBets, betWinners : Nat, fee : Nat, pool : Nat,
   feePaid : BOOLEAN, prizePaid : SUBSET Bets, refunded : SUBSET Bets,
   lateRefunded : SUBSET Bets]

PCs == DOMAIN AfterSave \cup
  {"idle", "done", "pass", "balance", "collect", "determine", "settle", "prize",
   "refund", "scanLate", "late"}

\* The document, every copy of it, the wallets and the counters have their types.
TypeOK ==
  /\ game \in DocType
  /\ \A p \in Procs :
       /\ loc[p].pc \in PCs /\ loc[p].mode \in {"none", "watch", "complete", "api", "refund"}
       /\ loc[p].doc \in DocType /\ loc[p].unsaved \subseteq Items
       /\ loc[p].fresh \in BOOLEAN /\ loc[p].ok \in BOOLEAN
  /\ lock \in [running : BOOLEAN, recent : BOOLEAN, holder : Procs]
  /\ head \in 0..NumBlocks
  /\ agentBal \in [Agents -> Nat] /\ gameBal \in Nat
  /\ betOpen \in BOOLEAN /\ timeUp \in BOOLEAN /\ aged \in 0..MaxResults
  /\ ends \in 0..MaxEnds /\ faults \in 0..MaxFaults
  /\ paid \in [Items -> Nat] /\ lost \in [Items -> Nat]

-----------------------------------------------------------------------------
(* Records of transfers.                                                    *)

InFlight(item) == {p \in Procs : item \in loc[p].unsaved}

\* Every transfer made on chain is recorded in the document exactly once, or
\* still in the hands of the process that made it, or was lost by a process that
\* crashed, got an error after sending, or found the document changed: a transfer
\* is made a second time only after such a loss or while another process is at it.
PaymentsAccounted ==
  \A i \in Items :
    paid[i] = (IF i \in Recorded(game) THEN 1 ELSE 0) + lost[i] + Cardinality(InFlight(i))

\* No write of a stale copy, by a second watcher or a handler, takes the record
\* of a transfer out of the document again.
RecordsSurvive == [][Recorded(game) \subseteq Recorded(game')]_vars

-----------------------------------------------------------------------------
(* Completion.                                                              *)

NothingAstray == \A i \in Items : paid[i] <= 1 /\ lost[i] = 0

Claims(d) ==
  IF d.players = {} THEN {}
  ELSE IF d.nWinners = 0 THEN {"refund"} \X FirstOf(d.players)
  ELSE {<<"fee", 0>>} \cup ({"prize"} \X d.win)

LateClaims(d) == {"late"} \X FirstOf(d.late)

Settled(d) == Claims(d) \cup LateClaims(d) \subseteq Recorded(d)

\* A claim of nothing, which the code cannot encode.
NilClaim(d) == \E c \in (Claims(d) \cup LateClaims(d)) : Amount(d, c) = 0

BecomesCompleted == game.status # "Completed" /\ game'.status = "Completed"

\* A watcher marks a game completed only when the fee and every prize, or every
\* refund, and every refund of a late bet is recorded as sent, whatever failed and
\* was retried on the way, unless one of the claims is for nothing.
CompletedSettled == [][BecomesCompleted => Settled(game') \/ NilClaim(game')]_vars

-----------------------------------------------------------------------------
(* Bets and money.                                                          *)

\* The players are exactly the senders' first bets in each transaction up to the block
\* of the last scan: the scans neither skip nor repeat one, whichever copies were lost
\* between them, and until a second result is given no bet is both played and refunded
\* as late.  A further transfer of a sender in the same transaction is on no record: it
\* is neither played nor refunded.
BetsFollowed ==
  /\ game.players = FirstRecords({i \in Bets : BlockOf[i] <= game.block})
  /\ game.result <= 1 => game.players \cap game.late = {}

\* Prizes are rounded up by at most a half each, which the last one makes up for if it is
\* large enough; recorded stakes are multiples of 10^5 (NewCryptoAmountFromBigInt).
RoundingSmall(d) == \A i \in d.win : d.nWinners <= 2 * Share(d, i)

\* Once the stakes are collected, as long as no transfer was lost or made twice, the
\* result stands and the prizes are large against their rounding, the game's wallet holds
\* the fee and every prize still to be paid.
GameSolvent ==
  (NothingAstray /\ game.result <= 1 /\ game.nWinners # 0 /\ RoundingSmall(game)
     /\ Uncollected(game) = {}) =>
    LET open == {c \in Claims(game) \ Recorded(game) : InFlight(c) = {}}
    IN SumFunctionOnSet([c \in open |-> Amount(game, c)], open) <= gameBal

-----------------------------------------------------------------------------
(* Progress.                                                                *)

\* A due transfer that its wallet cannot pay, or that is for nothing.
Unpayable(d) ==
  LET s == DeterminePlayerWinner(d)
  IN \/ \E a \in Uncollected(d) : agentBal[a] < d.amount[a]
     \/ d.status = "ResultUpdated" /\
          \E c \in (Claims(s) \cup LateClaims(s)) \ Recorded(s) :
             Amount(s, c) > Funds(Wallet(c)) \/ Amount(s, c) = 0

\* When its time is over a running game does not stay running, unless a wallet
\* is short of what is recorded for it.
GameEnds == (timeUp /\ game.status = "Running") ~> (game.status # "Running" \/ Unpayable(game))

\* One of the processes P is ending the game with a copy no write has overtaken: its
\* last write puts Ended over whatever status the game has.
EndUnderWay(P) ==
  \E p \in P :
    /\ loc[p].fresh
    /\ \/ loc[p].pc \in {"collect", "saveCollect", "saveEndTime"}
       \/ loc[p].pc = "saveOnly" /\ loc[p].doc.status = "Ended"

\* A result that gets past its buffer is settled, also when the game's time is over: the
\* game is completed, unless a transfer it calls for cannot be paid, or somebody calls
\* EndGame.
ResultHandled ==
  (game.status = "ResultUpdated" /\ game.result <= aged /\ ~EndUnderWay(Procs)) ~>
    (game.status = "Completed" \/ Unpayable(game) \/ EndUnderWay({Handler}))

\* What the watch loop's comment says of it: once the result is determined the game is
\* marked completed after the buffer.  (The loop itself ends a game whose time runs
\* out within the buffer, and the result is not looked at again.)
ResultCompletesGame ==
  game.status = "ResultUpdated" ~> (game.status = "Completed" \/ Unpayable(game))
=============================================================================

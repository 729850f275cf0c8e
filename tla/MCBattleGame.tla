----------------------------- MODULE MCBattleGame -----------------------------
(* Small instances of BattleGame for TLC. *)
EXTENDS BattleGameProps, Sequences, TLC

\* Two players bet on the first agent: with a fee of 20 % the shares of their
\* prizes are 1.5 and 4.5, which both round up.  The transaction of the second one
\* makes a transfer to the other agent too, which is not recorded.  Then the first
\* player bets dust on that agent, which is recorded as a bet of nothing.
MCBettor == SubSeq(<<"alice", "bob", "bob", "alice">>, 1, NumBets)
MCTxOf == SubSeq(<<"t1", "t2", "t2", "t3">>, 1, NumBets)
MCBlockOf == SubSeq(<<1, 2, 2, 3>>, 1, NumBets)
MCBetOn == SubSeq(<<1, 1, 2, 2>>, 1, NumBets)
MCStake == SubSeq(<<2, 6, 4, 0>>, 1, NumBets)

\* Bets on both agents, each by a transaction of its own: the pool is 10, the shares of
\* the winners' prizes 2.5 and 7.5 if all three are in.
BetOnBoth == SubSeq(<<1, 1, 2>>, 1, NumBets)
TxOfEach == [i \in 1..NumBets |-> i]

\* The watchers are interchangeable.
WatcherSymmetry == Permutations(Watchers)
=============================================================================

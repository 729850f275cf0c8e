SPECIFICATION Spec
CONSTANTS
  Watchers = {w1}
  Handler = api
  Agents = {1, 2}
  NumBets = 4
  NumBlocks = 3
  BlockOf <- MCBlockOf
  TxOf <- MCTxOf
  Bettor <- MCBettor
  BetOn <- MCBetOn
  Stake <- MCStake
  FeePct = 20
  Lookback = 10
  MaxResults = 2
  MaxEnds = 0
  MaxFaults = 1
INVARIANTS TypeOK PaymentsAccounted BetsFollowed
PROPERTIES CompletedSettled
CHECK_DEADLOCK FALSE

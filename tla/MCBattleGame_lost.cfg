SPECIFICATION FairSpec
CONSTANTS
  Watchers = {w1}
  Handler = api
  Agents = {1, 2}
  NumBets = 2
  NumBlocks = 2
  BlockOf <- MCBlockOf
  TxOf <- MCTxOf
  Bettor <- MCBettor
  BetOn <- MCBetOn
  Stake <- MCStake
  FeePct = 20
  Lookback = 10
  MaxResults = 1
  MaxEnds = 0
  MaxFaults = 0
PROPERTIES ResultCompletesGame
CHECK_DEADLOCK FALSE

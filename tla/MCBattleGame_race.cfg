SPECIFICATION Spec
CONSTANTS
  Watchers = {w1, w2}
  Handler = api
  Agents = {1, 2}
  NumBets = 3
  NumBlocks = 2
  BlockOf <- MCBlockOf
  TxOf <- TxOfEach
  Bettor <- MCBettor
  BetOn <- BetOnBoth
  Stake <- MCStake
  FeePct = 20
  Lookback = 10
  MaxResults = 1
  MaxEnds = 0
  MaxFaults = 0
SYMMETRY WatcherSymmetry
INVARIANTS PaymentsAccounted GameSolvent
PROPERTIES RecordsSurvive
CHECK_DEADLOCK FALSE

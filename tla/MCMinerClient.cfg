SPECIFICATION FairSpec
CONSTANTS
  me = me
  other = other
  Me = me
  Miners <- MCMiners
  MaxInfers = 3
  MaxBlock = 4
  ModelFee = 3
  MinerRatio = 50
  SubmitDuration = 2
  BatchBlocks = 2
  QueueCap = 1
  Lookback = 1
  MaxFaults = 1
INVARIANTS TypeOK FundsConserved FeesInOwnBatch TasksAccounted
PROPERTIES TaskNoticed
CHECK_DEADLOCK FALSE

\* Nobody seizes the miner role.
CONSTANTS
  w1 = w1  w2 = w2  w3 = w3
  yes = yes  no = no
  m1 = m1
  None = None
  Workers = {w1, w2, w3}
  Models = {m1}
  Answers = {yes, no}
  Values = {10}
  CreatorFunds = 10
  MinerRequirement = 3
  SubmitDuration = 1
  CommitDuration = 1
  RevealDuration = 1
  FeeL2Percentage = 1000
  FeeTreasuryPercentage = 500
  FeeRatioMinerValidator = 5000
  MaxInferences = 1
  MaxBlock = 4
  Churners = {}
  Retirable = {}
  MayPause = FALSE
SPECIFICATION FairSpec
CHECK_DEADLOCK FALSE
PROPERTIES
  UnprocessedIsRefunded

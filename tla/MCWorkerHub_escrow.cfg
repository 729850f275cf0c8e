\* Two inferences over four workers, three per inference (threshold two): the money of both in one balance,
\* and a worker slashed for one while the other still needs it.  15 units of fee leave
\* an odd remainder at every division.
CONSTANTS
  w1 = w1  w2 = w2  w3 = w3  w4 = w4
  yes = yes  no = no
  m1 = m1
  None = None
  Workers = {w1, w2, w3, w4}
  Models = {m1}
  Answers = {yes, no}
  Values = {15}
  CreatorFunds = 30
  MinerRequirement = 3
  SubmitDuration = 1
  CommitDuration = 1
  RevealDuration = 1
  FeeL2Percentage = 1000
  FeeTreasuryPercentage = 500
  FeeRatioMinerValidator = 5000
  MaxInferences = 2
  MaxBlock = 5
  Churners = {}
  Retirable = {}
  MayPause = FALSE
SPECIFICATION Spec
SYMMETRY Symmetry
CHECK_DEADLOCK FALSE
INVARIANTS
  HubSolvent
  HubKeepsOnlyDust
PROPERTIES
  EscrowSpec

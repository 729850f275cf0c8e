SPECIFICATION Spec
CONSTANTS
  Miners = {w1, w2}
  Models = {m1, m2}
  None = none
  Churners = {w1}
  StakeValues = {2, 4}
  RateValues = {10, 20}
  FinePct = 75
  UnstakeDelay = 1
  PenaltyDuration = 2
  BlocksPerEpoch = 1
  BoostPeriod = 1
  Funding = 20
  StakeCap = 4
  MaxBlock = 3
  MaxSettings = 2
SYMMETRY ModelSymmetry
INVARIANTS TypeOK SetsAgree PenaltyServed StakesBacked RewardsEarned
PROPERTIES RegistrySpec
CHECK_DEADLOCK FALSE

\* One inference, four assigned workers (threshold three), two answers: every vote,
\* every order of submit, commit and reveal against the clock, a pause, and a worker
\* that leaves and comes back.  Two blocks each for commit and reveal.
CONSTANTS
  w1 = w1  w2 = w2  w3 = w3  w4 = w4
  yes = yes  no = no
  m1 = m1  m2 = m2
  None = None
  Workers = {w1, w2, w3, w4}
  Models = {m1, m2}
  Answers = {yes, no}
  Values = {10}
  CreatorFunds = 10
  MinerRequirement = 4
  SubmitDuration = 1
  CommitDuration = 2
  RevealDuration = 2
  FeeL2Percentage = 1000
  FeeTreasuryPercentage = 500
  FeeRatioMinerValidator = 5000
  MaxInferences = 1
  MaxBlock = 6
  Churners = {w1, w2, w3, w4}
  Retirable = {m1}
  MayPause = TRUE
SPECIFICATION Spec
SYMMETRY Symmetry
INVARIANTS
  TypeOK
  TallyMatchesVotes
  PhaseInv
  RevealPhaseIncomplete
  SingleWinner
  PaidMeansTwoThirds
  HonestWorkerSafe
PROPERTIES
  NoCommitAfterReveal
  PenaltyOnlyAfterDeadline

SPECIFICATION FairSpec
CONSTANTS
  Posts = {p1}
  Jobs = {j1, j2}
  Calls = {c1}
  Fee <- MCFee
  StoreFee <- MCStoreFee
  NoPost = none
  Funds = 2
  MaxOutages = 1
INVARIANTS TypeOK SettledOnce JobsExcludeEachOther
PROPERTIES AnswerableEnds AgentFeeSettles
CHECK_DEADLOCK FALSE

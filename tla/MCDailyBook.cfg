SPECIFICATION Spec
CHECK_DEADLOCK FALSE
CONSTANTS
  Codes = {"a", "b"}
  Rank <- MCRank
  LastDay = 3
  PoolDays <- MCPool
  Quotes <- MCQuotes
  LotUnit = 10
  FeeRate = 1
  MinFee = 25
  Reasons = {"trail", "force_sell:t1_close", "topk_drop"}
  Profiles <- MCProfiles
INVARIANTS
  TradesAreLegal
  ChasesAreJudgedOnce
  QuotaHolds
PROPERTIES
  LatchedExitsLeaveAtTheOpen

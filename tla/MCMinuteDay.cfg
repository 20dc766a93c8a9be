SPECIFICATION Spec
CHECK_DEADLOCK FALSE
CONSTANTS
  Codes = {"a", "b"}
  LastDay = 3
  PoolDays <- MCPool
  LastMinute = 4
  ChaseMinute = 1
  BuyMinute = 3
  BuyFrom = 2
  TailMinutes = {2, 3, 4}
  TailCap = 3
  NextOpen = FALSE
  Capped = TRUE
  BarBudget = 2
  AllowAdd = TRUE
  LimitUpChase = TRUE
  TotalCash = 42
  DailyQuota = 42
  LotCost = 2
  OrderFee = 1
  Frames <- MCFrames
INVARIANTS
  VolumeIsShared
  SlicesAgree
  NamesTradeOnce

SPECIFICATION Spec
CHECK_DEADLOCK FALSE
CONSTANTS
  Codes = {"a", "b"}
  LastDay = 2
  PoolDays <- MCPool
  LastMinute = 4
  ChaseMinute = 2
  BuyMinute = 3
  BuyFrom = 2
  TailMinutes = {}
  TailCap = 2
  NextOpen = TRUE
  Capped = TRUE
  BarBudget = 3
  AllowAdd = TRUE
  LimitUpChase = TRUE
  TotalCash = 12
  DailyQuota = 12
  LotCost = 2
  OrderFee = 1
  Frames <- MCFrames
PROPERTIES
  QueuedExitsLeave

SPECIFICATION LedgerSpec
SYMMETRY OrderSymmetry
CHECK_DEADLOCK FALSE
CONSTANTS
  o1 = o1
  o2 = o2
  OrderIds = {o1, o2}
  Symbols = {"A"}
  BucketIds = {"b1"}
  FillIds = {1, 2, 3}
  LotIds = {1, 2, 3, 4, 5}
  Prices = {1, 2}
  Quantities = {2, 3, 4}
  LotSizes = {1, 2}
  Capacities = {0, 6}
  Dates = {1, 2, 3}
  NoDate = NoDate
  Model <- MCModel
  InitialCash = {18}
  InitialLots <- MCLots
INVARIANTS
  LedgerTypeOK
  ReservationsAreExact
  BuyFillIsCovered
  ReservedSharesAreLent
  FeesFollowNotional
  AccountIsConserved
PROPERTIES
  HistoryIsFinal
  SharesLeaveOnlyWhenSellable
  SellsReserveOldestFirst

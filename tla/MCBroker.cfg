SPECIFICATION Spec
CHECK_DEADLOCK FALSE
CONSTANTS
  OrderIds = {1, 2}
  Symbols = {7}
  BucketIds = {1, 2, 3}
  FillIds <- MCFillIds
  LotIds = {5, 6, 11, 12, 13, 21, 22, 23}
  Prices = {1, 2, 3, 4}
  Quantities = {2, 4, 6}
  LotSizes = {2}
  Capacities = {0, 2, 4, 6}
  Dates = {0, 1, 2}
  NoDate = NoDate
  Model <- MCModel
  InitialCash = {18}
  InitialLots <- MCLots
  Sessions <- MCSessions
  StartAt = 10
  EndAt = 25
  DayLength = 10
  TradingDates = {0, 1, 2}
  NoBucket = NoBucket
  Inputs <- MCInputs
  Marks <- MCMarks
  Facts <- MCFacts
  Quotes <- MCQuotes
  RateNum = 1
  RateDen = 2
  FillIdOf <- MCFillIdOf
INVARIANTS
  OrdersAgreeWithLedger
  NoContractError
  FillsObeyTheMarket
PROPERTIES
  ExpiryBeatsCancel
  NoFillJumpsTheQueue
  SettlesLimitOrders

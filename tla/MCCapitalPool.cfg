SPECIFICATION Spec
SYMMETRY StockSymmetry
CONSTANTS
  s1 = s1
  s2 = s2
  Stocks = {s1, s2}
  LastDay = 3
  TradingDays <- MCTradingDays
  DeferredDays = 1
  ValidDays = {1, 2}
  TotalCapital = 3
  DailyInvestment = 2
  Amounts = {1, 2}
  MaxTransactions = 2
  MaxUses = 1
INVARIANTS
  MoneyIsConserved
  IndexesAgree
  DailyQuotaHolds
PROPERTIES
  MovesBetweenAccounts

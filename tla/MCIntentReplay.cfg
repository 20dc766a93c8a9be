SPECIFICATION Spec
CONSTANTS
  Instruments = {"a", "b"}
  LastDay = 3
  DayLength = 10
  Minutes <- MCMinutes
  Books <- MCBooks
  Modes = {"M-REF", "M-LAG"}
  Factor <- MCFactor
  Bars <- MCBars
  BoardLot = 2
  Unit = 10
  MinFee = 25
  Rate <- MCRate
  InitialCash = 148
INVARIANTS
  AccountFollowsOrders
  MarksAreExact
PROPERTIES
  FillsAreLegal
CHECK_DEADLOCK FALSE

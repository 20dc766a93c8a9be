SPECIFICATION Spec
CONSTANTS
  LastDay = 5
  SignalDays <- MCSignalDays
  Rungs = 3
  ContFrom = 2
  StepCap = 4
  PostExit = TRUE
  RideTrial = TRUE
  PostExitBypass = TRUE
  IndexBlocksAdd = TRUE
  LimitUpChase = TRUE
  Quotes <- MCQuotes
INVARIANTS
  GroupsAgree
PROPERTIES
  SettlementIsKept
  ExitsFinish
  LotIdsAreNeverReused
CHECK_DEADLOCK FALSE

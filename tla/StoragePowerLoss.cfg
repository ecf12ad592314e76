SPECIFICATION LiveSpec
CONSTANTS
  Requests = {r1, r2}
  Ids = {i1}
  NoAnswers = NoAnswers
  NoCall = NoCall
  Torn = Torn
  DiskFaults = TRUE
  MaxCalls = 4
  PowerLoss = TRUE
PROPERTIES
  DamageIsContained
  EveryCallReturns
CHECK_DEADLOCK FALSE

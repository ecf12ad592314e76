SPECIFICATION Spec
SYMMETRY Symmetry
CONSTANTS
  Requests = {r1, r2, r3}
  Ids = {i1, i2}
  NoAnswers = NoAnswers
  NoCall = NoCall
  Torn = Torn
  DiskFaults = TRUE
  MaxCalls = 4
  PowerLoss = FALSE
INVARIANTS
  TypeOK
  NeverTorn
  CopyIsFresh
PROPERTY Linearizable
CHECK_DEADLOCK FALSE

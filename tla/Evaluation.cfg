SPECIFICATION LiveSpec
CONSTANTS
  MaxCases = 3
  MaxCost = 2
  Costs = {0, 1}
INVARIANTS
  SummaryIsTrue
  OrderIsReplayable
  ReportIsComplete
 
CHECK_DEADLOCK FALSE

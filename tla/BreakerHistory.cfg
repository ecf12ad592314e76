SPECIFICATION HistorySpec
CONSTANTS
  FailureThreshold = 3
  WindowDuration = 4
  ResetTimeout = 3
INVARIANTS
  BurstBounded
PROPERTIES
  TripsOnlyOnBurst
  OpenLeadsToProbe

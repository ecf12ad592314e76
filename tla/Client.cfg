SPECIFICATION LiveSpec
CONSTANTS
  Callers = {c1, c2}
  MaxRetries = 2
  BaseDelay = 4
  BackoffCap = 5
  RetryAfters <- MCRetryAfters
  Second = 4
  MaxRetryAfter = 3
  Durations = 64
  FailureThreshold = 2
  WindowDuration = 1
  ResetTimeout = 1
INVARIANTS
  TypeOK
  GateHolds
PROPERTIES
  OnlySettledCallsCount
  EveryCallReturns
  ProbeSettlesOrVanishes

SPECIFICATION Spec
CONSTANTS
  Callers = {c1, c2}
  MaxRetries = 0
  BaseDelay = 4
  BackoffCap = 12
  RetryAfters <- MCRetryAfters
  Second = 4
  MaxRetryAfter = 3
  Durations = 64
  FailureThreshold = 1
  WindowDuration = 1
  ResetTimeout = 1
INVARIANT OneProbeAtATime

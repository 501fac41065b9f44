SPECIFICATION FairClientSpec
CONSTANTS
  Caller = {c1, c2}
  maxAmbiguousRetries = 2
  maxThrottleRetries = 1
INVARIANTS
  CallBound
PROPERTIES
  ImplementsLaunchOnce
  ClientReturns
CHECK_DEADLOCK FALSE

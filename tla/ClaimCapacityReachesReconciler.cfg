SPECIFICATION ClientSpec
CONSTANTS
  Caller = {c1}
  maxAmbiguousRetries = 3
  maxThrottleRetries = 5
INVARIANT
  CapacityReachesReconciler
CHECK_DEADLOCK FALSE

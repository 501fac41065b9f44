SPECIFICATION FairLaunchSpec
CONSTANTS
  spot = spot
  onDemand = onDemand
  other = other
  Rungs = {spot, onDemand, other}
  Chains <- MCChains
  MaxConsistencyRetries = 5
  MaxAttempts = 4
INVARIANTS
  AttemptsFollowChain
  LagIsOfOneRung
PROPERTIES
  ImplementsLaunchPhase
  LaunchReturns
CHECK_DEADLOCK FALSE

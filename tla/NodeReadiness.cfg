SPECIFICATION FairSpec
CONSTANTS
  Instance = {i1, i2}
  StableCount = 2
  KeepAlive = 3
  Deployments <- MCDeployments
  None = None
INVARIANTS
  ReadyWasVerified
  StaleIsShort
PROPERTIES
  SensorConverges
CHECK_DEADLOCK FALSE

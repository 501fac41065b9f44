SPECIFICATION LimiterSpec
CONSTANTS
  Waiter = {c1, c2}
  Permit = 2
  maxTokens = 4
  baseRate = 4
  minRate = 1
  recoveryCooldown = 2
  recoveryStep = 1
  recoveryInterval = 1
  Pauses = {1, 2}
  Horizon = 4
SYMMETRY Symmetry
INVARIANTS
  RateKept
PROPERTIES
  PauseKept
  CooldownKept
CHECK_DEADLOCK FALSE

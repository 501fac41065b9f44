SPECIFICATION Spec
CONSTANTS
  Node = {n1, n2}
  Program = {p1, p2, p3, p4}
  Deployments <- MCDeployments
  None = None
SYMMETRY Symmetry
INVARIANTS
  RunHasHold
  ChargedOnce
  EveryRunCharged
PROPERTIES
  DeletedOnlyWhenCharged
CHECK_DEADLOCK FALSE

SPECIFICATION Spec
CONSTANTS
  n1 = n1
  n2 = n2
  q1 = q1
  q2 = q2
  Node <- MCNode
  Program = {p1, p2, p3}
  Partition <- MCPartition
  Exact <- MCExact
  Shorter <- MCShorter
  Collective = {q2}
  Deployments <- MCDeployments
  None = None
SYMMETRY Symmetry
INVARIANTS
  StateIsExplained
PROPERTIES
  FailedLeaveCF
CHECK_DEADLOCK FALSE

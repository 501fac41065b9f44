SPECIFICATION Spec
CONSTANTS
  Node = {n1, n2}
  Program = {p1, p2, p3, p4}
  Instance = {i1, i2, i3}
  Deployments <- MCDeployments
  None = None
SYMMETRY Symmetry
INVARIANTS
  OneLivePerGeneration
  SuspendedIsGone
PROPERTIES
  SweepSparesCurrent
CHECK_DEADLOCK FALSE

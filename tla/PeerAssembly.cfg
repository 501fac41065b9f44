SPECIFICATION Spec
CONSTANTS
  Node <- MCNode
  Program = {p1, p2}
  Deployments <- MCDeployments
  None = None
INVARIANTS
  OwnManifest
  ReissueIsIdentical
SYMMETRY Symmetry
CHECK_DEADLOCK FALSE

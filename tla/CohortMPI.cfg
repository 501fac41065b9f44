SPECIFICATION FairSpec
CONSTANTS
  Entity = {e1, e2}
  NoEntity = NoEntity
  MinViable = 0
  NoAssembly = FALSE
  Wirings <- BothPorts
  ParentCauses = {"Canceled", "ParentDeadline"}
INVARIANTS
  ExactlyOneOutcome
  AssembleComplete
  CulpritIsAnotherFailure
PROPERTIES
  ImplementsOutcome
  Termination
CHECK_DEADLOCK FALSE

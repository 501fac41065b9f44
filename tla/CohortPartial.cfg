SPECIFICATION Spec
CONSTANTS
  Entity = {e1, e2, e3}
  NoEntity = NoEntity
  MinViable = 2
  NoAssembly = TRUE
  Wirings <- OneMissing
  ParentCauses = {"ParentDeadline"}
SYMMETRY Symmetry
INVARIANTS
  FastFailOnlyWhenDoomed
  ParentLabelHasCause
  DrainExact
CHECK_DEADLOCK FALSE

SPECIFICATION FairSpec
CONSTANTS
  Zones = 2
  Operator = {"a", "b"}
  Deployments <- MCDeployments
  None = None
INVARIANTS
  RenderedResolves
  AppliedIsOneRendering
  StateDirIsProvisioned
  PreflightExact
PROPERTIES
  EnvPairsPathWithItsFileSystem
  EntryKeepsItsFileSystem
  ApplyConverges
CHECK_DEADLOCK FALSE

\* One run of every change command against two clusters.
SPECIFICATION Spec
CONSTANTS
  Refs <- PairOfRefs
  Home <- HomeOf
  Manifests <- Plain
  Absent = Absent
  None = None
  Contexts = {c1, c2}
  Overlays = {edge}
  Environments = {demo}
  Kind <- KindOf
  Gateway = "gateway"
  Sorted <- SortedRefs
  Redact <- Masking
  Commands <- AllCommands
  Before <- Installed
  Rendered <- Complete
  Attempts = 2
  Budget <- GateBudget
INVARIANTS
  TypeOK
  GatedMutation
  StaysOnVerifiedCluster
  CleanupFailsClosed
  DryRunApply
PROPERTIES
  ImplementsGate
  EndsOrWaits
CHECK_DEADLOCK FALSE

\* A change, its rollback, and interference, on one cluster.
SPECIFICATION Spec
CONSTANTS
  Refs <- AllRefs
  Home <- HomeOf
  Manifests <- Plain
  Absent = Absent
  None = None
  Contexts = {c1}
  Overlays = {edge}
  Environments = {}
  Kind <- KindOf
  Gateway = "gateway"
  Sorted <- SortedRefs
  Redact <- Masking
  Commands <- DeployOnly
  Before <- Mixed
  Rendered <- Complete
  Attempts = 1
  Budget <- RecoveryBudget
INVARIANTS
  SnapshotCoversRun
  LedgerTellsTheTruth
  RollbackRestores
CHECK_DEADLOCK FALSE

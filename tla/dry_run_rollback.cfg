\* A rollback plan made in dry-run mode.
SPECIFICATION Safety
CONSTANTS
  Refs <- PairOfRefs
  Home <- HomeOf
  Manifests <- Plain
  Absent = Absent
  None = None
  Contexts = {c1}
  Overlays = {edge}
  Environments = {}
  Kind <- KindOf
  Gateway = "gateway"
  Sorted <- SortedRefs
  Redact <- Masking
  Commands <- DeployOnly
  Before <- Prepared
  Rendered <- Complete
  Attempts = 1
  Budget <- ChangeAndUndo
INVARIANT
  DryRunChangesNothing
CHECK_DEADLOCK FALSE

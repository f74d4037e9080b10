\* A snapshot that is older than another write to the cluster.
SPECIFICATION Safety
CONSTANTS
  Refs <- PairOfRefs
  Home <- HomeOf
  Manifests <- Plain
  Absent = Absent
  None = None
  Contexts = {c1}
  Overlays = {edge}
  Environments = {}
  Kind <- KindOf
  Gateway = "gateway"
  Sorted <- SortedRefs
  Redact <- Masking
  Commands <- DeployOnly
  Before <- Prepared
  Rendered <- Complete
  Attempts = 1
  Budget <- DisturbedUndo
INVARIANT
  DeletesOnlyWhatTheRunCreated
CHECK_DEADLOCK FALSE

\* Two runs in one ledger.
SPECIFICATION Safety
CONSTANTS
  Refs <- PairOfRefs
  Home <- HomeOf
  Manifests <- Plain
  Absent = Absent
  None = None
  Contexts = {c1}
  Overlays = {edge}
  Environments = {}
  Kind <- KindOf
  Gateway = "gateway"
  Sorted <- SortedRefs
  Redact <- Masking
  Commands <- DeployOnly
  Before <- Installed
  Rendered <- Complete
  Attempts = 1
  Budget <- TwoChangesAndUndo
INVARIANT
  RestoresSelectedRun
CHECK_DEADLOCK FALSE

\* The overlay changes between approval and apply.
SPECIFICATION Safety
CONSTANTS
  Refs <- AllRefs
  Home <- HomeOf
  Manifests <- Plain
  Absent = Absent
  None = None
  Contexts = {c1}
  Overlays = {edge}
  Environments = {}
  Kind <- KindOf
  Gateway = "gateway"
  Sorted <- SortedRefs
  Redact <- Masking
  Commands <- DeployOnly
  Before <- Prepared
  Rendered <- Small
  Attempts = 1
  Budget <- EditedChange
INVARIANT
  ChangesOnlyPlannedResources
CHECK_DEADLOCK FALSE

\* A resource with a value that redaction removes.
SPECIFICATION Safety
CONSTANTS
  Refs <- PairOfRefs
  Home <- HomeOf
  Manifests <- Secretive
  Absent = Absent
  None = None
  Contexts = {c1}
  Overlays = {edge}
  Environments = {}
  Kind <- KindOf
  Gateway = "gateway"
  Sorted <- SortedRefs
  Redact <- Masking
  Commands <- DeployOnly
  Before <- Sensitive
  Rendered <- Replaced
  Attempts = 1
  Budget <- ChangeAndUndo
INVARIANT
  RestoresFromSnapshot
CHECK_DEADLOCK FALSE

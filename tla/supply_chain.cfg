SPECIFICATION Spec
CONSTANTS
  EntryOrder <- MCOrder
  Hashes = {"a", "b"}
  Locks <- MCLocks
  Budgets <- MCBudgets
  Missing = Missing
  None = None
  Modes = {"fetch"}
  PartCount = 2
  Tools = {"skopeo", "docker"}
  CopyOrders <- MCCopyOrders
  FirstOverlay <- MCFirstOverlay
  Overlays <- MCOverlays
INVARIANTS
  TypeOK
  VerifiedIsLocked
  ReportMeansWhole
  RestoredIsOneBuild
  AppliedIsPresent
  ProvenIsPullable
CHECK_DEADLOCK FALSE

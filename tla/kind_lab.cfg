SPECIFICATION Spec
CONSTANTS
  l1 = l1
  l2 = l2
  Labs <- MCLabs
  Names <- MCNames
  Home = "home"
  WithNginx <- MCWithNginx
  Keep <- MCKeep
  MaxPolls = 1
  MaxFaults = 1
  None = None
INVARIANTS
  TypeOK
  OwnClusterOnly
  InstallsOnlyChecked
  EvidenceTellsTheTruth
PROPERTIES
  TearsDownOnlyOwn
  CleansUp
CHECK_DEADLOCK FALSE

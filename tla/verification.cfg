SPECIFICATION Spec
CONSTANTS
  ModelOrder <- MCModels
  Embedding = {"embedding"}
  ConsumerOrder <- MCConsumers
  Granted <- MCGranted
  LowLimit = "testing-client"
  LowModel = "embedding"
  CredentialSets <- MCCredentials
  Contexts = {"production", "staging"}
  Target = "staging"
  Clusters <- MCClusters
  Beginnings <- MCBeginnings
  Attempts = 2
  RateAttempts = 3
  Budgets <- MCBudgets
  None = None
INVARIANTS
  TypeOK
  PassedIsTrue
  FailureHasReason
PROPERTIES
  Ends
CHECK_DEADLOCK FALSE

SPECIFICATION Spec
CONSTANTS
  Unset = Unset
  Missing = Missing
  None = None
  Models <- MCModels
  Consumers <- MCConsumers
  Requested <- MCRequested
  FirstModels <- MCFirstModels
  NameRank <- MCNameRank
  ConfigAfter = 0
  Platform <- MCPlatform
  Trees <- RotatedTree
  Commands <- RevokeCommands
  Budget <- RevokeBudget
PROPERTIES
  RevocationOutlivesPlans
CHECK_DEADLOCK FALSE

SPECIFICATION Spec
CONSTANTS
  Unset = Unset
  Missing = Missing
  None = None
  Models <- MCModels
  Consumers <- MCConsumers
  Requested <- MCRequested
  FirstModels <- MCFirstModels
  NameRank <- MCNameRank
  ConfigAfter = 0
  Platform <- MCPlatform
  Trees <- EntitledTrees
  Commands <- AllCommands
  Budget <- LifecycleBudget
INVARIANTS
  TypeOK
  RouteIsComplete
  RoutesUnambiguous
  AppliedLeavesValidConfig
  QuotaFollowsGrant
PROPERTIES
  GrantsAreRequested
CHECK_DEADLOCK FALSE

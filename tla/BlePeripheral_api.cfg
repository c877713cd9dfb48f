CONSTANTS
  Requests <- AllRequests
  AdvDuration = 1
  EvtsMax = 4
SPECIFICATION Spec
INVARIANTS HandleFollowsState NeverRestsDisconnected LinkIsKnown ConnectedHasLink
PROPERTIES UnbondingDeletes
CHECK_DEADLOCK FALSE

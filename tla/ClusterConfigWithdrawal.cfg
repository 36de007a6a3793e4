\* One configuration is created and deleted again; no fault.
CONSTANTS
  m = m
  n = n
  wide = wide
  near = near
  high = high
  none = none
  Node <- MCNode
  Card <- MCCard
  Config = {wide}
  CardsOf <- MCCardsOf
  BoundAt <- MCBoundAt
  NoConfig = none
  Driver <- MCDriver
  NoDriver = none
  SelectsNode <- MCSelectsNode
  SelectsCard <- MCSelectsCard
  SelectsDriver <- MCSelectsDriver
  PFDriver <- MCPFDriver
  Priority <- MCPriority
  SkipsDrain = {}
  SameSecond = FALSE
  MaxChanges = 2
  MaxFaults = 0
SPECIFICATION FairSpec
PROPERTY WithdrawnInTheEnd
CHECK_DEADLOCK FALSE

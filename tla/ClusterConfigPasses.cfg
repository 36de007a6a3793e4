\* Two nodes, three cards, three configurations, three changes, one fault.
CONSTANTS
  m = m
  n = n
  wide = wide
  near = near
  high = high
  none = none
  Node <- MCNode
  Card <- MCCard
  Config = {wide, near, high}
  CardsOf <- MCCardsOf
  BoundAt <- MCBoundAt
  NoConfig = none
  Driver <- MCDriver
  NoDriver = none
  SelectsNode <- MCSelectsNode
  SelectsCard <- MCSelectsCard
  SelectsDriver <- MCSelectsDriver
  PFDriver <- MCPFDriver
  Priority <- MCPriority
  SkipsDrain = {near}
  SameSecond = TRUE
  MaxChanges = 3
  MaxFaults = 1
SPECIFICATION FairSpec
INVARIANTS TypeOK SelectedOnly NobodyAskedToSkip
PROPERTIES BestIsWritten Propagated SpecsComeToRest
CHECK_DEADLOCK FALSE

\* Every fault once, three spec changes on top of the empty one.
CONSTANTS
  a = a
  b = b
  r = r
  n0 = n0
  NoConfig = n0
  Card <- MCCard
  Installed <- MCInstalled
  Config <- MCConfig
  VFAmount <- MCVFAmount
  VfioPci = {b}
  Rejected = {r}
  Propagated <- MCPropagated
  Stray = {"s1"}
  MaxGeneration = 3
  FaultPlans <- SafetyFaults
SPECIFICATION Spec
INVARIANTS TypeOK PrevInForce AppliedMatchesHardware PluginFreshWhenSucceeded UncordonedWhenApplied
PROPERTY RunningCardLeftAlone

\* One to three different faults in a behaviour, one or two spec changes, one worker left behind.
CONSTANTS
  f = f
  g = g
  p = p
  r = r
  n0 = n0
  x = x
  y = y
  noname = noname
  absent = absent
  Card <- MCCard
  Installed <- MCCard
  Config <- MCConfig
  NoConfig = n0
  VFAmount <- MCVFAmount
  ResourceName <- MCResourceName
  NoName = noname
  VfioPci = {f}
  Rejected = {r}
  Propagated <- MCPropagated
  Absent <- MCAbsent
  s1 = s1
  Stray = {s1}
  FaultPlans <- MCFaultPlans
SPECIFICATION FairSpec
INVARIANTS TypeOK AppliedMatchesHardware OneEntryPerCard
PROPERTIES PassEndsComplete OtherNodesKept GenerationObserved

\* Two specs taking turns and one failed call.
CONSTANTS
  a = a
  b = b
  r = r
  n0 = n0
  NoConfig = n0
  Card <- MCCard
  Installed <- MCInstalled
  Config <- MCConfig
  VFAmount <- MCVFAmount
  VfioPci = {}
  Rejected = {r}
  Propagated <- Alternatives
  Stray = {"s1"}
  MaxGeneration = 4
  FaultPlans <- OneFailedCall
SPECIFICATION Spec
INVARIANT AppliedMeansInForce

\* VFs are reset once and a call of the repair fails.
CONSTANTS
  a = a
  b = b
  r = r
  n0 = n0
  NoConfig = n0
  Card <- MCCard
  Installed <- MCInstalled
  Config <- MCConfig
  VFAmount <- MCVFAmount
  VfioPci = {b}
  Rejected = {r}
  Propagated <- OnlyPlain
  Stray = {"s1"}
  MaxGeneration = 3
  FaultPlans <- RepairFaults
SPECIFICATION FairSpec
PROPERTY RepairCompletes

\* A failed call, a crash, a reset of sriov_numvfs, a deletion: the daemon gets over them.
CONSTANTS
  a = a
  b = b
  r = r
  n0 = n0
  NoConfig = n0
  Card <- MCCard
  Installed <- MCInstalled
  Config <- MCConfig
  VFAmount <- MCVFAmount
  VfioPci = {b}
  Rejected = {r}
  Propagated <- FewSpecs
  Stray = {"s1"}
  MaxGeneration = 3
  FaultPlans <- LivenessFaults
SPECIFICATION FairSpec
PROPERTIES GenerationObserved VFsRestored

CONSTANTS
  none = none
  Card = {1, 2}
  Kind <- MCKind
  Inventory <- MCInventory
  Owner <- MCOwner
  Commands = {"device_data", "mm_read", "clear_log"}
  VFCounts = {1, 2}
  NotThere = none
  FaultPlans <- MCFaultPlans
SPECIFICATION FairSpec
INVARIANTS TypeOK CountedThisRound OneCountPerConfig CliHearsItself
PROPERTY LiveCardsReported

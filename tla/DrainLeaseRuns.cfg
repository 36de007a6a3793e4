\* Two nodes, three runs, one fault of any kind.
CONSTANTS
  m = m
  n = n
  nobody = nobody
  Nobody = nobody
  Node <- TwoNodes
  Run <- ThreeRuns
  Home <- HomeOfThree
  Owner <- OwnerOfThree
  Drains <- DrainsOfThree
  MaxFaults = 1
SPECIFICATION FairSpec
INVARIANTS TypeOK ExclusiveUnlessLost NilMeansDone NotLeftCordoned
PROPERTY RunReturns
CHECK_DEADLOCK FALSE

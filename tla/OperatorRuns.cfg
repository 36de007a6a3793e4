CONSTANTS
  p = p
  q = q
  n1 = n1
  n2 = n2
  lab = lab
  map = map
  secret = secret
  daemon = daemon
  nothing = nothing
  present = present
  other = other
  Pod = {p, q}
  Release = {1, 2}
  Asset = {1, 2, 3}
  Object = {lab, map, secret, daemon}
  AssetOf <- MCAssetOf
  ConfigMap = {map}
  PluginMap = map
  Secret = {secret}
  DaemonSet = {lab, daemon}
  Awaited = {daemon}
  Labeler = lab
  Shipped <- MCShipped
  Edits <- MCEdits
  SingleNode = FALSE
  Node = {n1}
  HasCard = {n1}
  Present = present
  OtherLabel = other
  Submissions <- MCSubmissions
  NotThere = nothing
  FaultPlans <- MCFaultPlans
SPECIFICATION FairSpec
INVARIANTS TypeOK ServesWhatItDeployed 
PROPERTIES ListsKept OthersLabelsKept ServesInTheEnd
CHECK_DEADLOCK FALSE

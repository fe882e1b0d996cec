SPECIFICATION Spec
CONSTANTS
  a = a  r = r  b = b  l1 = l1  l2 = l2  l3 = l3
  Link <- ThreeLinks
  Node <- ChainNodes
  Source <- ForkSource
  Target <- ForkTarget
  Candidates <- ForkCandidates
  Capacity <- ChainCapacity
  Flow <- ForkFlows
  Delay <- ForkUnit
  ExtraDelay <- ForkNoExtra
  Bandwidth <- ForkUnit
  Congested = {}
  Lossy = {r}
  Duplicating = {a}
  Size = {1}
  HostEcn = {"ect"}
  EventLink = {l1}
  EventNode = {}
  ClearNode = {a}
  YieldLast = TRUE
  TimeWarp = FALSE
  MaxPackets = 3
  MaxEvents = 1
  Horizon = 1
PROPERTY ImplementsCustody
 
CHECK_DEADLOCK FALSE

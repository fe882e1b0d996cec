SPECIFICATION Spec
CONSTANTS
  a = a  r = r  b = b  l1 = l1  l2 = l2  l3 = l3
  Link <- ThreeLinks
  Node <- ChainNodes
  Source <- ForkSource
  Target <- ForkTarget
  Candidates <- ForkCandidates
  Capacity <- ChainCapacity
  Flow <- ForkFlows
  Delay <- ForkUnit
  ExtraDelay <- ForkNoExtra
  Bandwidth <- ForkUnit
  Congested = {}
  Lossy = {}
  Duplicating = {}
  Size = {1}
  HostEcn = {"ect"}
  EventLink = {l1, l2, l3}
  EventNode = {}
  ClearNode = {}
  YieldLast = TRUE
  TimeWarp = TRUE
  MaxPackets = 2
  MaxEvents = 3
  Horizon = 1
PROPERTY CheapestLinkWins
CHECK_DEADLOCK FALSE

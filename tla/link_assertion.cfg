SPECIFICATION Spec
CONSTANTS
  a = a  r = r  b = b  l1 = l1  l2 = l2  l3 = l3
  Link <- TwoLinks
  Node <- ParallelNodes
  Source <- ParallelSource
  Target <- ParallelTarget
  Candidates <- ParallelCandidates
  Capacity <- ParallelCapacity
  Flow <- AToB
  Delay <- Unit
  ExtraDelay <- NoExtra
  Bandwidth <- Unit
  Congested = {}
  Lossy = {}
  Duplicating = {}
  Size = {1}
  HostEcn = {"ect"}
  EventLink = {l2}
  EventNode = {}
  ClearNode = {}
  YieldLast = TRUE
  TimeWarp = TRUE
  MaxPackets = 3
  MaxEvents = 1
  Horizon = 2
INVARIANT NoTaskDies
CHECK_DEADLOCK FALSE

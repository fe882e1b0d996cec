SPECIFICATION FairSpec
CONSTANTS
  a = a  r = r  b = b  l1 = l1  l2 = l2  l3 = l3
  Link <- TwoLinks
  Node <- ParallelNodes
  Source <- ParallelSource
  Target <- ParallelTarget
  Candidates <- ParallelCandidates
  Capacity <- ParallelCapacity
  Flow <- AToB
  Delay <- Unit
  ExtraDelay <- NoExtra
  Bandwidth <- Unit
  Congested = {}
  Lossy = {}
  Duplicating = {}
  Size = {1}
  HostEcn = {"ect"}
  EventLink = {l1, l2}
  EventNode = {a}
  ClearNode = {a}
  YieldLast = FALSE
  TimeWarp = TRUE
  MaxPackets = 2
  MaxEvents = 2
  Horizon = 2
PROPERTY EveryPacketSettles
PROPERTY LostWhenLinkGoesDown
PROPERTY WipedNeverSent
CHECK_DEADLOCK FALSE

SPECIFICATION Spec
CONSTANTS
  a = a  r = r  b = b  l1 = l1  l2 = l2  l3 = l3
  Link <- TwoLinks
  Node <- ParallelNodes
  Source <- ParallelSource
  Target <- ParallelTarget
  Candidates <- RepeatedCandidates
  Capacity <- ParallelCapacity
  Flow <- AToB
  Delay <- Uneven
  ExtraDelay <- NoExtra
  Bandwidth <- Unit
  Congested = {}
  Lossy = {}
  Duplicating = {}
  Size = {1, 2}
  HostEcn = {"ect"}
  EventLink = {l1, l2}
  EventNode = {a}
  ClearNode = {a}
  YieldLast = FALSE
  TimeWarp = TRUE
  MaxPackets = 2
  MaxEvents = 2
  Horizon = 2
INVARIANT TypeOK
INVARIANT SingleCustody
INVARIANT LogIsTruthful
INVARIANT BufferBalance
INVARIANT NoLostWakeup
INVARIANT PacedSends
INVARIANT DeliveredOnTime
PROPERTY LeavesInOrder
CHECK_DEADLOCK FALSE

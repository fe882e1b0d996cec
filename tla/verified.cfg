SPECIFICATION VerifiedSpec
CONSTANTS
  a = a  r = r  b = b  l1 = l1  l2 = l2  l3 = l3
  Link <- TwoLinks
  Node <- ChainNodes
  Source <- ChainSource
  Target <- ChainTarget
  Candidates <- ChainCandidates
  Capacity <- ChainCapacity
  Flow <- AToB
  Delay <- Unit
  ExtraDelay <- NoExtra
  Bandwidth <- Unit
  Congested = {}
  Lossy = {r}
  Duplicating = {r}
  Size = {1}
  HostEcn = {"ect"}
  EventLink = {l1}
  EventNode = {a, r}
  ClearNode = {r}
  YieldLast = FALSE
  TimeWarp = TRUE
  MaxPackets = 3
  MaxEvents = 2
  Horizon = 2
  Host <- Hosts
  Window = 2
INVARIANT NeverFatal
INVARIANT ReplayMirrorsNetwork
INVARIANT StatsAddUp
INVARIANT NothingReordered
PROPERTY KnownAlarms
CHECK_DEADLOCK FALSE

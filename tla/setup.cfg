SPECIFICATION Spec
CONSTANTS
  Bits = 3
  Topologies <- Files
  EventFiles <- Events
  Horizon = 3
INVARIANT TypeOK
INVARIANT StatusFollowsSchedule
PROPERTY WalkMatchesRoutes
PROPERTY PacketsArrive
CHECK_DEADLOCK FALSE

SPECIFICATION Spec
CONSTANTS
  Duration = 5
  Deadline = 3
  Interval = 2
  MaxCopies = 2
INVARIANT TypeOK
INVARIANT EveryPingAccounted
INVARIANT VerdictIsRight
PROPERTY Terminates
CHECK_DEADLOCK FALSE

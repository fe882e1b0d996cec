SPECIFICATION Spec
CONSTANTS
  Duration = 3
  SendBps = 500
  Second = 20
  SendInterval = 1
  Window = 2
  MaxTransmit = 2
  BatchSize = 2
INVARIANT TypeOK
INVARIANT EverythingCounted
INVARIANT PeakIsRight
INVARIANT RateKept
PROPERTY Terminates
CHECK_DEADLOCK FALSE

SPECIFICATION Spec
CONSTANTS
  Connection = {c1, c2}
  Lines = 5
  Enough = 5
  Needs = {0, 2, 4}
  MaxPackets = 3
  Horizon = 1
INVARIANT AllReadable
CHECK_DEADLOCK FALSE

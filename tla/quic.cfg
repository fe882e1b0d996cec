SPECIFICATION Spec
CONSTANTS
  Options <- CommandLines
  MaxConnections = 2
  Rounds = 2
INVARIANT TypeOK
INVARIANT EveryRequestOnce
INVARIANT StreamLimit
INVARIANT ResultIsTrue
PROPERTY Terminates
CHECK_DEADLOCK FALSE

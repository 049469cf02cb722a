SPECIFICATION Spec
CONSTANTS
  Conns = {c1}
  Scripts <- MCScripts
  Pieces = 2
  MaxRequest = 2
  IobufSize = 3
  IdleTimeout = 2
  PingInterval = 1
  MaxReply = 3
INVARIANTS RequestsInTurn
PROPERTIES ClosedWhole EveryConnectionEnds RequestsAnswered
CHECK_DEADLOCK FALSE

SPECIFICATION Spec
CONSTANTS
  Payloads = {0, 5}
  PortLists <- MCPortLists
  LastPort = 4
  Contexts = 3
INVARIANTS LengthsTrue DestroyedOnce ReachesAll
CHECK_DEADLOCK FALSE

SPECIFICATION Spec
CONSTANTS
  Modes <- MC_Modes
  cc = 2
  BlockRoom = 2
  QueueRoom = 2
  snapshot = 80
  Kinds <- MC_Kinds
  Filters <- MC_Filters
  Counts <- MC_Counts
  MaxPackets = 3
  MaxSettings = 1
  MaxBreaks = 1
  Handles = {h1, h2}
  Options <- MC_Options
  Systems <- MC_Systems
  Mtu = 1500
  Faults = 1
INVARIANTS TakenOut
CHECK_DEADLOCK FALSE

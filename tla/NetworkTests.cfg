SPECIFICATION Spec
CONSTANTS
  Speeds = {3, 5}
  Lens = {1, 2}
  Scale = 8
  Nano = 2
  Word = 65536
  Half = 256
  Delays = {0, 1, 5}
  MaxCalls = 5
  MaxNap = 100
  Values = 16
  Codes = 256
INVARIANTS SpeedKept NapsAreRight AllTried BuiltFromLiveState
PROPERTIES TestsProgress

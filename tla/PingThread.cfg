SPECIFICATION Spec
CONSTANTS
  W = 6
  MaxAge = 2
  MaxSent = 9
  MaxExtra = 2
  UsPerMs = 3
  MsPerSec = 4
  interval = 4
  preload = 2
  MaxTime = 84
INVARIANTS CountsExact PipesizeExact RateBoundRounded

CONSTANTS
  N = 2
  M = 6
  Tries = 2
  Readings = {1, 2}
  FASTGATE = 1
  SCREEN_FROM = 9
  SCREEN_EVERY = 2
  SCREEN_MIN = 1
  SCREEN_AUDIT = 0
  G = 2
  MaxCrashes = 1
  Cuts = {}
SPECIFICATION Spec
INVARIANTS ReplayAsksTheSame

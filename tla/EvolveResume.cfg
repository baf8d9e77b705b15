CONSTANTS
  N = 2
  M = 8
  Tries = 2
  Readings = {1, 2}
  FASTGATE = 0
  SCREEN_FROM = 9
  SCREEN_EVERY = 2
  SCREEN_MIN = 1
  SCREEN_AUDIT = 0
  G = 3
  MaxCrashes = 2
  Cuts = {2}
SPECIFICATION FairSpec
INVARIANTS NoneMeasuredTwice ReplayAsksTheSame
PROPERTIES SomeUninterruptedRun
PROPERTIES Finishes

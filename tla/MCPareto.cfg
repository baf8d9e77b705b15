CONSTANTS
  SPEED_TOL = 2
  MEM_TOL = 8
  TWO_WIDTHS = TRUE
  Ids = {1, 2, 3, 4}
  Measured <- MCMeasured
  Measures <- MCMeasures
  Families <- MCFamilies
  N = 2
  Q_KEEP = 1
  ATTIC = 2
  IslandCounts = {1, 2}
  MIGRATE = 2
  MaxDead = 1
  Litter = 2
  Workers = {1, 2}
  Designs <- MCDesigns
  Fates <- MCFates
  TwoByteOnly <- MCTwoByteOnly
  Audited <- MCAudited
  RefTime <- MCRefTime
  STOP1 = 30
  Strays <- MCStrays
  Batch = 2
SPECIFICATION MCSpec
INVARIANTS OnlyUndominated ArchiveApart SameAsFronts FrontsSort JudgedByItself StoppedIsDominated
PROPERTIES NoFamilyDiesOut NoGeneForgotten
CHECK_DEADLOCK FALSE

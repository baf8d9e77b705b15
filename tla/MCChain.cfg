CONSTANTS
  NC = 2
  Lines <- SearchThenMeasure
  Starters = {1}
  MaxCrashes = 1
  Disturbed = FALSE
SPECIFICATION MCSpec
INVARIANTS MeasureAlone NothingForgotten StatusTellsSteps EachReadingCountsOnce
PROPERTY StopEnds
CHECK_DEADLOCK FALSE

CONSTANTS
  CELL = 4
  Vars <- MCVars
  LOCALS_RT <- MCLocals
  X_TINY <- MCTiny
  Expect <- MCExpect
  Reach = 10
  Overlay <- MCOverlay
  Address <- MCAddress
  Jobs <- MCJobs
  Tries = 4
  F = "(F0)"
  Layouts <- MCLayouts
  Hash <- MCNameLen
  NameLen <- MCNameLen
  Prologue = 20
  Suffixed <- MCSuffixed
  Near <- MCNear
  SlotReach <- MCSlotReach
  Outer <- MCOuter
SPECIFICATION MCSpec
INVARIANTS NoCodeLeftAsData NeverAstray FindsTheDumpsWord LandsWhereItLed
PROPERTIES DoesWhatItsCellsDo

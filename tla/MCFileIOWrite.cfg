CONSTANTS
  Fds = {0, 3}
  Files = {f, p}
  Pipes = {p}
  NoFile = NoFile
  FamsUsed = {"r+", "a"}
  Texts <- MCTexts
  Counts = {2}
  Offsets = {0}
  MaxLen = 4
  InitContent <- WriteLines
  FBUFN = 2
  FBUFSZ = 2
  RedirectAnyKind = FALSE
SPECIFICATION Spec
INVARIANTS OneSlotEach AheadIsFresh
PROPERTIES OnePosition
CHECK_DEADLOCK FALSE

CONSTANTS
  Fds = {0, 3, 4}
  Files = {f, p}
  Pipes = {p}
  NoFile = NoFile
  FamsUsed = {"r"}
  Texts = {}
  Counts = {2}
  Offsets = {}
  MaxLen = 4
  InitContent <- TwoLines
  FBUFN = 1
  FBUFSZ = 2
  RedirectAnyKind = FALSE
SPECIFICATION Spec
INVARIANTS AheadCanGoBack
PROPERTIES OnePosition
CHECK_DEADLOCK FALSE

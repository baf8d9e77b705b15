CONSTANTS
  LINE = 1
  ROOM = 1
  Fids = {3, 4}
  MaxDepth = 3
  Setups <- MCSetups
SPECIFICATION MCSpec
INVARIANTS HandlerIsInnermost FilesInUseOpen NativeCodeIsItsWord BytecodeForAReason
PROPERTIES NestsAsPromised LinesKept
CHECK_DEADLOCK FALSE

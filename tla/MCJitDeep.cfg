CONSTANTS
  Setups <- DeepKernel
SPECIFICATION JitSpec
INVARIANTS NativeCodeIsItsWord
CHECK_DEADLOCK FALSE

CONSTANTS
  Procs = {"shell", "child"}
  Root = "shell"
  Files = {"tty", "file"}
  Terminals = {"tty"}
  Start1 = "file"
  Start2 = "file"
  TIOBUF = 2
  Texts = {1, 3}
  MaxBytes = 5
  Levels = {0, 4}
SPECIFICATION Spec
INVARIANTS OutOnce CausalOrder PromptFirst
CHECK_DEADLOCK FALSE

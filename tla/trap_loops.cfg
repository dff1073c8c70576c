\* Loops, break and continue, eval, functions and the DEBUG trap.
CONSTANTS
  Sig = {1}
  Handler = {h}
  None = None
  Ignore = Ignore
  Status = {0, 1}
  Interactive = TRUE
  FuncTrace = TRUE
  MAXDEPTH = 9
  Ops = {"loop", "eval", "debug", "posix", "function", "return", "errexit", "err"}
  MaxFrames = 5
  MaxLoop = 2
  MaxSent = 0
SPECIFICATION Spec
INVARIANTS LoopsCounted
\* The shell stops at Exited.
CHECK_DEADLOCK FALSE

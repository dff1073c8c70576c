\* Two signals, each delivered twice, against their handlers and built-ins.
CONSTANTS
  Sig = {1, 2}
  Handler = {h}
  None = None
  Ignore = Ignore
  Status = {0}
  Interactive = TRUE
  FuncTrace = FALSE
  MAXDEPTH = 9
  Ops = {"signal", "builtin", "posix", "exit", "error", "escape"}
  MaxFrames = 3
  MaxLoop = 1
  MaxSent = 2
SPECIFICATION Spec
INVARIANTS TypeOK DoneIsFinal HandledOnce CursigHeld
 
\* The shell stops at Exited.
CHECK_DEADLOCK FALSE

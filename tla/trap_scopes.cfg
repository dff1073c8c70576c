\* Nested functions of both kinds with traps, returns, errors and one signal.
CONSTANTS
  Sig = {1}
  Handler = {h}
  None = None
  Ignore = Ignore
  Status = {0}
  Interactive = FALSE
  FuncTrace = FALSE
  MAXDEPTH = 9
  Ops = {"function", "posix", "signal", "return", "error", "escape"}
  MaxFrames = 4
  MaxLoop = 1
  MaxSent = 1
SPECIFICATION Spec
INVARIANTS CountersAgree TrapmaxCovers ExecGuard
PROPERTIES TrapsAreScoped
\* The shell stops at Exited.
CHECK_DEADLOCK FALSE

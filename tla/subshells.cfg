CONSTANTS
  Name = {"a"}
  Value = {"1"}
  Function = {"f"}
  Body = {"b"}
  Dir = {"r", "s"}
  Programs = {{"assign", "typeset", "share", "fork"}, {"assign", "typeset", "job"}, {"function", "share", "fork", "job"}, {"cd", "share", "fork", "job"}}
  MaxFd = 4
  MaxDepth = 3
  MaxFork = 1
SPECIFICATION Spec
INVARIANTS TypeOK PwdHeld NoneLeaked SavedExist
PROPERTIES RunsAsForked FunctionsRemoved
CHECK_DEADLOCK FALSE

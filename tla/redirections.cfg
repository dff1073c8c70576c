\* What each program may do is chosen so that the actions of one set meet.
SPECIFICATION Spec
CONSTANTS
    Low = {3, 4}
    High = {10, 11, 12}
    File = {a, b}
    Programs = {{"block", "function", "exec", "sub", "dup", "error"},
                {"block", "function", "exec", "sub", "dup", "move", "close"},
                {"block", "exec", "sub", "move", "var"},
                {"block", "exec", "sub", "close", "fork", "error"},
                {"block", "exec", "sub", "var", "fork"}}
    MaxTop = 4
    MaxDepth = 3
    MaxFork = 1
INVARIANTS TypeOK SavesHeld NoneLeaked
PROPERTIES Restored ChildHasTheSame
CONSTRAINT Faithful
SYMMETRY Symmetry
CHECK_DEADLOCK FALSE

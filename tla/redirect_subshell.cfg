SPECIFICATION Spec
CONSTANTS
    Low = {3, 4}
    High = {10, 11, 12}
    File = {a, b}
    Programs = {{"block", "exec", "sub"}}
    MaxTop = 4
    MaxDepth = 3
    MaxFork = 1
PROPERTIES Isolated
SYMMETRY Symmetry
CHECK_DEADLOCK FALSE

CONSTANTS
    Pid = {1, 2}
    Status = {0, 7}
    CHILD_MAX = 1
    JOBMAX = 0
    Monitor = FALSE
    CriticalMod = 8
    WaitsafeMod = 8
    Ops = {"wait", "waitall", "subshell"}
    MaxSpawn = 2
    MaxTraps = 1
    MaxSub = 1
SPECIFICATION Spec
INVARIANTS StatusReported SavedBounded
PROPERTY WaitReturns

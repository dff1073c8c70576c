CONSTANTS
    Pid = {1, 2}
    Status = {0, 7}
    CHILD_MAX = 1
    JOBMAX = 0
    Monitor = TRUE
    CriticalMod = 8
    WaitsafeMod = 8
    Ops = {"wait", "trap"}
    MaxSpawn = 2
    MaxTraps = 2
    MaxSub = 0
SPECIFICATION Spec
INVARIANT StatusReported

CONSTANTS
    Pid = {1, 2}
    Status = {0}
    CHILD_MAX = 1
    JOBMAX = 1
    Monitor = TRUE
    CriticalMod = 8
    WaitsafeMod = 8
    Ops = {"fg", "wait", "waitall", "jobs", "trap", "error"}
    MaxSpawn = 2
    MaxTraps = 2
    MaxSub = 0
SPECIFICATION Spec
INVARIANTS TypeOK ChldTrapOnce JobmaxHolds


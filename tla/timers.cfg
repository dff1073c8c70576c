\* An alarm, which may repeat and whose function may set it again, and reads
\* with a time limit.
CONSTANTS
  Node = {1, 2, 3}
  Alarm = {"x"}
  Delay = {1, 2}
  Ops = {"read", "jump", "repeat", "function", "late"}
  MaxAdd = 3
  MaxTime = 4
SPECIFICATION Spec
INVARIANTS TypeOK NodesApart AlarmIsSet AlarmIsCaught 
PROPERTIES DueTimersRun
\* Time and the number of timers are bounded.
CHECK_DEADLOCK FALSE

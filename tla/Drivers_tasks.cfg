SPECIFICATION LiveSpec
CONSTANTS
    n1 = n1
    None = None
    Names = {n1}
    MaxTimers = 2
    MaxLoops = 2
    MaxHosts = 3
    MaxOut = 1
    Hasty = {"timer"}
    MaxLate = 1
INVARIANTS TableLive
PROPERTIES TasksEnd ShutdownSettles
CHECK_DEADLOCK FALSE

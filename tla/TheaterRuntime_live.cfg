SPECIFICATION LiveSpec
CONSTANTS
    a1 = a1  a2 = a2
    None = None
    Ids = {a1, a2}
    CmdCap = 1
    NoteCap = 1
    HostCalls <- MCHostEach
    ClientCmds = {"Setup", "Stop", "Info"}
    MaxClient = 2
    MaxExits = 1
    Callbacks = TRUE
    Slow = {a1}
PROPERTIES LoopServes StopsComplete
CHECK_DEADLOCK FALSE

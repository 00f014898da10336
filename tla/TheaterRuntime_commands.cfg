SPECIFICATION Spec
CONSTANTS
    a1 = a1  a2 = a2
    None = None
    Ids = {a1, a2}
    CmdCap = 1
    NoteCap = 1
    HostCalls <- MCHostAll
    ClientCmds = {"Spawn", "Terminate", "Info", "ShutdownRuntime"}
    MaxClient = 2
    MaxExits = 1
    Callbacks = TRUE
    Slow = {}
SYMMETRY Symmetry
INVARIANTS RegistryAgrees StoppedBeforeRemoved ToldBeforeGone
CHECK_DEADLOCK FALSE

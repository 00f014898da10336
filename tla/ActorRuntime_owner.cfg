SPECIFICATION LiveSpec
CONSTANTS
    o1 = o1  o2 = o2  o3 = o3
    i1 = i1  i2 = i2
    h1 = h1  h2 = h2
    None = None
    Ops = {o1}
    HttpOps = {}
    Infos = {i1}
    StatusInfos = {}
    Handlers = {h1}
    Controls = {"Shutdown", "Terminate", "Pause", "Resume"}
    EarlyControl = TRUE
    MaxControl = 2
PROPERTIES ShutdownCompletes CallersReleased
CHECK_DEADLOCK FALSE

SPECIFICATION Spec
CONSTANTS
    o1 = o1  o2 = o2  o3 = o3
    i1 = i1  i2 = i2
    h1 = h1  h2 = h2
    None = None
    Ops = {o1, o2, o3}
    HttpOps = {o3}
    Infos = {i1, i2}
    StatusInfos = {i1}
    Handlers = {h1}
    Controls = {"Shutdown"}
    EarlyControl = FALSE
    MaxControl = 2
INVARIANTS TypeOK AckMeansStopped FailureStopsCalls StateMatchesLog HandlersStopped
PROPERTIES QuietAfterAck ImplementsLifecycle
CHECK_DEADLOCK FALSE

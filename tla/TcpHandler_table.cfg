SPECIFICATION LiveSpec
CONSTANTS
    a1 = a1  a2 = a2  c1 = c1  c2 = c2
    None = None
    Actors = {a1, a2}
    Conns = {c1}
    Uses <- MCUses
    Stopped = {a2}
    Trapping = {a2}
    ServerTls = {a2}
    ClientTls = {a2}
    AutoHandshake = {}
    MaxCalls = 2
    MaxChunks = 2
    MaxTransfers = 1
INVARIANTS StreamsAgree DeliveredInOrder CleanupComplete
PROPERTIES TasksSettle
CHECK_DEADLOCK FALSE

SPECIFICATION LiveSpec
CONSTANTS
    k1 = k1  k2 = k2  a1 = a1  s1 = s1  h1 = h1
    None = None
    Clients = {k1, k2}
    Actors = {a1}
    Subs = {s1}
    Chans = {h1}
    Commands <- MCCommands
    Leavers = {k2}
    EventCap = 1
    RespCap = 1
    MaxEvents = 1
INVARIANTS EntriesTracked
PROPERTIES ChainReleased ClientAnswered
CHECK_DEADLOCK FALSE

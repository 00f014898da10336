SPECIFICATION StoreLiveSpec
CONSTANTS
    a1 = a1  a2 = a2  h1 = h1  h2 = h2  l1 = l1
    Nothing = Nothing
    Actors = {a1, a2}
    Contents = {h1, h2}
    Labels = {l1}
    Ops <- MCOps
    MaxCalls = 2
    MaxFaults = 2
INVARIANTS FilesAgree
PROPERTIES ContentSettles
CHECK_DEADLOCK FALSE

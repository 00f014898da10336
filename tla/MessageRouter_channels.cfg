SPECIFICATION LiveSpec
CONSTANTS
    a1 = a1  a2 = a2  c1 = c1
    None = None
    Actors = {a1, a2}
    Chans = {c1}
    HostCalls <- MCHostCalls
    MailCap = 1
    MaxCalls <- MCMaxCalls
INVARIANTS ChannelOrder ChannelPrivate
PROPERTIES RouterServes
CHECK_DEADLOCK FALSE

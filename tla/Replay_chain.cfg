SPECIFICATION ReplayLiveSpec
CONSTANTS
    original = original  value = value  shorter = shorter  longer = longer
    None = None
    Exports = {"f1", "f2"}
    Hosts = {"now", "random"}
    Outputs = {0, 1}
    Guests = {original, value, shorter, longer}
    Original = original
    Program <- MCProgram
    EventCap = 1
    MaxCalls = 2
    MaxOutside = 1
INVARIANTS OkMeansSame SameGuestSame
PROPERTIES ReplaySettles
CHECK_DEADLOCK FALSE

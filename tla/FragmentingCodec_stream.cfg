SPECIFICATION LiveSpec
CONSTANTS
    short = short  wide = wide  two = two  three = three
    Messages = {short, wide, two, three}
    Size <- MCSize
    Digits <- MCDigits
    FragmentSize = 3
    FrameLimit = 12
    CompleteOverhead = 2
    FragmentOverhead = 6
    MaxSent = 3
    MaxTicks = 5
INVARIANTS DecodedWasEncoded LostOnlyByExpiry
PROPERTIES EverythingDecoded
CHECK_DEADLOCK FALSE

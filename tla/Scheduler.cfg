SPECIFICATION Spec
CONSTANTS
    blockInterval = 2
    ChannelCapacity = 2
    MaxBlock = 6
    MaxCrashes = 2
    Requests = {r1, r2}
    NoRequest = NoRequest
INVARIANTS TypeOK RoundOncePerBoundary ChannelHasWaiter
SYMMETRY RequestSymmetry
CHECK_DEADLOCK FALSE

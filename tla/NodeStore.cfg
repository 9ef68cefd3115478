SPECIFICATION Spec
CONSTANTS
    Backends = {"badger", "redis", "memory"}
    Rounds = {r1, r2}
    MaxRounds = 2
    MaxBlock = 1
    MaxCrashes = 1
    MaxErrors = 1
SYMMETRY RoundSymmetry
INVARIANTS
    ServedIsDurable
    RestartKeepsServing
    SessionsSwept
    LastBlockReadable
PROPERTY
    ImplementsDurableState
CHECK_DEADLOCK FALSE

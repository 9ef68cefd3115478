SPECIFICATION FairSpec
CONSTANTS
    MaxVersion = 4
    MaxAborts = 4
    MaxCrashes = 2
    MaxErrors = 2
    Corrupt = {2, 3}
INVARIANTS TypeOK DemotionEarned RestartIsInvisible
PROPERTIES OnlyPoisonIsRolledBack CorruptVersionAbandoned
CHECK_DEADLOCK FALSE

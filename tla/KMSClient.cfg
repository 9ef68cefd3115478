SPECIFICATION Spec
CONSTANTS
    Prime = 7
    NumOperators = 4
    AppHash = 3
    Faulty <- MCFaulty
    BogusSigs <- MCBogusSigs
    BogusKeys <- MCBogusKeys
    LegacySets <- MCLegacySets
    Polynomials <- MCPolynomials
    Dealers <- MCDealers
    Blindings <- MCBlindings
    Randomness = 2
    MaxUnanswered = 1
    None = None
INVARIANTS
    EncryptedForTheApp
    CheckedKeyIsTrue
    RecoveryComplete
    PinnedSurvivesRotation
    EncryptedEnvAgreed
PROPERTY
    CallEnds
CHECK_DEADLOCK FALSE

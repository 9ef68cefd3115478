SPECIFICATION Spec
CONSTANTS
    Operators = {1, 2, 3}
    Polynomials <- MCPolynomials
    SourceOf <- MCSourceOf
    Versions <- MCVersions
    ParticipantIDs <- MCParticipants
    Corrupt = {1}
    InitialActive <- MCSplit
    NilMPK = {}
    Faulty = {1}
    FaultyDeals <- MCTwoDeals
    SessionTimestamp = 3
    None = None
INVARIANTS TypeOK SharesOnCommittedPolynomials SecretPreserved SoundVersionNotBlamed
PROPERTY ImplementsSourceConsensus
CHECK_DEADLOCK FALSE

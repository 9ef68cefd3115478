SPECIFICATION Spec
CONSTANTS
    Operators = {1, 2, 3}
    Polynomials <- MCPolynomials
    SourceOf <- MCSourceOf
    Versions <- MCVersions
    ParticipantIDs <- MCParticipants
    Corrupt = {}
    InitialActive <- MCSameVersion
    NilMPK = {}
    Faulty = {}
    FaultyDeals = {}
    SessionTimestamp = 3
    None = None
INVARIANTS IdenticalDealerSet
CHECK_DEADLOCK FALSE

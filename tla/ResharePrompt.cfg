SPECIFICATION PromptSpec
CONSTANTS
    Operators = {1, 2, 3}
    Polynomials <- MCPolynomials
    SourceOf <- MCSourceOf
    Versions <- MCVersions
    ParticipantIDs <- MCParticipants
    Corrupt = {}
    InitialActive <- MCActive
    NilMPK = {}
    Faulty = {}
    FaultyDeals = {}
    SessionTimestamp = 4
    None = None
PROPERTIES EveryoneFinalizes
CHECK_DEADLOCK FALSE

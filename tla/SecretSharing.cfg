SPECIFICATION SharingSpec
CONSTANTS
    Prime = 5
    NumOperators = 4
    AppHash = 1
    Founders <- MCFounders
    FaultyDealers <- MCFaulty
    Constants <- MCConstants
    Coefficients <- MCCoefficients
    MaxVersion = 3
    NoKey = NoKey
INVARIANTS
    GroupsReconstructTheKey
    PublishedSumIsTheKey
CHECK_DEADLOCK FALSE

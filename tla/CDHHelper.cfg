CONSTANTS
    ProjectID = "project"
    DebugMode = FALSE
    AllowedImageDigest = "ecdsa:unverified"
    Unverified = "ecdsa:unverified"
    ChallengeTimeWindow = 1
    MeasurementAllowlist = {"m"}
    RegisteredMethods = {"eigenx-snp"}
    Helpers = {h1, h2}
    Requests <- MCRequests
    InitDatas <- MCInitDatas
    Reports <- MCReports
    Snapshots <- MCSnapshots
    appPrivateKeyKey = "root"
    AllowSingleOperatorKMS = FALSE
    KeyOf <- MCKeyOf
    WrongKey <- MCWrongKey
    MaxFaults = 2
    None = none
SPECIFICATION Spec
INVARIANTS EmittedIsTrue CacheIsOneSnapshot GenuineEvidenceAccepted
PROPERTIES CacheSettles HelperEnds

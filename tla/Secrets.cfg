CONSTANTS
    ProjectID = "project"
    DebugMode = FALSE
    AllowedImageDigest = "ecdsa:unverified"
    Unverified = "ecdsa:unverified"
    ChallengeTimeWindow = 1
    MeasurementAllowlist = {"m"}
    RegisteredMethods = {"gcp", "intel", "tpm", "ecdsa", "eigenx-snp"}
    Slots = {1, 2}
    Requests <- MCRequests
    Releases <- MCReleases
    Deployments <- MCDeployments
    AppAllowlist = {"app"}
    Creator = "creator"
    jwks <- MCjwks
    maxJTICacheSize = 1
    MaxTime = 2
    MaxRequests = 2
    MaxChanges = 2
    MaxVersion = 3
    MaxFaults = 1
SPECIFICATION Spec
INVARIANTS HonouredOnce ServedToTheAttestedImage
PROPERTIES TimedAnswersNeverGoBack CacheDrains
CHECK_DEADLOCK FALSE

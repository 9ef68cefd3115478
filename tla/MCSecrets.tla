----------------------------- MODULE MCSecrets -----------------------------
(* An application with two images, one request of each attestation method, *)
(* a token used twice and a release that pins a container policy.          *)
EXTENDS Secrets

Token(vendor, hw, jti, exp, digest, key) ==
    [type |-> "jwt", alg |-> "RS256", signedBy |-> vendor, issuer |-> vendor,
     audiences |-> <<"kms">>, exp |-> exp, swName |-> "CONFIDENTIAL_SPACE",
     attesterTCB |-> <<"INTEL">>, hwModel |-> hw, swVersion |-> 250300,
     tcbStatus |-> "UpToDate", dbgStat |-> "disabled-since-boot", support |-> {"STABLE"},
     project |-> "project", instanceName |-> <<"tee", "app">>, eatNonce |-> << <<key, "">> >>,
     jti |-> jti, digest |-> digest, policy |-> [restart |-> "never"]]

NoInitData == [wire |-> "none", oversized |-> FALSE, rego |-> <<>>]
InitData(digest) ==
    [wire |-> "gzip", oversized |-> FALSE,
     rego |-> << [comment |-> TRUE, digest |-> "other", registry |-> "r"],
                 [comment |-> FALSE, digest |-> digest, registry |-> "r"] >>]

Request(method, attestation, key) ==
    [app |-> "app", stack |-> "", method |-> method, attestation |-> attestation,
     challenge |-> [time |-> 0], publicKey |-> "", rsaKey |-> key, extra |-> "",
     ccInitData |-> NoInitData, time |-> 0]

GoogleToken == Token("google", "GCP_INTEL_TDX", "j1", 1, "d1", "k1")
IntelToken == Token("intel", "INTEL_TDX", "j2", 2, "d2", "k1")
Quote == [type |-> "tpm", genuine |-> TRUE, platform |-> "tdx", challenge |-> CalculateChallenge("k1"),
          teeChallenge |-> CalculateChallenge("k1"), instanceName |-> <<"tee", "app">>,
          digest |-> "d1", policy |-> NoPolicy]
Cert(role) == [role |-> role, genuine |-> TRUE]
Report == [type |-> "snp", genuine |-> TRUE, certs |-> <<Cert("vcek"), Cert("ask"), Cert("ark")>>,
           measurement |-> "m", debug |-> FALSE, migrateMA |-> FALSE, vmpl |-> 0,
           reportData |-> <<"k1", "", InitData("d1")>>]

MCRequests ==
    { Request("gcp", GoogleToken, "k1"),
      Request("gcp", GoogleToken, "k2"),
      [Request("intel", IntelToken, "k1") EXCEPT !.time = 1],
      [Request("tpm", Quote, "k1") EXCEPT !.stack = "stack", !.time = 3],
      [Request("eigenx-snp", Report, "k1") EXCEPT !.ccInitData = InitData("d1")],
      [Request("ecdsa", SignChallenge("creator", "app", [time |-> 0]), "k1") EXCEPT
          !.publicKey = "creator"] }

MCReleases ==
    { [digest |-> "d1", registry |-> "r", env |-> "e1", policy |-> NoPolicy, artifacts |-> 1],
      [digest |-> "d2", registry |-> "", env |-> "e2", policy |-> [restart |-> "never"],
       artifacts |-> 1] }

MCDeployments == {{"d1"}}
MCjwks == {[alg |-> "RS256", id |-> "google"], [alg |-> "RS256", id |-> "intel"]}
=============================================================================

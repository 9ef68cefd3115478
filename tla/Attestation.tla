---------------------------- MODULE Attestation ----------------------------
(***************************************************************************)
(* pkg/attestation: what each attestation method makes of a request, as a  *)
(* function to the claims it extracts or to Refused. Hashes are collision  *)
(* free, so a nonce is the pair it is the hash of; signatures and vendor   *)
(* certificates are the "genuine" fields, which only the real signer sets. *)
(***************************************************************************)
EXTENDS Naturals, Sequences, SequencesExt

CONSTANTS
    ProjectID,            \* the cloud project the verifier is bound to
    DebugMode,            \* skip the debug and support checks
    AllowedImageDigest,   \* of the ecdsa method, or Unverified
    Unverified,
    ChallengeTimeWindow,
    MeasurementAllowlist, \* of eigenx-snp; empty: not enforced
    RegisteredMethods

Refused == [refused |-> TRUE]
IsRefused(claims) == "refused" \in DOMAIN claims

NoPolicy == <<>>

Claims(app, digest, registry, jti, exp, key, policy) ==
    [app |-> app, digest |-> digest, registry |-> registry, jti |-> jti, exp |-> exp,
     publicKey |-> key, policy |-> policy]

-----------------------------------------------------------------------------
(* Google Confidential Space and Intel Trust Authority: signed tokens.     *)

googleValidationConfig ==
    [issuer |-> "google", hwModel |-> "GCP_INTEL_TDX", attesterTCB |-> TRUE, tdx |-> FALSE]
intelValidationConfig ==
    [issuer |-> "intel", hwModel |-> "INTEL_TDX", attesterTCB |-> FALSE, tdx |-> TRUE]

(* Keys of the token's algorithm only: the sets have duplicate key ids.    *)
getFilteredKeySetForToken(token, jwks) == {key \in jwks : key.alg = token.alg}

validateToken(token, cfg) ==
    /\ token.swName = "CONFIDENTIAL_SPACE"
    /\ cfg.attesterTCB => token.attesterTCB = <<"INTEL">>
    /\ token.hwModel = cfg.hwModel
    /\ token.swVersion >= 250300
    /\ cfg.tdx => token.tcbStatus = "UpToDate"
    /\ DebugMode \/ (token.dbgStat = "disabled-since-boot" /\ "STABLE" \in token.support)
    /\ token.project = ProjectID

(* The last of at least two parts of the instance's name.                  *)
HasAppID(instanceName) == Len(instanceName) >= 2
extractAppIDFromInstanceName(instanceName) == Last(instanceName)

(* An absent nonce is the empty one; an array must have one element.       *)
HasNonce(eatNonce) == Len(eatNonce) <= 1
extractNonce(eatNonce) == IF eatNonce = <<>> THEN <<>> ELSE eatNonce[1]

VerifyAttestation(token, cfg, jwks, now) ==
    IF /\ [alg |-> token.alg, id |-> token.signedBy] \in getFilteredKeySetForToken(token, jwks)
       /\ now < token.exp
       /\ token.issuer = cfg.issuer
       /\ Len(token.audiences) = 1 /\ token.audiences[1] \in {"google", "kms"}
       /\ validateToken(token, cfg)
       /\ HasAppID(token.instanceName) /\ HasNonce(token.eatNonce)
    THEN Claims(extractAppIDFromInstanceName(token.instanceName), token.digest, "",
                token.jti, token.exp, "", token.policy)
    ELSE Refused

UnboundGCPVerify(request, cfg, jwks, now) ==
    LET token == request.attestation
    IN  IF token.type = "jwt" /\ token.jti # ""
        THEN VerifyAttestation(token, cfg, jwks, now) ELSE Refused

(* The nonce is the hash of the response key and the extra data.           *)
GCPVerify(request, cfg, jwks, now) ==
    LET token == request.attestation
    IN  IF /\ token.type = "jwt"
           /\ extractNonce(token.eatNonce) = <<request.rsaKey, request.extra>>
           /\ token.jti # ""
        THEN VerifyAttestation(token, cfg, jwks, now)
        ELSE Refused

-----------------------------------------------------------------------------
(* TPM quotes, bound to the response key by the challenge.                 *)

CalculateChallenge(rsaKey) == <<"COMPUTE_APP_ENV_REQUEST_RSA_KEY_V1", rsaKey>>

(* go-tpm and the TEE libraries check the quote and, except on shielded    *)
(* VMs, the TEE report against the same challenge.                         *)
VerifyEvidence(quote, challenge) ==
    /\ quote.genuine /\ quote.challenge = challenge
    /\ quote.platform # "shielded" => quote.teeChallenge = challenge

TPMVerify(request) ==
    LET quote == request.attestation
    IN  IF /\ quote.type = "tpm"
           /\ VerifyEvidence(quote, CalculateChallenge(request.rsaKey))
           /\ HasAppID(quote.instanceName)
        THEN Claims(extractAppIDFromInstanceName(quote.instanceName), quote.digest, "",
                    "", 0, "", quote.policy)
        ELSE Refused

-----------------------------------------------------------------------------
(* ECDSA challenges: a signature over the application, the challenge and   *)
(* the signer's public key, fresh by the challenge's timestamp.            *)

SignChallenge(key, app, challenge) == [type |-> "ecdsa", by |-> key, app |-> app,
                                       challenge |-> challenge]

ECDSAVerify(request, now) ==
    IF /\ request.challenge.time <= now
       /\ now - request.challenge.time <= ChallengeTimeWindow
       /\ request.attestation = SignChallenge(request.publicKey, request.app, request.challenge)
    THEN Claims(request.app, AllowedImageDigest, "", "", 0, request.publicKey, NoPolicy)
    ELSE Refused

-----------------------------------------------------------------------------
(* AMD SEV-SNP reports.                                                    *)

(* The first certificate of each role; later ones of the same role and     *)
(* unknown ones are dropped. VCEK and VLEK intermediates share a role.     *)
maxCertChainLen == 10
CertRoles == {"ark", "ask", "vcek", "vlek"}

buildCertChain(certs) ==
    [role \in {c.role : c \in Range(certs)} \cap CertRoles |->
        SelectSeq(certs, LAMBDA c : c.role = role)[1]]

(* go-sev-guest: the report's signature under the chain that was built.    *)
SnpAttestation(report, chain) ==
    /\ report.genuine
    /\ {"ark", "ask"} \subseteq DOMAIN chain
    /\ DOMAIN chain \cap {"vcek", "vlek"} # {}
    /\ \A role \in DOMAIN chain : chain[role].genuine

checkMeasurementAllowed(report) ==
    MeasurementAllowlist = {} \/ report.measurement \in MeasurementAllowlist

(* defaultValidateOptions: no debuggable or migratable guest, at VMPL 0.   *)
validReportFields(report) == ~report.debug /\ ~report.migrateMA /\ report.vmpl = 0

decodeInitDataWire(ccInitData) ==
    IF ccInitData.wire \in {"toml", "gzip"} /\ ~ccInitData.oversized
    THEN ccInitData.rego ELSE <<>>

stripRegoComments(rego) == SelectSeq(rego, LAMBDA line : ~line.comment)

(* The image references of the policy; the first one is the workload's.    *)
parseInitDataPolicy(ccInitData) ==
    SelectSeq(stripRegoComments(decodeInitDataWire(ccInitData)), LAMBDA line : line.digest # "")

(* The two halves of REPORT_DATA: the key and extra data, the init data.    *)
ExpectedReportData(request) == <<request.rsaKey, request.extra, request.ccInitData>>

SNPClaims(request, image) ==
    Claims(request.app, image.digest, image.registry, "", 0, "", NoPolicy)

SNPVerify(request) ==
    LET report == request.attestation
        refs == parseInitDataPolicy(request.ccInitData)
    IN  IF /\ report.type = "snp"
           /\ Len(report.certs) <= maxCertChainLen
           /\ SnpAttestation(report, buildCertChain(report.certs))
           /\ checkMeasurementAllowed(report) /\ validReportFields(report)
           /\ report.reportData = ExpectedReportData(request)
           /\ refs # <<>>
        THEN SNPClaims(request, refs[1])
        ELSE Refused

-----------------------------------------------------------------------------
(* AttestationManager.                                                     *)
VerifyWithMethod(request, jwks, now) ==
    IF request.method \notin RegisteredMethods THEN Refused
    ELSE CASE request.method = "gcp" -> GCPVerify(request, googleValidationConfig, jwks, now)
           [] request.method = "intel" -> GCPVerify(request, intelValidationConfig, jwks, now)
           [] request.method = "tpm" -> TPMVerify(request)
           [] request.method = "ecdsa" -> ECDSAVerify(request, now)
           [] request.method = "eigenx-snp" -> SNPVerify(request)
           [] OTHER -> Refused
=============================================================================

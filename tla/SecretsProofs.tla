--------------------------- MODULE SecretsProofs ----------------------------
(***************************************************************************)
(* Proofs about the /secrets endpoint, for any number of concurrent        *)
(* handlers, any requests and releases, and any size of the token cache.   *)
(***************************************************************************)
EXTENDS Secrets, WellFoundedInduction, TLAPS

(* The request with a token of this identifier and expiry.                 *)
HasToken(request, jti, exp) ==
    /\ request.attestation.type = "jwt"
    /\ request.attestation.jti = jti /\ request.attestation.exp = exp

(* What a verified request's claims say is what its evidence says: the     *)
(* token, and unless it is the creator's own request the response key and  *)
(* the image.                                                              *)
Vouched(request, claims) ==
    /\ request \in Requests
    /\ claims.jti # "" => HasToken(request, claims.jti, claims.exp)
    /\ request.method # "ecdsa" => /\ request.rsaKey = EvidenceKey(request)
                                   /\ claims.digest = EvidenceDigest(request)

(* Which fields of the evidence name the key and the image.                *)
LEMMA EvidenceOf ==
    ASSUME NEW request
    PROVE  LET type == request.attestation.type
           IN  /\ type = "jwt" => /\ EvidenceKey(request) = request.attestation.eatNonce[1][1]
                                  /\ EvidenceDigest(request) = request.attestation.digest
               /\ type = "tpm" => /\ EvidenceKey(request) = request.attestation.challenge[2]
                                  /\ EvidenceDigest(request) = request.attestation.digest
               /\ type = "snp" =>
                     /\ EvidenceKey(request) = request.attestation.reportData[1]
                     /\ EvidenceDigest(request)
                           = parseInitDataPolicy(request.ccInitData)[1].digest
<1>1. "jwt" # "tpm" /\ "jwt" # "snp" /\ "tpm" # "snp"
  OBVIOUS
<1>2. QED
  BY <1>1 DEF EvidenceKey, EvidenceDigest

(* The fields of claims that an answer depends on.                         *)
LEMMA ClaimsFields ==
    ASSUME NEW app, NEW digest, NEW registry, NEW jti, NEW exp, NEW key, NEW policy, NEW claims,
           claims = Claims(app, digest, registry, jti, exp, key, policy)
    PROVE  claims.digest = digest /\ claims.jti = jti /\ claims.exp = exp
BY DEF Claims

(* A token vouches for its identifier, expiry, image and, by its nonce,    *)
(* for the response key.                                                   *)
LEMMA TokenVouches ==
    ASSUME NEW request \in Requests, NEW cfg, NEW t, NEW claims, claims # Refused,
           claims = GCPVerify(request, cfg, jwks, t)
    PROVE  Vouched(request, claims)
<1> DEFINE token == request.attestation  none == ""
<1>1. /\ token.type = "jwt" /\ token.jti # ""
      /\ extractNonce(token.eatNonce) = <<request.rsaKey, request.extra>>
      /\ claims = VerifyAttestation(token, cfg, jwks, t)
  BY Zenon DEF GCPVerify
<1>2. claims = Claims(extractAppIDFromInstanceName(token.instanceName), token.digest, none,
                      token.jti, token.exp, none, token.policy)
  BY <1>1, Zenon DEF VerifyAttestation
<1> HIDE DEF none
<1>3. claims.jti = token.jti /\ claims.exp = token.exp /\ claims.digest = token.digest
  BY <1>2, ClaimsFields
<1>4. token.eatNonce[1][1] = request.rsaKey
  <2>1. <<request.rsaKey, request.extra>> # <<>>
    OBVIOUS
  <2>2. token.eatNonce[1] = <<request.rsaKey, request.extra>>
    BY <1>1, <2>1, Zenon DEF extractNonce
  <2>3. QED
    BY <2>2
<1>5. QED
  BY <1>1, <1>3, <1>4, EvidenceOf DEF Vouched, HasToken

(* A quote vouches for its image and, by its challenge, for the key.       *)
LEMMA QuoteVouches ==
    ASSUME NEW request \in Requests, NEW claims, claims # Refused,
           claims = TPMVerify(request)
    PROVE  Vouched(request, claims)
<1> DEFINE quote == request.attestation
<1>1. /\ quote.type = "tpm" /\ quote.challenge = CalculateChallenge(request.rsaKey)
      /\ claims = Claims(extractAppIDFromInstanceName(quote.instanceName), quote.digest, "",
                         "", 0, "", quote.policy)
  BY Zenon DEF TPMVerify, VerifyEvidence
<1>2. claims.jti = "" /\ claims.digest = quote.digest
  <2> DEFINE none == ""  zero == 0
  <2>1. claims = Claims(extractAppIDFromInstanceName(quote.instanceName), quote.digest, none,
                        none, zero, none, quote.policy)
    BY <1>1, Zenon
  <2> HIDE DEF none, zero
  <2>2. claims.jti = none /\ claims.digest = quote.digest
    BY <2>1, ClaimsFields
  <2>3. QED
    BY <2>2 DEF none
<1>3. quote.challenge[2] = request.rsaKey
  <2>1. quote.challenge = CalculateChallenge(request.rsaKey)
    BY <1>1, Zenon
  <2>2. QED
    BY <2>1 DEF CalculateChallenge
<1>4. quote.type = "tpm"
  BY <1>1, Zenon
<1>5. QED
  BY <1>2, <1>3, <1>4, EvidenceOf DEF Vouched

(* A report vouches, by its report data, for the key and for the init data *)
(* that name the image.                                                    *)
LEMMA ReportVouches ==
    ASSUME NEW request \in Requests, NEW claims, claims # Refused,
           claims = SNPVerify(request)
    PROVE  Vouched(request, claims)
<1> DEFINE report == request.attestation
           image == parseInitDataPolicy(request.ccInitData)[1]
<1>1. /\ report.type = "snp" /\ report.reportData = ExpectedReportData(request)
      /\ claims = Claims(request.app, image.digest, image.registry, "", 0, "", NoPolicy)
  BY Zenon DEF SNPVerify, SNPClaims
<1> HIDE DEF image
<1>2. claims.jti = "" /\ claims.digest = image.digest
  <2> DEFINE none == ""  zero == 0
  <2>1. claims = Claims(request.app, image.digest, image.registry, none, zero, none, NoPolicy)
    BY <1>1, Zenon
  <2> HIDE DEF none, zero
  <2>2. claims.jti = none /\ claims.digest = image.digest
    BY <2>1, ClaimsFields
  <2>3. QED
    BY <2>2 DEF none
<1>3. report.reportData[1] = request.rsaKey
  <2>1. report.reportData = ExpectedReportData(request)
    BY <1>1, Zenon
  <2>2. QED
    BY <2>1 DEF ExpectedReportData
<1>4. report.type = "snp"
  BY <1>1, Zenon
<1>5. QED
  BY <1>2, <1>3, <1>4, EvidenceOf DEF Vouched, image

(* Whichever method verified a request, its claims are its evidence's.     *)
LEMMA VerifiedVouches ==
    ASSUME NEW request \in Requests, NEW t, NEW claims, ~IsRefused(claims),
           claims = VerifyWithMethod(request, jwks, t)
    PROVE  Vouched(request, claims)
<1>1. claims # Refused
  <2>1. IsRefused(Refused)
    BY DEF IsRefused, Refused
  <2>2. QED
    BY <2>1
<1>2. \/ /\ request.method = "ecdsa" /\ claims = ECDSAVerify(request, t)
      \/ \E cfg : claims = GCPVerify(request, cfg, jwks, t)
      \/ claims = TPMVerify(request)
      \/ claims = SNPVerify(request)
  BY <1>1 DEF VerifyWithMethod
<1>3. ASSUME request.method = "ecdsa", claims = ECDSAVerify(request, t)
      PROVE  Vouched(request, claims)
  <2> DEFINE none == ""  zero == 0
  <2>1. claims = Claims(request.app, AllowedImageDigest, none, none, zero,
                        request.publicKey, NoPolicy)
    BY <1>1, <1>3, Zenon DEF ECDSAVerify
  <2> HIDE DEF none, zero
  <2>2. claims.jti = none
    BY <2>1, ClaimsFields
  <2>3. QED
    BY <1>3, <2>2 DEF Vouched, none
<1>4. QED
  BY <1>1, <1>2, <1>3, TokenVouches, QuoteVouches, ReportVouches

-----------------------------------------------------------------------------
(* A non-empty set of bounded numbers has a greatest one.                  *)
LEMMA Newest ==
    ASSUME NEW N \in Nat, NEW S, S \subseteq 1..N, S # {}
    PROVE  \E x \in S : \A y \in S : y <= x
<1> DEFINE R == OpToRel(<, Nat)
           Below == {N - x : x \in S}
<1>1. \A x \in S : N - x \in Nat
  OBVIOUS
<1>2. Below \subseteq Nat /\ Below # {}
  BY <1>1, Zenon
<1>3. PICK least \in Below : \A y \in Below : ~ (<<y, least>> \in R)
  <2>1. IsWellFoundedOn(R, Nat)
    BY NatLessThanWellFounded
  <2> HIDE DEF R, Below
  <2>2. QED
    BY <1>2, <2>1, WFMin
<1>4. \A a, b \in Nat : a < b => <<a, b>> \in R
  BY DEF OpToRel
<1>5. PICK x \in S : least = N - x
  OBVIOUS
<1>6. ASSUME NEW y \in S
      PROVE  y <= x
  <2>1. N - y \in Below /\ N - y \in Nat /\ least \in Nat
    BY <1>1, <1>2
  <2>2. ~(N - y < least)
    BY <2>1, <1>3, <1>4
  <2>3. QED
    BY <2>2, <1>5
<1>7. QED
  BY <1>6

-----------------------------------------------------------------------------
(* The version given for a past time.                                      *)

(* A version that was given for a time is held and no newer than the time. *)
VersionInv ==
    /\ keyVersions \in Seq(1..MaxVersion)
    /\ pinned \in [1..MaxVersion -> Nat]
    /\ \A t \in 1..MaxVersion :
          pinned[t] # 0 => pinned[t] \in Range(keyVersions) /\ pinned[t] <= t

(* The steps that change the versions held or the answers given.           *)
LEMMA VersionSteps ==
    ASSUME [Next]_vars
    PROVE  \/ UNCHANGED <<keyVersions, pinned>>
           \/ \E v \in 1..MaxVersion : AddVersion(v)
           \/ \E s \in Slots : Respond(s)
<1> USE DEF Change, NoReply, chain, keyStore, bounds, Step
<1>1. CASE UNCHANGED vars
  BY <1>1 DEF vars, logs
<1>2. CASE \E release \in Releases, sameBlock \in BOOLEAN : Publish(release, sameBlock)
  BY <1>2 DEF Publish
<1>3. CASE Confirm \/ MarkPoisoned \/ \E digests \in Deployments : Deploy(digests)
  BY <1>3 DEF Confirm, Deploy, MarkPoisoned
<1>4. CASE \E v \in 1..MaxVersion : SetActiveVersionByTimestamp(v)
  BY <1>4 DEF SetActiveVersionByTimestamp
<1>5. CASE \E s \in Slots, request \in Requests : Admit(s, request)
  BY <1>5 DEF Admit
<1>6. CASE \E s \in Slots : CheckReplay(s)
  BY <1>6 DEF CheckReplay
<1>7. CASE \E s \in Slots : authorizeViaPlatform(s)
  BY <1>7 DEF authorizeViaPlatform
<1>8. CASE \E s \in Slots : GetAppLatestReleaseBlockNumber(s)
  BY <1>8 DEF GetAppLatestReleaseBlockNumber
<1>9. CASE \E s \in Slots : GetLatestReleaseAsRelease(s)
  BY <1>9 DEF GetLatestReleaseAsRelease
<1>10. CASE \E s \in Slots : CallFails(s)
  BY <1>10 DEF CallFails
<1>11. CASE runJTICleanup \/ Tick \/ Restart
  BY <1>11 DEF runJTICleanup, Tick, Restart
<1>12. QED
  BY <1>1, <1>2, <1>3, <1>4, <1>5, <1>6, <1>7, <1>8, <1>9, <1>10, <1>11 DEF Next

(* An element of a sequence over a set is in the set.                      *)
LEMMA Elements == \A S : \A seq \in Seq(S) : \A i \in DOMAIN seq : seq[i] \in S
OBVIOUS

(* The versions held are numbers.                                          *)
LEMMA HeldVersions ==
    ASSUME keyVersions \in Seq(1..MaxVersion)
    PROVE  Range(keyVersions) \subseteq 1..MaxVersion /\ Range(keyVersions) \subseteq Nat
<1>1. Range(keyVersions) \subseteq 1..MaxVersion
  BY Elements, Zenon DEF Range
<1>2. QED
  BY <1>1

(* The version a time gets is held, not poisoned, no newer than the time   *)
(* and no older than any other such version.                               *)
LEMMA NewestFit ==
    ASSUME keyVersions \in Seq(1..MaxVersion), NEW time,
           GetKeyVersionAtTime(time) # 0
    PROVE  /\ GetKeyVersionAtTime(time) \in Range(keyVersions)
           /\ GetKeyVersionAtTime(time) <= time
           /\ \A v \in Range(keyVersions) \ poisoned :
                 v <= time => v <= GetKeyVersionAtTime(time)
<1> DEFINE fit == {v \in Range(keyVersions) \ poisoned : v <= time}
<1>1. Range(keyVersions) \subseteq 1..MaxVersion
  BY HeldVersions
<1>2. fit # {} /\ GetKeyVersionAtTime(time) = CHOOSE v \in fit : \A w \in fit : w <= v
  BY DEF GetKeyVersionAtTime
<1>3. \E v \in fit : \A w \in fit : w <= v
  <2>1. MaxVersion \in Nat /\ fit \subseteq 1..MaxVersion
    BY <1>1, SecretsAssumption
  <2> HIDE DEF fit
  <2>2. QED
    BY <1>2, <2>1, Newest
<1>4. GetKeyVersionAtTime(time) \in fit /\ \A w \in fit : w <= GetKeyVersionAtTime(time)
  <2> HIDE DEF fit
  <2>1. QED
    BY <1>2, <1>3, Zenon
<1>5. QED
  BY <1>4

(* The initial states satisfy VersionInv.                                  *)
LEMMA VersionStart ==
    ASSUME Init
    PROVE  VersionInv
<1>1. keyVersions = <<MaxVersion - 1, MaxVersion>> /\ pinned = [t \in 1..MaxVersion |-> 0]
  BY DEF Init
<1>2. MaxVersion \in Nat /\ MaxVersion > 1
  BY SecretsAssumption
<1>3. QED
  BY <1>1, <1>2 DEF VersionInv

(* Every step preserves VersionInv.                                        *)
LEMMA VersionStep ==
    ASSUME VersionInv, [Next]_vars
    PROVE  VersionInv'
<1> USE DEF VersionInv
<1>1. CASE UNCHANGED <<keyVersions, pinned>>
  BY <1>1
<1>2. ASSUME NEW v \in 1..MaxVersion, AddVersion(v)
      PROVE  VersionInv'
  <2>1. keyVersions' = Append(keyVersions, v) /\ pinned' = pinned
    BY <1>2 DEF AddVersion, Change, NoReply
  <2>2. keyVersions' \in Seq(1..MaxVersion)
    BY <2>1
  <2>3. Range(keyVersions) \subseteq Range(keyVersions')
    BY <2>1 DEF Range
  <2>4. QED
    BY <2>1, <2>2, <2>3
<1>3. ASSUME NEW s \in Slots, Respond(s)
      PROVE  VersionInv'
  <2> DEFINE time == handlers[s].request.time
             version == IF time > 0 THEN GetKeyVersionAtTime(time) ELSE active
  <2>1. keyVersions' = keyVersions
    BY <1>3 DEF Respond, keyStore
  <2>2. \/ pinned' = pinned
        \/ /\ GetKeyVersionAtTime(time) # 0
           /\ pinned' = [pinned EXCEPT ![time] = GetKeyVersionAtTime(time)]
    BY <1>3 DEF Respond
  <2>3. CASE pinned' = pinned
    BY <2>1, <2>3
  <2>4. CASE /\ GetKeyVersionAtTime(time) # 0
             /\ pinned' = [pinned EXCEPT ![time] = GetKeyVersionAtTime(time)]
    <3> DEFINE given == GetKeyVersionAtTime(time)
    <3>1. given \in Range(keyVersions) /\ given <= time
      BY <2>4, NewestFit
    <3>2. given \in Nat
      BY <3>1, HeldVersions
    <3> HIDE DEF given, time
    <3>3. QED
      BY <2>1, <2>4, <3>1, <3>2 DEF given
  <2>5. QED
    BY <2>2, <2>3, <2>4
<1>4. QED
  BY <1>1, <1>2, <1>3, VersionSteps

(* No step gives a past time an older version than it was given before,    *)
(* however rounds and restores added the versions, unless the version      *)
(* given before has been poisoned.                                         *)
THEOREM AnswersNeverGoBack == Spec => TimedAnswersNeverGoBack
<1>1. Init => VersionInv
  BY VersionStart
<1>2. VersionInv /\ [Next]_vars => VersionInv'
  BY VersionStep
<1>3. ASSUME VersionInv, [Next]_vars, NEW t \in 1..MaxVersion, pinned[t] # 0
      PROVE  pinned'[t] >= pinned[t] \/ pinned[t] \in poisoned'
  <2> USE DEF VersionInv
  <2>1. CASE pinned' = pinned
    BY <1>3, <2>1
  <2>2. CASE \E s \in Slots : Respond(s)
    <3>1. PICK s \in Slots : Respond(s)
      BY <2>2
    <3> DEFINE time == handlers[s].request.time
    <3>2. /\ poisoned' = poisoned
          /\ \/ pinned' = pinned
             \/ /\ GetKeyVersionAtTime(time) # 0
                /\ pinned' = [pinned EXCEPT ![time] = GetKeyVersionAtTime(time)]
      BY <3>1 DEF Respond, keyStore
    <3>3. CASE pinned[t] \notin poisoned /\ t = time /\ GetKeyVersionAtTime(time) # 0
      <4> DEFINE given == GetKeyVersionAtTime(time)
      <4>1. /\ given \in Range(keyVersions)
            /\ \A v \in Range(keyVersions) \ poisoned : v <= time => v <= given
        BY <1>3, <3>3, NewestFit
      <4>2. given \in Nat
        BY <1>3, <4>1, HeldVersions
      <4> HIDE DEF given, time
      <4>3. pinned[t] <= given /\ pinned[t] \in Nat
        BY <1>3, <3>3, <4>1
      <4>4. pinned'[t] = pinned[t] \/ pinned'[t] = given
        BY <1>3, <3>2, <3>3 DEF given
      <4>5. QED
        BY <4>2, <4>3, <4>4
    <3>4. CASE pinned[t] \in poisoned
      BY <3>2, <3>4
    <3>5. CASE t # time \/ GetKeyVersionAtTime(time) = 0
      <4> HIDE DEF time
      <4>1. pinned'[t] = pinned[t] /\ pinned[t] \in Nat
        BY <1>3, <3>2, <3>5
      <4>2. QED
        BY <4>1
    <3>6. QED
      BY <3>3, <3>4, <3>5
  <2>3. QED
    BY <1>3, <2>1, <2>2, VersionSteps DEF AddVersion, Change, NoReply
<1>4. VersionInv /\ [Next]_vars =>
        [\A t \in 1..MaxVersion :
            pinned[t] # 0 => pinned'[t] >= pinned[t] \/ pinned[t] \in poisoned']_vars
  BY <1>3
<1>5. QED
  BY <1>1, <1>2, <1>4, PTL DEF Spec, TimedAnswersNeverGoBack

-----------------------------------------------------------------------------
(* What a handler knows, and what the chain and the platform do meanwhile. *)

(* What the last release of a block entitles its image to, and what a      *)
(* deployment does.                                                        *)
Released(log, block) ==
    {[digest |-> log[i].release.digest, env |-> log[i].release.env] :
        i \in {j \in DOMAIN log :
                 log[j].block = block
                 /\ \A k \in DOMAIN log : log[k].block = block => k <= j}}
Deployed(digests) == {[digest |-> d, env |-> NoEnv] : d \in digests}
Granted(h) == [digest |-> h.claims.digest, env |-> h.release.env]

(* A handler at work: its claims are its evidence's; it has seen what the  *)
(* confirmed release and the deployment entitle to now; the block it read  *)
(* is confirmed, and it has seen what that one entitles to; and what it    *)
(* has authorized a TEE for is among all it has seen.                      *)
Fit(h, log, block, digests) ==
    /\ h.phase \in {"verified", "fresh", "located", "authorized"}
    /\ Vouched(h.request, h.claims)
    /\ Released(log, block) \cup Deployed(digests) \subseteq h.entitled
    /\ h.phase = "located" =>
          h.block \in Nat /\ h.block <= block /\ Released(log, h.block) \subseteq h.entitled
    /\ (h.phase = "authorized" /\ h.request.method # "ecdsa") => Granted(h) \in h.entitled

HandlersInv ==
    /\ DOMAIN handlers = Slots
    /\ \A s \in Slots :
          handlers[s] = Idle \/ Fit(handlers[s], events, confirmed, platform)

(* Blocks only grow along the log, and only a published one is confirmed.  *)
ChainInv ==
    /\ events \in Seq([block : Nat, release : Releases])
    /\ \A i \in 1..Len(events) : events[i].block <= events[Len(events)].block
    /\ confirmed \in Nat
    /\ confirmed <= IF events = <<>> THEN 0 ELSE events[Len(events)].block

(* The fields of a handler are what it was made of.                        *)
LEMMA HandlerFields ==
    ASSUME NEW phase, NEW request, NEW claims, NEW entitled, NEW block, NEW release, NEW h,
           h = Handler(phase, request, claims, entitled, block, release)
    PROVE  /\ h.phase = phase /\ h.request = request /\ h.claims = claims
           /\ h.entitled = entitled /\ h.block = block /\ h.release = release
BY DEF Handler

(* Idle handlers are in no phase of a request.                             *)
LEMMA AtWork ==
    ASSUME HandlersInv, NEW s \in Slots,
           handlers[s].phase \in {"verified", "fresh", "located", "authorized"}
    PROVE  Fit(handlers[s], events, confirmed, platform)
<1>1. handlers[s] # Idle
  BY DEF Idle
<1>2. QED
  BY <1>1 DEF HandlersInv

(* What is entitled now, by release or by the platform.                    *)
LEMMA EntitledNow ==
    ASSUME NEW block, NEW digests
    PROVE  EntitledAt(block, digests) = Released(events, block) \cup Deployed(digests)
BY Zenon DEF EntitledAt, Released, Deployed

(* One handler moves and the others stay.                                  *)
LEMMA Moved ==
    ASSUME HandlersInv, NEW s \in Slots, NEW new, Step(s, new), UNCHANGED chain,
           new = Idle \/ Fit(new, events, confirmed, platform)
    PROVE  HandlersInv'
<1>1. handlers' = [handlers EXCEPT ![s] = new]
  BY DEF Step
<1>2. DOMAIN handlers' = Slots
  BY <1>1 DEF HandlersInv
<1>3. ASSUME NEW t \in Slots
      PROVE  handlers'[t] = Idle \/ Fit(handlers'[t], events, confirmed, platform)
  <2>1. handlers'[t] = new \/ handlers'[t] = handlers[t]
    BY <1>1, <1>3 DEF HandlersInv
  <2>2. QED
    BY <1>3, <2>1, Zenon DEF HandlersInv
<1>4. events' = events /\ confirmed' = confirmed /\ platform' = platform
  BY DEF chain
<1>5. QED
  BY <1>2, <1>3, <1>4, Zenon DEF HandlersInv

(* A handler that only goes to its next phase stays fit.                   *)
LEMMA NextPhase ==
    ASSUME NEW h, NEW log, NEW block, NEW digests, Fit(h, log, block, digests)
    PROVE  Fit(To(h, "fresh"), log, block, digests)
<1> DEFINE next == "fresh"  new == To(h, next)
<1> HIDE DEF next
<1>1. /\ new.phase = next /\ new.request = h.request /\ new.claims = h.claims
      /\ new.entitled = h.entitled
  BY HandlerFields DEF To
<1> HIDE DEF new
<1>2. Fit(new, log, block, digests)
  BY <1>1 DEF Fit, next
<1>3. QED
  BY <1>2, Zenon DEF new, next

(* A handler authorized for a release it is entitled to is fit.            *)
LEMMA AuthorizedFit ==
    ASSUME NEW h, NEW release, Fit(h, events, confirmed, platform),
           h.request.method # "ecdsa" =>
               [digest |-> h.claims.digest, env |-> release.env] \in h.entitled
    PROVE  Fit(Authorize(h, release), events, confirmed, platform)
<1> DEFINE next == "authorized"  new == Authorize(h, release)
<1>1. new = Handler(next, h.request, h.claims, h.entitled, h.block, release)
  BY DEF Authorize
<1> HIDE DEF next, new
<1>2. /\ new.phase = next /\ new.request = h.request /\ new.claims = h.claims
      /\ new.entitled = h.entitled /\ new.release = release
  BY <1>1, HandlerFields
<1>3. Fit(new, events, confirmed, platform)
  BY <1>2 DEF Fit, next, Granted
<1>4. QED
  BY <1>3, Zenon DEF new

(* A handler that read the release's block number is fit.                  *)
LEMMA LocatedFit ==
    ASSUME NEW h, Fit(h, events, confirmed, platform), confirmed \in Nat
    PROVE  Fit(Handler("located", h.request, h.claims, h.entitled, confirmed, NoRelease),
               events, confirmed, platform)
<1> DEFINE next == "located"
           new == Handler(next, h.request, h.claims, h.entitled, confirmed, NoRelease)
<1> HIDE DEF next
<1>1. /\ new.phase = next /\ new.request = h.request /\ new.claims = h.claims
      /\ new.entitled = h.entitled /\ new.block = confirmed
  BY HandlerFields
<1> HIDE DEF new
<1>2. Fit(new, events, confirmed, platform)
  BY <1>1 DEF Fit, next
<1>3. QED
  BY <1>2, Zenon DEF new, next

(* An admitted handler is fit.                                             *)
LEMMA AdmittedFit ==
    ASSUME NEW request, NEW claims, Vouched(request, claims)
    PROVE  Fit(Handler("verified", request, claims, EntitledAt(confirmed, platform),
                       0, NoRelease), events, confirmed, platform)
<1> DEFINE next == "verified"  zero == 0
           new == Handler(next, request, claims, EntitledAt(confirmed, platform),
                          zero, NoRelease)
<1> HIDE DEF next, zero
<1>1. /\ new.phase = next /\ new.request = request /\ new.claims = claims
      /\ new.entitled = EntitledAt(confirmed, platform)
  BY HandlerFields
<1> HIDE DEF new
<1>2. Fit(new, events, confirmed, platform)
  BY <1>1, EntitledNow DEF Fit, next
<1>3. QED
  BY <1>2, Zenon DEF new, next, zero

(* The release that authorizes a request is the last one of the block the  *)
(* handler read, which entitles its image to its environment.              *)
LEMMA ReleaseEntitles ==
    ASSUME ChainInv, NEW block, resolveLatestRelease(block).artifacts = 1
    PROVE  [digest |-> resolveLatestRelease(block).digest,
            env |-> resolveLatestRelease(block).env] \in Released(events, block)
<1>1. NoRelease.artifacts # 1
  BY DEF NoRelease
<1>2. /\ OfBlock(block) # {}
      /\ resolveLatestRelease(block) = events[Max(OfBlock(block))].release
  BY <1>1, Zenon DEF resolveLatestRelease
<1>3. OfBlock(block) \subseteq 1..Len(events) /\ Len(events) \in Nat
  BY DEF OfBlock, ChainInv
<1>4. \E j \in OfBlock(block) : \A k \in OfBlock(block) : k <= j
  BY <1>2, <1>3, Newest
<1>5. Max(OfBlock(block)) \in OfBlock(block) /\ \A k \in OfBlock(block) : Max(OfBlock(block)) >= k
  <2>1. \A j, k \in OfBlock(block) : k <= j <=> j >= k
    BY <1>3 DEF ChainInv
  <2>2. \E j \in OfBlock(block) : \A k \in OfBlock(block) : j >= k
    BY <1>4, <2>1
  <2>3. QED
    BY <2>2, Zenon DEF Max
<1> DEFINE j == Max(OfBlock(block))
<1>6. /\ j \in DOMAIN events /\ events[j].block = block
      /\ \A k \in DOMAIN events : events[k].block = block => k <= j
  <2>1. j \in DOMAIN events /\ events[j].block = block
    BY <1>5, Zenon DEF OfBlock
  <2>2. ASSUME NEW k \in DOMAIN events, events[k].block = block
        PROVE  k <= j
    <3>1. j >= k /\ k \in OfBlock(block) /\ j \in OfBlock(block)
      BY <1>5, <2>2 DEF OfBlock
    <3>2. j \in Nat /\ k \in Nat
      BY <1>3, <3>1
    <3>3. QED
      BY <3>1, <3>2
  <2>3. QED
    BY <2>1, <2>2, Zenon
<1> HIDE DEF j
<1>7. QED
  BY <1>2, <1>6 DEF Released, j

(* A later event leaves what the earlier blocks entitle to.                *)
LEMMA LaterEvent ==
    ASSUME ChainInv, NEW event, event.block # 0, NEW block, event.block # block
    PROVE  Released(Append(events, event), block) = Released(events, block)
<1> DEFINE more == Append(events, event)  n == Len(events)
           Lasts(log) == {j \in DOMAIN log : log[j].block = block
                             /\ \A k \in DOMAIN log : log[k].block = block => k <= j}
<1>1. /\ n \in Nat /\ DOMAIN events = 1..n /\ DOMAIN more = 1..(n + 1)
      /\ \A i \in 1..n : more[i] = events[i]
      /\ more[n + 1] = event
  BY DEF ChainInv
<1> HIDE DEF more, n
<1>2. Lasts(more) = Lasts(events)
  BY <1>1
<1>3. \A i \in Lasts(events) : more[i] = events[i]
  BY <1>1
<1> HIDE DEF Lasts
<1>4. {[digest |-> more[i].release.digest, env |-> more[i].release.env] : i \in Lasts(more)}
        = {[digest |-> events[i].release.digest, env |-> events[i].release.env] :
              i \in Lasts(events)}
  BY <1>2, <1>3
<1>5. QED
  BY <1>4, Zenon DEF Released, Lasts, more

(* The block of the log's last event, as the actions read it.              *)
LEMMA LastBlock ==
    ASSUME ChainInv, events # <<>>
    PROVE  /\ Len(events) \in DOMAIN events /\ Last(events).block = events[Len(events)].block
           /\ Last(events).block \in Nat /\ confirmed <= Last(events).block
<1>1. Len(events) \in Nat /\ DOMAIN events = 1..Len(events) /\ Len(events) # 0
  BY DEF ChainInv
<1>2. Len(events) \in DOMAIN events
  BY <1>1
<1>3. events[Len(events)] \in [block : Nat, release : Releases]
  BY <1>2, Elements, Zenon DEF ChainInv
<1>4. Last(events) = events[Len(events)]
  BY DEF Last
<1>5. confirmed <= events[Len(events)].block
  BY DEF ChainInv
<1>6. QED
  BY <1>2, <1>3, <1>4, <1>5

(* A new release takes nothing from what a handler was entitled to.        *)
LEMMA PublishKeeps ==
    ASSUME ChainInv, HandlersInv, NEW release \in Releases, NEW sameBlock \in BOOLEAN,
           Publish(release, sameBlock)
    PROVE  ChainInv' /\ HandlersInv'
<1> DEFINE last == IF events = <<>> THEN 0 ELSE Last(events).block
           block == IF sameBlock THEN last ELSE last + 1
           event == [block |-> block, release |-> release]
<1>1. /\ events' = Append(events, event) /\ confirmed' = confirmed
      /\ platform' = platform /\ handlers' = handlers /\ (sameBlock => last > confirmed)
  BY DEF Publish
<1>2. last \in Nat /\ confirmed \in Nat /\ confirmed <= last
  BY LastBlock DEF ChainInv
<1> HIDE DEF last
<1>3. block \in Nat /\ block > confirmed /\ block >= last
  <2>1. CASE sameBlock
    BY <1>1, <1>2, <2>1
  <2>2. CASE ~sameBlock
    BY <1>2, <2>2
  <2>3. QED
    BY <2>1, <2>2
<1>4. event.block = block /\ event \in [block : Nat, release : Releases]
  BY <1>3
<1> HIDE DEF block, event
<1>5. ChainInv'
  <2> DEFINE n == Len(events)
  <2>1. /\ n \in Nat /\ Len(events') = n + 1 /\ DOMAIN events' = 1..(n + 1)
        /\ \A i \in 1..n : events'[i] = events[i]
        /\ events'[n + 1] = event
        /\ events' \in Seq([block : Nat, release : Releases])
    BY <1>1, <1>4 DEF ChainInv
  <2>2. \A i \in 1..n : events[i].block \in Nat /\ events[i].block <= last
    <3>1. ASSUME NEW i \in 1..n
          PROVE  events[i].block \in Nat /\ events[i].block <= last
      <4>1. events # <<>> /\ i \in DOMAIN events
        BY <3>1 DEF ChainInv
      <4>2. events[i] \in [block : Nat, release : Releases]
        BY <4>1, Elements, Zenon DEF ChainInv
      <4>3. last = events[n].block
        BY <4>1, LastBlock DEF last
      <4>4. events[i].block <= events[n].block
        BY <3>1 DEF ChainInv
      <4>5. QED
        BY <4>2, <4>3, <4>4
    <3>2. QED
      BY <3>1
  <2> HIDE DEF n
  <2>3. \A i \in 1..(n + 1) : events'[i].block \in Nat /\ events'[i].block <= block
    BY <1>2, <1>3, <1>4, <2>1, <2>2
  <2>4. events' # <<>>
    BY <2>1
  <2>5. QED
    BY <1>1, <1>2, <1>3, <1>4, <2>1, <2>3, <2>4 DEF ChainInv
<1>6. ASSUME NEW s \in Slots, Fit(handlers[s], events, confirmed, platform)
      PROVE  Fit(handlers[s], events', confirmed, platform)
  <2>1. Released(events', confirmed) = Released(events, confirmed)
    BY <1>1, <1>2, <1>3, <1>4, LaterEvent
  <2>2. ASSUME handlers[s].phase = "located"
        PROVE  Released(events', handlers[s].block) = Released(events, handlers[s].block)
    <3>1. handlers[s].block \in Nat /\ handlers[s].block <= confirmed
      BY <1>6, <2>2 DEF Fit
    <3>2. QED
      BY <1>1, <1>2, <1>3, <1>4, <3>1, LaterEvent
  <2>3. QED
    BY <1>6, <2>1, <2>2 DEF Fit
<1>7. \A s \in Slots : handlers[s] = Idle \/ Fit(handlers[s], events', confirmed, platform)
  BY <1>6, Zenon DEF HandlersInv
<1>8. QED
  BY <1>1, <1>5, <1>7 DEF HandlersInv

(* Handlers at work see what a confirmation or a deployment entitles to.   *)
LEMMA WitnessKeeps ==
    ASSUME HandlersInv, NEW block \in Nat, NEW digests, Witness(block, digests),
           events' = events, confirmed' = block, platform' = digests,
           confirmed \in Nat, confirmed <= block
    PROVE  HandlersInv'
<1> DEFINE Seen(h) == Handler(h.phase, h.request, h.claims,
                              h.entitled \cup EntitledAt(block, digests), h.block, h.release)
<1>1. /\ DOMAIN handlers' = Slots
      /\ \A s \in Slots : handlers'[s] = IF handlers[s] = Idle THEN Idle ELSE Seen(handlers[s])
  BY DEF Witness
<1>2. ASSUME NEW h, Fit(h, events, confirmed, platform)
      PROVE  Fit(Seen(h), events, block, digests)
  <2> DEFINE new == Seen(h)
  <2>1. /\ new.phase = h.phase /\ new.request = h.request /\ new.claims = h.claims
        /\ new.entitled = h.entitled \cup EntitledAt(block, digests)
        /\ new.block = h.block /\ new.release = h.release
    BY HandlerFields
  <2> HIDE DEF new
  <2>2. Granted(new) = Granted(h)
    BY <2>1 DEF Granted
  <2>3. h.block \in Nat /\ h.block <= confirmed => h.block <= block
    OBVIOUS
  <2>4. Fit(new, events, block, digests)
    BY <1>2, <2>1, <2>2, <2>3, EntitledNow DEF Fit
  <2>5. QED
    BY <2>4, Zenon DEF new
<1> HIDE DEF Seen
<1>3. ASSUME NEW s \in Slots
      PROVE  handlers'[s] = Idle \/ Fit(handlers'[s], events, block, digests)
  BY <1>1, <1>2, <1>3, Zenon DEF HandlersInv
<1>4. QED
  BY <1>1, <1>3, Zenon DEF HandlersInv

(* The initial states satisfy ChainInv and HandlersInv.                    *)
LEMMA HandlersStart ==
    ASSUME Init
    PROVE  ChainInv /\ HandlersInv
<1>1. ChainInv
  <2>1. CASE events = <<>> /\ confirmed = 0
    BY <2>1 DEF ChainInv
  <2>2. ASSUME NEW first \in Releases, NEW second \in Releases, confirmed = 1,
               events = <<[block |-> 1, release |-> first], [block |-> 1, release |-> second]>>
        PROVE  ChainInv
    BY <2>2 DEF ChainInv
  <2>3. QED
    BY <2>1, <2>2 DEF Init
<1>2. handlers = [s \in Slots |-> Idle]
  BY DEF Init
<1>3. QED
  BY <1>1, <1>2 DEF HandlersInv

(* Every step but a publication and a confirmation leaves the chain, and   *)
(* every one but those and a deployment leaves all that entitles.          *)
LEMMA ChainSteps ==
    ASSUME [Next]_vars
    PROVE  \/ UNCHANGED <<chain, handlers>>
           \/ \E release \in Releases, sameBlock \in BOOLEAN : Publish(release, sameBlock)
           \/ Confirm
           \/ \E digests \in Deployments : Deploy(digests)
           \/ /\ UNCHANGED chain
              /\ \/ \E s \in Slots, request \in Requests : Admit(s, request)
                 \/ \E s \in Slots : CheckReplay(s)
                 \/ \E s \in Slots : authorizeViaPlatform(s)
                 \/ \E s \in Slots : GetAppLatestReleaseBlockNumber(s)
                 \/ \E s \in Slots : GetLatestReleaseAsRelease(s)
                 \/ \E s \in Slots : CallFails(s)
                 \/ \E s \in Slots : Respond(s)
                 \/ Restart
<1>1. CASE UNCHANGED vars
  BY <1>1 DEF vars, chain
<1>2. CASE MarkPoisoned \/ \E v \in 1..MaxVersion : AddVersion(v) \/ SetActiveVersionByTimestamp(v)
  BY <1>2 DEF MarkPoisoned, AddVersion, SetActiveVersionByTimestamp, chain
<1>3. CASE runJTICleanup \/ Tick
  BY <1>3 DEF runJTICleanup, Tick, chain
<1>4. CASE \E s \in Slots, request \in Requests : Admit(s, request)
  BY <1>4 DEF Admit, chain
<1>5. CASE \E s \in Slots : CheckReplay(s)
  BY <1>5 DEF CheckReplay, chain
<1>6. CASE \E s \in Slots : authorizeViaPlatform(s)
  BY <1>6 DEF authorizeViaPlatform, chain
<1>7. CASE \E s \in Slots : GetAppLatestReleaseBlockNumber(s)
  BY <1>7 DEF GetAppLatestReleaseBlockNumber, chain
<1>8. CASE \E s \in Slots : GetLatestReleaseAsRelease(s)
  BY <1>8 DEF GetLatestReleaseAsRelease, chain
<1>9. CASE \E s \in Slots : CallFails(s)
  BY <1>9 DEF CallFails, chain
<1>10. CASE \E s \in Slots : Respond(s)
  BY <1>10 DEF Respond, chain
<1>11. CASE Restart
  BY <1>11 DEF Restart, chain
<1>12. QED
  BY <1>1, <1>2, <1>3, <1>4, <1>5, <1>6, <1>7, <1>8, <1>9, <1>10, <1>11 DEF Next

(* Each step of a handler leaves it idle or fit.                           *)
LEMMA HandlerSteps ==
    ASSUME ChainInv, HandlersInv, NEW s \in Slots,
           \/ \E request \in Requests : Admit(s, request)
           \/ CheckReplay(s) \/ authorizeViaPlatform(s) \/ GetAppLatestReleaseBlockNumber(s)
           \/ GetLatestReleaseAsRelease(s) \/ CallFails(s) \/ Respond(s)
    PROVE  \E new : Step(s, new) /\ (new = Idle \/ Fit(new, events, confirmed, platform))
<1> DEFINE h == handlers[s]
           Now(handler) == Fit(handler, events, confirmed, platform)
<1>w. h.phase \in {"verified", "fresh", "located", "authorized"} => Now(h)
  BY AtWork
<1>i. Refuse(s) => \E new : Step(s, new) /\ (new = Idle \/ Now(new))
  BY Zenon DEF Refuse
<1>1. ASSUME NEW request \in Requests, Admit(s, request)
      PROVE  \E new : Step(s, new) /\ Now(new)
  <2> DEFINE claims == VerifyWithMethod(request, jwks, now)
             new == Handler("verified", request, claims, EntitledAt(confirmed, platform),
                            0, NoRelease)
  <2>1. ~IsRefused(claims) /\ Step(s, new)
    BY <1>1, Zenon DEF Admit
  <2>2. Vouched(request, claims)
    BY <2>1, VerifiedVouches, Zenon
  <2>3. Now(new)
    BY <2>2, AdmittedFit, Zenon
  <2>4. QED
    BY <2>1, <2>3, Zenon
<1>2. ASSUME CheckReplay(s)
      PROVE  \E new : Step(s, new) /\ (new = Idle \/ Now(new))
  <2>1. h.phase = "verified" /\ (Refuse(s) \/ Step(s, To(h, "fresh")))
    BY <1>2, Zenon DEF CheckReplay
  <2>2. Now(h)
    BY <1>w, <2>1
  <2>3. Now(To(h, "fresh"))
    BY <2>2, NextPhase, Zenon
  <2>4. QED
    BY <1>i, <2>1, <2>3, Zenon
<1>3. ASSUME authorizeViaPlatform(s)
      PROVE  \E new : Step(s, new) /\ (new = Idle \/ Now(new))
  <2>1. /\ h.phase = "fresh"
        /\ \/ Refuse(s)
           \/ h.claims.digest \in platform /\ Step(s, Authorize(h, NoRelease))
    BY <1>3, Zenon DEF authorizeViaPlatform, GetLatestDeployedRelease
  <2>2. Now(h)
    BY <1>w, <2>1
  <2>3. ASSUME h.claims.digest \in platform
        PROVE  Now(Authorize(h, NoRelease))
    <3>1. [digest |-> h.claims.digest, env |-> NoEnv] \in h.entitled
      BY <2>2, <2>3 DEF Fit, Deployed
    <3>2. NoRelease.env = NoEnv
      BY DEF NoRelease
    <3>3. QED
      BY <2>2, <3>1, <3>2, AuthorizedFit, Zenon
  <2>4. QED
    BY <1>i, <2>1, <2>3, Zenon
<1>4. ASSUME GetAppLatestReleaseBlockNumber(s)
      PROVE  \E new : Step(s, new) /\ (new = Idle \/ Now(new))
  <2> DEFINE new == Handler("located", h.request, h.claims, h.entitled, confirmed, NoRelease)
  <2>1. h.phase = "fresh" /\ (Refuse(s) \/ Step(s, new))
    BY <1>4, Zenon DEF GetAppLatestReleaseBlockNumber
  <2>2. Now(h) /\ confirmed \in Nat
    BY <1>w, <2>1 DEF ChainInv
  <2>3. Now(new)
    BY <2>2, LocatedFit, Zenon
  <2>4. QED
    BY <1>i, <2>1, <2>3, Zenon
<1>5. ASSUME GetLatestReleaseAsRelease(s)
      PROVE  \E new : Step(s, new) /\ (new = Idle \/ Now(new))
  <2> DEFINE release == resolveLatestRelease(h.block)
  <2>1. /\ h.phase = "located"
        /\ \/ Refuse(s)
           \/ /\ h.request.method = "ecdsa"
              /\ Step(s, Authorize(h, IF release.artifacts = 1 THEN release ELSE NoRelease))
           \/ Authorized(h, release) /\ Step(s, Authorize(h, release))
    BY <1>5, Zenon DEF GetLatestReleaseAsRelease
  <2>2. Now(h)
    BY <1>w, <2>1
  <2>3. ASSUME h.request.method = "ecdsa", NEW any
        PROVE  Now(Authorize(h, any))
    BY <2>2, <2>3, AuthorizedFit, Zenon
  <2>4. ASSUME Authorized(h, release)
        PROVE  Now(Authorize(h, release))
    <3>1. release.artifacts = 1 /\ h.claims.digest = release.digest
      BY <2>4, Zenon DEF Authorized
    <3>2. [digest |-> release.digest, env |-> release.env] \in Released(events, h.block)
      BY <3>1, ReleaseEntitles, Zenon
    <3>3. Released(events, h.block) \subseteq h.entitled
      BY <2>1, <2>2, Zenon DEF Fit
    <3>4. [digest |-> h.claims.digest, env |-> release.env] \in h.entitled
      BY <3>1, <3>2, <3>3, Zenon
    <3>5. QED
      BY <2>2, <3>4, AuthorizedFit, Zenon
  <2>5. QED
    BY <1>i, <2>1, <2>3, <2>4, Zenon
<1>6. ASSUME CallFails(s)
      PROVE  \E new : Step(s, new) /\ (new = Idle \/ Now(new))
  <2>1. \/ Refuse(s)
        \/ /\ h.phase = "located" /\ h.request.method = "ecdsa"
           /\ Step(s, Authorize(h, NoRelease))
    BY <1>6, Zenon DEF CallFails
  <2>2. ASSUME h.phase = "located", h.request.method = "ecdsa"
        PROVE  Now(Authorize(h, NoRelease))
    <3>1. Now(h)
      BY <1>w, <2>2
    <3>2. QED
      BY <2>2, <3>1, AuthorizedFit, Zenon
  <2>3. QED
    BY <1>i, <2>1, <2>2, Zenon
<1>7. ASSUME Respond(s)
      PROVE  \E new : Step(s, new) /\ (new = Idle \/ Now(new))
  BY <1>7, <1>i, Zenon DEF Respond
<1>8. QED
  BY <1>1, <1>2, <1>3, <1>4, <1>5, <1>6, <1>7, Zenon

(* Every step preserves ChainInv and HandlersInv.                          *)
LEMMA HandlersStep ==
    ASSUME ChainInv, HandlersInv, [Next]_vars
    PROVE  ChainInv' /\ HandlersInv'
<1>1. CASE UNCHANGED <<chain, handlers>>
  BY <1>1 DEF chain, ChainInv, HandlersInv
<1>2. CASE \E release \in Releases, sameBlock \in BOOLEAN : Publish(release, sameBlock)
  BY <1>2, PublishKeeps
<1>3. CASE Confirm
  <2>1. /\ events # <<>> /\ Last(events).block > confirmed
        /\ confirmed' = Last(events).block
        /\ Witness(confirmed', platform) /\ events' = events /\ platform' = platform
    BY <1>3 DEF Confirm
  <2>2. confirmed' \in Nat /\ confirmed \in Nat /\ confirmed <= confirmed'
    BY <2>1, LastBlock DEF ChainInv
  <2>3. HandlersInv'
    BY <2>1, <2>2, WitnessKeeps
  <2>4. ChainInv'
    <3>1. confirmed' <= IF events = <<>> THEN 0 ELSE events[Len(events)].block
      BY <2>1, <2>2, LastBlock
    <3>2. QED
      BY <2>1, <2>2, <3>1 DEF ChainInv
  <2>5. QED
    BY <2>3, <2>4
<1>4. CASE \E digests \in Deployments : Deploy(digests)
  <2>1. PICK digests \in Deployments : Deploy(digests)
    BY <1>4
  <2>2. /\ Witness(confirmed, digests) /\ platform' = digests
        /\ events' = events /\ confirmed' = confirmed
    BY <2>1 DEF Deploy
  <2>3. ChainInv' /\ confirmed \in Nat /\ confirmed <= confirmed
    BY <2>2 DEF ChainInv
  <2>4. HandlersInv'
    BY <2>2, <2>3, WitnessKeeps
  <2>5. QED
    BY <2>3, <2>4
<1>5. ASSUME UNCHANGED chain, NEW s \in Slots,
             \/ \E request \in Requests : Admit(s, request)
             \/ CheckReplay(s) \/ authorizeViaPlatform(s) \/ GetAppLatestReleaseBlockNumber(s)
             \/ GetLatestReleaseAsRelease(s) \/ CallFails(s) \/ Respond(s)
      PROVE  ChainInv' /\ HandlersInv'
  <2>1. HandlersInv'
    BY <1>5, HandlerSteps, Moved
  <2>2. QED
    BY <1>5, <2>1 DEF chain, ChainInv
<1>6. CASE UNCHANGED chain /\ Restart
  BY <1>6 DEF chain, Restart, ChainInv, HandlersInv
<1>7. QED
  BY <1>1, <1>2, <1>3, <1>4, <1>5, <1>6, ChainSteps

-----------------------------------------------------------------------------
(* The answer.                                                             *)

(* The answer a handler gives is for the image and the key of its evidence.*)
LEMMA RespondServes ==
    ASSUME HandlersInv, NEW s \in Slots, Respond(s)
    PROVE  ServedToTheAttestedImage'
<1> DEFINE h == handlers[s]
           answer == [request |-> h.request, key |-> h.request.rsaKey,
                      env |-> h.release.env, entitled |-> h.entitled]
<1>1. h.phase = "authorized" /\ (reply' = <<>> \/ reply' = answer)
  BY Zenon DEF Respond, ReleaseEnv
<1>2. Fit(h, events, confirmed, platform)
  BY <1>1, AtWork
<1>3. /\ answer.request = h.request /\ answer.key = h.request.rsaKey
      /\ answer.env = h.release.env /\ answer.entitled = h.entitled
  OBVIOUS
<1>4. ASSUME h.request.method # "ecdsa"
      PROVE  /\ h.request.rsaKey = EvidenceKey(h.request)
             /\ [digest |-> EvidenceDigest(h.request), env |-> h.release.env] \in h.entitled
  <2>1. /\ h.request.rsaKey = EvidenceKey(h.request)
        /\ h.claims.digest = EvidenceDigest(h.request)
        /\ Granted(h) \in h.entitled
    BY <1>1, <1>2, <1>4, Zenon DEF Fit, Vouched
  <2>2. QED
    BY <2>1, Zenon DEF Granted
<1> HIDE DEF answer
<1>5. (reply' # <<>> /\ reply'.request.method # "ecdsa") =>
         /\ reply'.key = EvidenceKey(reply'.request)
         /\ [digest |-> EvidenceDigest(reply'.request), env |-> reply'.env] \in reply'.entitled
  BY <1>1, <1>3, <1>4, Zenon
<1>6. QED
  BY <1>5 DEF ServedToTheAttestedImage, EvidenceKey, EvidenceDigest

(* The other steps answer nothing.                                         *)
LEMMA NoOtherReply ==
    ASSUME [Next]_vars
    PROVE  reply' = <<>> \/ reply' = reply \/ \E s \in Slots : Respond(s)
<1> USE DEF Change, NoReply
<1>1. CASE UNCHANGED vars
  BY <1>1 DEF vars, logs
<1>2. CASE \E release \in Releases, sameBlock \in BOOLEAN : Publish(release, sameBlock)
  BY <1>2 DEF Publish
<1>3. CASE Confirm \/ MarkPoisoned \/ \E digests \in Deployments : Deploy(digests)
  BY <1>3 DEF Confirm, Deploy, MarkPoisoned
<1>4. CASE \E v \in 1..MaxVersion : AddVersion(v) \/ SetActiveVersionByTimestamp(v)
  BY <1>4 DEF AddVersion, SetActiveVersionByTimestamp
<1>5. CASE \E s \in Slots, request \in Requests : Admit(s, request)
  BY <1>5 DEF Admit
<1>6. CASE \E s \in Slots : CheckReplay(s)
  BY <1>6 DEF CheckReplay
<1>7. CASE \E s \in Slots : authorizeViaPlatform(s)
  BY <1>7 DEF authorizeViaPlatform
<1>8. CASE \E s \in Slots : GetAppLatestReleaseBlockNumber(s)
  BY <1>8 DEF GetAppLatestReleaseBlockNumber
<1>9. CASE \E s \in Slots : GetLatestReleaseAsRelease(s)
  BY <1>9 DEF GetLatestReleaseAsRelease
<1>10. CASE \E s \in Slots : CallFails(s)
  BY <1>10 DEF CallFails
<1>11. CASE runJTICleanup \/ Tick \/ Restart
  BY <1>11 DEF runJTICleanup, Tick, Restart
<1>12. QED
  BY <1>1, <1>2, <1>3, <1>4, <1>5, <1>6, <1>7, <1>8, <1>9, <1>10, <1>11 DEF Next

(* Whatever releases and deployments do between a handler's reads, a TEE   *)
(* is answered only under the key its evidence names, and only with what   *)
(* its image was entitled to at some moment of its request.                *)
THEOREM AnswersAreForTheImage == Spec => []ServedToTheAttestedImage
<1> DEFINE Inv == ChainInv /\ HandlersInv /\ ServedToTheAttestedImage
<1>1. Init => Inv
  BY HandlersStart DEF Init, ServedToTheAttestedImage
<1>2. Inv /\ [Next]_vars => Inv'
  <2> SUFFICES ASSUME Inv, [Next]_vars PROVE Inv'
    OBVIOUS
  <2>1. ChainInv' /\ HandlersInv'
    BY HandlersStep
  <2>2. ServedToTheAttestedImage'
    <3>1. CASE reply' = <<>>
      BY <3>1 DEF ServedToTheAttestedImage
    <3>2. CASE reply' = reply
      BY <3>2 DEF ServedToTheAttestedImage, EvidenceKey, EvidenceDigest
    <3>3. CASE \E s \in Slots : Respond(s)
      BY <3>3, RespondServes
    <3>4. QED
      BY <3>1, <3>2, <3>3, NoOtherReply
  <2>3. QED
    BY <2>1, <2>2
<1>3. QED
  BY <1>1, <1>2, PTL DEF Spec

-----------------------------------------------------------------------------
(* The token cache.                                                        *)

Expired(jti, t) ==
    \E request \in Requests :
        /\ request.attestation.type = "jwt" /\ request.attestation.jti = jti
        /\ t >= request.attestation.exp

(* A token accepted before is still in the cache, with the expiry of a     *)
(* request that carries it, or has expired.                                *)
CacheInv ==
    /\ now \in Nat
    /\ \A jti \in DOMAIN honoured :
          /\ honoured[jti] \in Seq(Nat)
          /\ \/ /\ jti \in DOMAIN jtiCache
                /\ \E request \in Requests : HasToken(request, jti, jtiCache[jti])
             \/ Expired(jti, now)

(* The steps that touch the token cache.                                   *)
LEMMA TokenSteps ==
    ASSUME [Next]_vars
    PROVE  \/ UNCHANGED <<now, jtiCache, honoured>>
           \/ \E s \in Slots : CheckReplay(s)
           \/ runJTICleanup \/ Tick \/ Restart
<1> USE DEF Change, NoReply
<1>1. CASE UNCHANGED vars
  BY <1>1 DEF vars, logs
<1>2. CASE \E release \in Releases, sameBlock \in BOOLEAN : Publish(release, sameBlock)
  BY <1>2 DEF Publish
<1>3. CASE Confirm \/ MarkPoisoned \/ \E digests \in Deployments : Deploy(digests)
  BY <1>3 DEF Confirm, Deploy, MarkPoisoned
<1>4. CASE \E v \in 1..MaxVersion : AddVersion(v) \/ SetActiveVersionByTimestamp(v)
  BY <1>4 DEF AddVersion, SetActiveVersionByTimestamp
<1>5. CASE \E s \in Slots, request \in Requests : Admit(s, request)
  BY <1>5 DEF Admit
<1>6. CASE \E s \in Slots : Respond(s)
  BY <1>6 DEF Respond
<1>7. CASE \E s \in Slots : authorizeViaPlatform(s)
  BY <1>7 DEF authorizeViaPlatform
<1>8. CASE \E s \in Slots : GetAppLatestReleaseBlockNumber(s)
  BY <1>8 DEF GetAppLatestReleaseBlockNumber
<1>9. CASE \E s \in Slots : GetLatestReleaseAsRelease(s)
  BY <1>9 DEF GetLatestReleaseAsRelease
<1>10. CASE \E s \in Slots : CallFails(s)
  BY <1>10 DEF CallFails
<1>11. QED
  BY <1>1, <1>2, <1>3, <1>4, <1>5, <1>6, <1>7, <1>8, <1>9, <1>10 DEF Next

(* A token is accepted while it is not in the cache: never before, or      *)
(* after its expiry.                                                       *)
LEMMA AcceptKeeps ==
    ASSUME HandlersInv, CacheInv, HonouredOnce, NEW s \in Slots, CheckReplay(s)
    PROVE  CacheInv' /\ HonouredOnce'
<1> DEFINE h == handlers[s]  jti == h.claims.jti
           times == IF jti \in DOMAIN honoured THEN honoured[jti] ELSE <<>>
<1>1. CASE UNCHANGED <<jtiCache, honoured>>
  <2>1. now' = now
    BY DEF CheckReplay
  <2>2. QED
    BY <1>1, <2>1 DEF CacheInv, HonouredOnce, Expired, HasToken
<1>2. CASE /\ jti # "" /\ checkAndStoreJTI(jti)
           /\ jtiCache' = With(jtiCache, jti, h.claims.exp)
           /\ honoured' = With(honoured, jti, Append(times, now))
  <2>1. now' = now /\ h.phase = "verified" /\ now \in Nat
    BY DEF CheckReplay, CacheInv
  <2>2. h.request \in Requests /\ HasToken(h.request, jti, h.claims.exp)
    BY <1>2, <2>1, AtWork DEF Fit, Vouched
  <2>3. times \in Seq(Nat) /\ (times # <<>> => Expired(jti, now))
    <3>1. jti \notin DOMAIN jtiCache
      BY <1>2 DEF checkAndStoreJTI
    <3> HIDE DEF jti
    <3>2. QED
      BY <3>1 DEF CacheInv
  <2>4. /\ DOMAIN honoured' = DOMAIN honoured \cup {jti}
        /\ honoured'[jti] = Append(times, now)
        /\ \A k \in DOMAIN honoured : k # jti => honoured'[k] = honoured[k]
        /\ DOMAIN jtiCache' = DOMAIN jtiCache \cup {jti}
        /\ jtiCache'[jti] = h.claims.exp
        /\ \A k \in DOMAIN jtiCache : k # jti => jtiCache'[k] = jtiCache[k]
    <3> DEFINE longer == Append(times, now)
    <3>1. /\ jtiCache' = With(jtiCache, jti, h.claims.exp)
          /\ honoured' = With(honoured, jti, longer)
      BY <1>2, Zenon
    <3> HIDE DEF jti, longer
    <3>2. /\ DOMAIN jtiCache' = DOMAIN jtiCache \cup {jti}
          /\ jtiCache'[jti] = h.claims.exp
          /\ \A k \in DOMAIN jtiCache : k # jti => jtiCache'[k] = jtiCache[k]
      BY <3>1 DEF With
    <3>3. /\ DOMAIN honoured' = DOMAIN honoured \cup {jti}
          /\ honoured'[jti] = longer
          /\ \A k \in DOMAIN honoured : k # jti => honoured'[k] = honoured[k]
      BY <3>1 DEF With
    <3>4. QED
      BY <3>2, <3>3, Zenon DEF longer
  <2>5. ASSUME NEW i \in 2..Len(honoured'[jti])
        PROVE  Expired(jti, honoured'[jti][i])
    <3> HIDE DEF jti
    <3>1. CASE i = Len(times) + 1
      <4>1. honoured'[jti][i] = now /\ times # <<>>
        BY <2>1, <2>3, <2>4, <2>5, <3>1
      <4>2. QED
        BY <2>3, <4>1
    <3>2. CASE i # Len(times) + 1
      <4>1. i \in 2..Len(times) /\ honoured'[jti][i] = times[i]
        BY <2>1, <2>3, <2>4, <2>5, <3>2
      <4>2. jti \in DOMAIN honoured /\ times = honoured[jti]
        BY <4>1
      <4>3. QED
        BY <4>1, <4>2 DEF HonouredOnce, Expired
    <3>3. QED
      BY <3>1, <3>2
  <2>6. HonouredOnce'
    <3>1. ASSUME NEW k \in DOMAIN honoured', NEW i \in 2..Len(honoured'[k])
          PROVE  Expired(k, honoured'[k][i])
      <4>1. CASE k = jti
        BY <2>5, <3>1, <4>1
      <4>2. CASE k # jti
        BY <2>4, <3>1, <4>2 DEF HonouredOnce, Expired
      <4>3. QED
        BY <4>1, <4>2
    <3>2. QED
      BY <3>1 DEF HonouredOnce, Expired
  <2>7. ASSUME NEW k \in DOMAIN honoured'
        PROVE  /\ honoured'[k] \in Seq(Nat)
               /\ \/ /\ k \in DOMAIN jtiCache'
                     /\ \E request \in Requests : HasToken(request, k, jtiCache'[k])
                  \/ Expired(k, now)
    <3>1. CASE k = jti
      <4>1. honoured'[jti] \in Seq(Nat)
        BY <2>1, <2>3, <2>4
      <4>2. QED
        BY <2>2, <2>4, <3>1, <4>1
    <3>2. CASE k # jti
      BY <2>4, <2>7, <3>2 DEF CacheInv
    <3>3. QED
      BY <3>1, <3>2
  <2>8. CacheInv'
    BY <2>1, <2>7 DEF CacheInv, Expired, HasToken
  <2>9. QED
    BY <2>6, <2>8
<1>3. QED
  BY <1>1, <1>2 DEF CheckReplay

(* The cleanup drops only tokens that have expired.                        *)
LEMMA CleanupKeeps ==
    ASSUME CacheInv, runJTICleanup
    PROVE  CacheInv'
<1> DEFINE kept == {jti \in DOMAIN jtiCache : now < jtiCache[jti]}
<1>1. jtiCache' = [jti \in kept |-> jtiCache[jti]] /\ now' = now /\ honoured' = honoured
  BY DEF runJTICleanup, Keep, NoReply
<1>2. ASSUME NEW jti \in DOMAIN honoured
      PROVE  \/ /\ jti \in DOMAIN jtiCache'
                /\ \E request \in Requests : HasToken(request, jti, jtiCache'[jti])
             \/ Expired(jti, now)
  <2>1. CASE Expired(jti, now)
    BY <2>1
  <2>2. ASSUME jti \in DOMAIN jtiCache, NEW request \in Requests,
               HasToken(request, jti, jtiCache[jti])
        PROVE  \/ /\ jti \in DOMAIN jtiCache'
                  /\ \E any \in Requests : HasToken(any, jti, jtiCache'[jti])
               \/ Expired(jti, now)
    <3>1. CASE now < jtiCache[jti]
      <4>1. jti \in DOMAIN jtiCache' /\ jtiCache'[jti] = jtiCache[jti]
        BY <1>1, <2>2, <3>1
      <4>2. QED
        BY <2>2, <4>1
    <3>2. CASE ~(now < jtiCache[jti])
      <4>1. jtiCache[jti] = request.attestation.exp /\ request.attestation.exp \in Nat
        BY <2>2, SecretsAssumption DEF HasToken
      <4>2. QED
        BY <2>2, <3>2, <4>1 DEF Expired, HasToken, CacheInv
    <3>3. QED
      BY <3>1, <3>2
  <2>3. QED
    BY <1>2, <2>1, <2>2 DEF CacheInv
<1>3. QED
  BY <1>1, <1>2 DEF CacheInv, Expired, HasToken

(* However handlers interleave with each other and with the cleanup, a     *)
(* token is accepted twice in a lifetime of the server only at or after    *)
(* its expiry.                                                             *)
THEOREM TokensHonouredOnce == Spec => []HonouredOnce
<1> DEFINE Inv == ChainInv /\ HandlersInv /\ CacheInv /\ HonouredOnce
<1>1. Init => Inv
  <2>1. Init => honoured = <<>> /\ now = 0
    BY DEF Init
  <2>2. QED
    BY <2>1, HandlersStart DEF CacheInv, HonouredOnce
<1>2. Inv /\ [Next]_vars => Inv'
  <2> SUFFICES ASSUME Inv, [Next]_vars PROVE Inv'
    OBVIOUS
  <2>1. ChainInv' /\ HandlersInv'
    BY HandlersStep
  <2>2. CacheInv' /\ HonouredOnce'
    <3>1. CASE UNCHANGED <<now, jtiCache, honoured>>
      BY <3>1 DEF CacheInv, HonouredOnce, Expired, HasToken
    <3>2. CASE \E s \in Slots : CheckReplay(s)
      BY <3>2, AcceptKeeps
    <3>3. CASE runJTICleanup
      <4>1. honoured' = honoured
        BY <3>3 DEF runJTICleanup, NoReply
      <4>2. QED
        BY <3>3, <4>1, CleanupKeeps DEF HonouredOnce
    <3>4. CASE Tick
      <4>1. now' = now + 1 /\ honoured' = honoured /\ jtiCache' = jtiCache
        BY <3>4 DEF Tick, NoReply
      <4>2. \A jti : Expired(jti, now) => Expired(jti, now')
        BY <4>1, SecretsAssumption DEF Expired, CacheInv
      <4>3. QED
        BY <4>1, <4>2 DEF CacheInv, HonouredOnce, HasToken
    <3>5. CASE Restart
      <4>1. honoured' = <<>> /\ now' = now
        BY <3>5 DEF Restart
      <4>2. QED
        BY <4>1 DEF CacheInv, HonouredOnce
    <3>6. QED
      BY <3>1, <3>2, <3>3, <3>4, <3>5, TokenSteps
  <2>3. QED
    BY <2>1, <2>2
<1>3. QED
  BY <1>1, <1>2, PTL DEF Spec
=============================================================================

------------------------------ MODULE Secrets ------------------------------
(***************************************************************************)
(* The /secrets endpoint of one operator: concurrent handlers over one     *)
(* token cache and one key store, while the application's releases, the    *)
(* platform's deployments and the key versions change under them.          *)
(*                                                                         *)
(* A handler verifies the evidence, records the token, reads the release   *)
(* in two calls, authorizes and answers. What it read before a call it     *)
(* still uses after it. Logs "not in the code" are for the properties.     *)
(***************************************************************************)
EXTENDS Attestation, FiniteSets

CONSTANTS
    Slots,            \* the semaphore of concurrencyLimit: 1..n
    Requests,         \* the requests that arrive
    Releases,         \* what developers publish
    Deployments,      \* sets of digests the platform deploys
    AppAllowlist,     \* applications served; empty: all
    Creator,          \* the application's creator, on chain
    jwks,             \* the vendors' token keys
    maxJTICacheSize,
    MaxTime, MaxRequests, MaxChanges, MaxVersion, MaxFaults

ASSUME SecretsAssumption ==
    /\ maxJTICacheSize \in Nat \ {0} /\ MaxVersion > 1
    /\ {MaxTime, MaxRequests, MaxChanges, MaxVersion, MaxFaults} \subseteq Nat
    /\ \A request \in Requests :
          request.attestation.type = "jwt" => request.attestation.exp \in Nat

VARIABLES
    now,
    jtiCache,     \* jti -> expiry
    handlers,     \* slot -> the request it serves
    events,       \* AppUpgraded events of the application, in log order
    confirmed,    \* block of the latest confirmed release, or 0
    platform,     \* digests of the stack's deployed release
    keyVersions, poisoned, active,
    arrived,
    faults,       \* failed calls and restarts
    changes,      \* of the chain, the platform and the key store
    honoured,     \* jti -> when it was accepted, this lifetime (not in the code)
    reply,        \* the answer of this step (not in the code)
    pinned        \* time -> the version last given for it (not in the code)

chain == <<events, confirmed, platform>>
keyStore == <<keyVersions, poisoned, active>>
bounds == <<arrived, faults, changes>>
logs == <<honoured, reply, pinned>>
vars == <<now, jtiCache, handlers, chain, keyStore, bounds, logs>>

NoReply == reply' = <<>> /\ UNCHANGED <<honoured, pinned>>
Change == changes < MaxChanges /\ changes' = changes + 1 /\ NoReply
          /\ UNCHANGED <<now, jtiCache, arrived, faults>>

Idle == [phase |-> "idle"]
NoEnv == "no env"
NoRelease == [digest |-> "", registry |-> "", env |-> NoEnv, policy |-> NoPolicy, artifacts |-> 0]
(* Where a handler is, with all it has read: the request, the claims of    *)
(* its evidence, then a block number and a release.                        *)
Handler(phase, request, claims, entitled, block, release) ==
    [phase |-> phase, request |-> request, claims |-> claims, entitled |-> entitled,
     block |-> block, release |-> release]
To(h, phase) == Handler(phase, h.request, h.claims, h.entitled, h.block, h.release)
Authorize(h, release) ==
    Handler("authorized", h.request, h.claims, h.entitled, h.block, release)

(* A map with one entry added or replaced.                                 *)
With(map, key, value) ==
    [k \in DOMAIN map \cup {key} |-> IF k = key THEN value ELSE map[k]]

Init ==
    /\ now = 0 /\ jtiCache = <<>>
    /\ handlers = [s \in Slots |-> Idle]
    /\ \/ events = <<>> /\ confirmed = 0
       \/ /\ \E first, second \in Releases :
                /\ first # second
                /\ events = <<[block |-> 1, release |-> first], [block |-> 1, release |-> second]>>
          /\ confirmed = 1
    /\ platform = {}
    /\ keyVersions = <<MaxVersion - 1, MaxVersion>> /\ active = MaxVersion /\ poisoned = {}
    /\ arrived = 0 /\ faults = 0 /\ changes = 0
    /\ honoured = <<>> /\ reply = <<>> /\ pinned = [t \in 1..MaxVersion |-> 0]

Step(s, handler) == handlers' = [handlers EXCEPT ![s] = handler]
Refuse(s) == Step(s, Idle)

-----------------------------------------------------------------------------
(* The application's releases on the AppController, and the platform's.    *)

(* The events of the confirmed block; the last of them is the release.     *)
OfBlock(block) == {i \in DOMAIN events : events[i].block = block}

resolveLatestRelease(block) ==
    IF OfBlock(block) = {} THEN NoRelease ELSE events[Max(OfBlock(block))].release

(* What an image may be served now: the confirmed release's environment,   *)
(* or a share alone when the platform deploys it (not in the code).        *)
EntitledAt(block, deployed) ==
    {[digest |-> events[i].release.digest, env |-> events[i].release.env] :
        i \in {j \in DOMAIN events :
                 events[j].block = block
                 /\ \A k \in DOMAIN events : events[k].block = block => k <= j}}
    \cup {[digest |-> d, env |-> NoEnv] : d \in deployed}

Witness(block, deployed) ==
    handlers' = [s \in Slots |->
        LET h == handlers[s]
        IN  IF h = Idle THEN Idle
            ELSE Handler(h.phase, h.request, h.claims,
                         h.entitled \cup EntitledAt(block, deployed), h.block, h.release)]

Publish(release, sameBlock) ==
    LET last == IF events = <<>> THEN 0 ELSE Last(events).block
    IN  /\ Change
        /\ sameBlock => last > confirmed
        /\ events' = Append(events, [block |-> IF sameBlock THEN last ELSE last + 1,
                                     release |-> release])
        /\ UNCHANGED <<handlers, confirmed, platform, keyStore>>

Confirm ==
    /\ Change
    /\ events # <<>> /\ Last(events).block > confirmed
    /\ confirmed' = Last(events).block
    /\ Witness(confirmed', platform)
    /\ UNCHANGED <<events, platform, keyStore>>

Deploy(digests) ==
    /\ Change
    /\ digests # platform
    /\ platform' = digests
    /\ Witness(confirmed, digests)
    /\ UNCHANGED <<events, confirmed, keyStore>>

-----------------------------------------------------------------------------
(* The key store, as rounds and auto-heal change it under the handlers.    *)

AddVersion(v) ==
    /\ Change
    /\ v \notin Range(keyVersions)
    /\ keyVersions' = Append(keyVersions, v) /\ active' = v
    /\ UNCHANGED <<handlers, chain, poisoned>>

MarkPoisoned ==
    /\ Change
    /\ active # 0 /\ active \notin poisoned
    /\ poisoned' = poisoned \cup {active}
    /\ UNCHANGED <<handlers, chain, keyVersions, active>>

SetActiveVersionByTimestamp(v) ==
    /\ Change
    /\ active \in poisoned /\ v < active
    /\ v \in Range(keyVersions) \ poisoned
    /\ active' = v
    /\ UNCHANGED <<handlers, chain, keyVersions, poisoned>>

LastAdded(time) ==
    LET fit == SelectSeq(keyVersions, LAMBDA v : v \notin poisoned /\ v <= time)
    IN  IF fit = <<>> THEN 0 ELSE Last(fit)

(* The newest version no newer than the time, poisoned ones skipped.       *)
GetKeyVersionAtTime(time) ==
    LET fit == {v \in Range(keyVersions) \ poisoned : v <= time}
    IN  IF fit = {} THEN 0 ELSE CHOOSE v \in fit : \A w \in fit : w <= v

-----------------------------------------------------------------------------
(* The token cache.                                                        *)

checkAndStoreJTI(jti) == jti \notin DOMAIN jtiCache /\ Cardinality(DOMAIN jtiCache) < maxJTICacheSize

Keep(jtis) == jtiCache' = [jti \in jtis |-> jtiCache[jti]]

CleanupEarly ==
    /\ \E jti \in DOMAIN jtiCache : now + 1 >= jtiCache[jti]
    /\ Keep({jti \in DOMAIN jtiCache : now + 1 < jtiCache[jti]})
    /\ NoReply /\ UNCHANGED <<now, handlers, chain, keyStore, bounds>>

CleanupBelowLimit ==
    /\ \E jti \in DOMAIN jtiCache : now >= jtiCache[jti]
    /\ Cardinality(DOMAIN jtiCache) < maxJTICacheSize
    /\ Keep({jti \in DOMAIN jtiCache : now < jtiCache[jti]})
    /\ NoReply /\ UNCHANGED <<now, handlers, chain, keyStore, bounds>>

(* The background goroutine's tick.                                        *)
runJTICleanup ==
    /\ \E jti \in DOMAIN jtiCache : now >= jtiCache[jti]
    /\ Keep({jti \in DOMAIN jtiCache : now < jtiCache[jti]})
    /\ NoReply /\ UNCHANGED <<now, handlers, chain, keyStore, bounds>>

-----------------------------------------------------------------------------
(* One request, from its arrival to its answer.                            *)

(* A request over the semaphore's limit gets 503 and changes nothing; so   *)
(* does one refused by these checks, which end before any shared state.    *)
Admit(s, request) ==
    LET claims == VerifyWithMethod(request, jwks, now)
    IN  /\ arrived < MaxRequests
        /\ handlers[s] = Idle /\ \A t \in 1..(s - 1) : handlers[t] # Idle
        /\ request.app # "" /\ request.rsaKey # "" /\ request.method # ""
        /\ AppAllowlist = {} \/ request.app \in AppAllowlist
        /\ ~IsRefused(claims) /\ claims.app = request.app
        /\ Step(s, Handler("verified", request, claims, EntitledAt(confirmed, platform),
                           0, NoRelease))
        /\ arrived' = arrived + 1
        /\ NoReply /\ UNCHANGED <<now, jtiCache, chain, keyStore, faults, changes>>

(* Methods whose claims carry no token identifier skip the cache.          *)
CheckReplay(s) ==
    LET h == handlers[s]  jti == h.claims.jti
        times == IF jti \in DOMAIN honoured THEN honoured[jti] ELSE <<>>
    IN  /\ h.phase = "verified"
        /\ \/ /\ jti = "" /\ Step(s, To(h, "fresh"))
              /\ UNCHANGED <<jtiCache, honoured>>
           \/ /\ jti # "" /\ checkAndStoreJTI(jti)
              /\ jtiCache' = With(jtiCache, jti, h.claims.exp)
              /\ honoured' = With(honoured, jti, Append(times, now))
              /\ Step(s, To(h, "fresh"))
           \/ /\ jti # "" /\ ~checkAndStoreJTI(jti) /\ Refuse(s)
              /\ UNCHANGED <<jtiCache, honoured>>
        /\ reply' = <<>>
        /\ UNCHANGED <<now, chain, keyStore, bounds, pinned>>

(* The digests of the release the platform has deployed for the stack.     *)
GetLatestDeployedRelease == platform

(* The stack's path: one call to the platform, and no environment.         *)
authorizeViaPlatform(s) ==
    LET h == handlers[s]
        allowed == /\ h.request.method # "ecdsa"
                   /\ h.claims.digest # Unverified /\ h.claims.digest \in GetLatestDeployedRelease
    IN  /\ h.phase = "fresh" /\ h.request.stack # ""
        /\ IF allowed THEN Step(s, Authorize(h, NoRelease)) ELSE Refuse(s)
        /\ NoReply /\ UNCHANGED <<now, jtiCache, chain, keyStore, bounds>>

verifyECDSAOwnership(h) == h.request.method = "ecdsa" => h.claims.publicKey = Creator

(* First the number of the confirmed block, then its events.               *)
GetAppLatestReleaseBlockNumber(s) ==
    LET h == handlers[s]
    IN  /\ h.phase = "fresh" /\ h.request.stack = ""
        /\ IF verifyECDSAOwnership(h)
           THEN Step(s, Handler("located", h.request, h.claims, h.entitled, confirmed, NoRelease))
           ELSE Refuse(s)
        /\ NoReply /\ UNCHANGED <<now, jtiCache, chain, keyStore, bounds>>

(* Empty fields of the policy pin nothing.                                 *)
hasContainerPolicy(policy) == policy # NoPolicy

validateContainerPolicy(claimed, policy) ==
    \A field \in DOMAIN policy : field \in DOMAIN claimed /\ claimed[field] = policy[field]

Authorized(h, release) ==
    /\ release.artifacts = 1
    /\ h.claims.digest = release.digest
    /\ (h.claims.registry # "" /\ release.registry # "") => h.claims.registry = release.registry
    /\ h.request.method = "eigenx-snp" => ~hasContainerPolicy(release.policy)
    /\ validateContainerPolicy(h.claims.policy, release.policy)

(* The creator's own method needs no release, and takes the environment    *)
(* of one that has exactly one artifact.                                   *)
GetLatestReleaseAsRelease(s) ==
    LET h == handlers[s]  release == resolveLatestRelease(h.block)
    IN  /\ h.phase = "located"
        /\ \/ /\ h.request.method = "ecdsa"
              /\ Step(s, Authorize(h, IF release.artifacts = 1 THEN release ELSE NoRelease))
           \/ /\ h.request.method # "ecdsa" /\ Authorized(h, release)
              /\ Step(s, Authorize(h, release))
           \/ /\ h.request.method # "ecdsa" /\ ~Authorized(h, release) /\ Refuse(s)
        /\ NoReply /\ UNCHANGED <<now, jtiCache, chain, keyStore, bounds>>

(* A call to the chain or the platform fails: 404, 502 or 503, except that *)
(* the creator's method goes on without a release.                         *)
CallFails(s) ==
    LET h == handlers[s]
    IN  /\ h.phase \in {"fresh", "located"} /\ faults < MaxFaults
        /\ faults' = faults + 1
        /\ IF h.phase = "located" /\ h.request.method = "ecdsa"
           THEN Step(s, Authorize(h, NoRelease))
           ELSE Refuse(s)
        /\ NoReply /\ UNCHANGED <<now, jtiCache, chain, keyStore, arrived, changes>>

ConfirmedEnv(h) == IF h.request.stack = "" THEN resolveLatestRelease(confirmed).env ELSE NoEnv

(* The environment of the release that authorized the request.             *)
ReleaseEnv(h) == h.release.env

(* The version is picked, the application signed and the signature         *)
(* encrypted to the request's key; no version, no answer.                  *)
Respond(s) ==
    LET h == handlers[s]
        version == IF h.request.time > 0 THEN GetKeyVersionAtTime(h.request.time) ELSE active
    IN  /\ h.phase = "authorized"
        /\ Refuse(s)
        /\ \/ /\ version = 0 /\ reply' = <<>> /\ UNCHANGED pinned
           \/ /\ version # 0
              /\ reply' = [request |-> h.request, key |-> h.request.rsaKey,
                           env |-> ReleaseEnv(h), entitled |-> h.entitled]
              /\ pinned' = IF h.request.time > 0
                           THEN [pinned EXCEPT ![h.request.time] = version] ELSE pinned
        /\ UNCHANGED <<now, jtiCache, chain, keyStore, bounds, honoured>>

-----------------------------------------------------------------------------
(* Time, and a restart, which loses the cache and the handlers.            *)

Tick ==
    /\ now < MaxTime
    /\ now' = now + 1
    /\ NoReply /\ UNCHANGED <<jtiCache, handlers, chain, keyStore, bounds>>

Restart ==
    /\ faults < MaxFaults
    /\ faults' = faults + 1
    /\ jtiCache' = <<>> /\ handlers' = [s \in Slots |-> Idle] /\ honoured' = <<>>
    /\ reply' = <<>>
    /\ UNCHANGED <<now, chain, keyStore, arrived, changes, pinned>>

Next ==
    \/ \E release \in Releases, sameBlock \in BOOLEAN : Publish(release, sameBlock)
    \/ Confirm
    \/ \E digests \in Deployments : Deploy(digests)
    \/ \E v \in 1..MaxVersion : AddVersion(v)
    \/ MarkPoisoned
    \/ \E v \in 1..MaxVersion : SetActiveVersionByTimestamp(v)
    \/ \E s \in Slots, request \in Requests : Admit(s, request)
    \/ \E s \in Slots : CheckReplay(s)
    \/ \E s \in Slots : authorizeViaPlatform(s)
    \/ \E s \in Slots : GetAppLatestReleaseBlockNumber(s)
    \/ \E s \in Slots : GetLatestReleaseAsRelease(s)
    \/ \E s \in Slots : CallFails(s)
    \/ \E s \in Slots : Respond(s)
    \/ runJTICleanup
    \/ Tick
    \/ Restart

(* The cleanup goroutine's ticker fires for as long as the server runs.    *)
Spec == Init /\ [][Next]_vars /\ WF_vars(Tick) /\ WF_vars(runJTICleanup)

-----------------------------------------------------------------------------
(* A token is accepted once in a lifetime of the server, however its       *)
(* handlers interleave with each other and with the cleanup. A second      *)
(* acceptance can only fall at or after its expiry: that of a handler that *)
(* verified it in time and reached the cache after the purge.              *)
HonouredOnce ==
    \A jti \in DOMAIN honoured : \A i \in 2..Len(honoured[jti]) :
        \E request \in Requests :
            /\ request.attestation.type = "jwt" /\ request.attestation.jti = jti
            /\ honoured[jti][i] >= request.attestation.exp

(* The digest and the key that evidence vouches for, whatever the method.  *)
EvidenceDigest(request) ==
    IF request.attestation.type = "snp" THEN parseInitDataPolicy(request.ccInitData)[1].digest
    ELSE request.attestation.digest
EvidenceKey(request) ==
    CASE request.attestation.type = "jwt" -> request.attestation.eatNonce[1][1]
      [] request.attestation.type = "tpm" -> request.attestation.challenge[2]
      [] request.attestation.type = "snp" -> request.attestation.reportData[1]

(* An answer to a TEE is encrypted to the key its evidence names, and its  *)
(* environment belongs to one release: the one that pins the attested      *)
(* image and was the confirmed (or deployed) one at some moment of the     *)
(* request, though releases were published and confirmed between its reads.*)
ServedToTheAttestedImage ==
    reply # <<>> /\ reply.request.method # "ecdsa" =>
        /\ reply.key = EvidenceKey(reply.request)
        /\ [digest |-> EvidenceDigest(reply.request), env |-> reply.env] \in reply.entitled

(* The version given for a past time only ever moves forward, in whatever  *)
(* order versions were added, unless the version given was poisoned.       *)
TimedAnswersNeverGoBack ==
    [][\A t \in 1..MaxVersion :
          pinned[t] # 0 => pinned'[t] >= pinned[t] \/ pinned[t] \in poisoned']_vars

(* A full token cache, which refuses every new token, does not stay full.  *)
CacheDrains ==
    (Cardinality(DOMAIN jtiCache) = maxJTICacheSize) ~> (Cardinality(DOMAIN jtiCache) < maxJTICacheSize)
=============================================================================

----------------------------- MODULE CDHHelper -----------------------------
(***************************************************************************)
(* cmd/kmsCDHHelper: the processes that one pod's sealed variables spawn,  *)
(* each for one key, over a cache file on tmpfs, while the platform's      *)
(* secrets change. A process resolves its identity from the pod's bound    *)
(* init data, reads the cache, and on a miss attests, finds the operators  *)
(* on chain, recovers the stack's key from them, fetches and decrypts all  *)
(* secrets, stores them and emits one value. Any process may be killed; a  *)
(* reboot empties tmpfs.                                                   *)
(***************************************************************************)
EXTENDS Attestation

CONSTANTS
    Helpers,          \* processes that may run at one time
    Requests,
    InitDatas,        \* what /run/peerpod/initdata may hold at a boot
    Reports,          \* what the attestation agent may answer
    Snapshots,        \* the platform's sealed secrets, in the order they change
    appPrivateKeyKey, AllowSingleOperatorKMS,
    KeyOf(_), WrongKey, \* the stack's private key; what else recovery may give
    MaxFaults,        \* failures and kills in one boot
    None

ASSUME HelperAssumption ==
    /\ MaxFaults \in Nat /\ AllowSingleOperatorKMS \in BOOLEAN
    /\ Snapshots # <<>> /\ None \notin Helpers

VARIABLES
    initData,   \* the pod's, for this boot
    current,    \* the platform's secrets: an index of Snapshots
    final,      \* stack -> the cache file
    lock,       \* who holds the lock file
    helper,     \* each process
    faults,     \* of this boot
    seen        \* snapshots current at some moment of this boot (not in the code;
                \*   nor are a process's "late", the cache was there when it started,
                \*   and "via", what its key was checked against, once it has ended)

vars == <<initData, current, final, lock, helper, faults, seen>>

Idle == [phase |-> "idle"]
Ended == {"done", "failed", "killed"}
Running(p) == helper[p].phase \notin Ended \cup {"idle"}

Init ==
    /\ initData \in InitDatas
    /\ current = 1 /\ seen = {1}
    /\ final = <<>> /\ lock = None
    /\ helper = [p \in Helpers |-> Idle]
    /\ faults = 0

Becomes(p, state) == helper' = [helper EXCEPT ![p] = state]
(* A process at work: where it is, what it is asked for, and what it has   *)
(* obtained so far.                                                        *)
Job(phase, key, stack, late, evidence, secret, via, env) ==
    [phase |-> phase, key |-> key, stack |-> stack, late |-> late, evidence |-> evidence,
     secret |-> secret, via |-> via, env |-> env]
To(p, phase) ==
    LET h == helper[p]
    IN  Becomes(p, Job(phase, h.key, h.stack, h.late, h.evidence, h.secret, h.via, h.env))
Resolved(p, env) ==
    LET h == helper[p]
    IN  Becomes(p, Job("store", h.key, h.stack, h.late, h.evidence, h.secret, h.via, env))
Fail(p, why) == Becomes(p, [phase |-> "failed", why |-> why])
Fault == faults < MaxFaults /\ faults' = faults + 1

-----------------------------------------------------------------------------
(* The request and the identity it is served under.                        *)

validateHTTPURL(url) == url \in {"http", "https"}
validateStackID(stack) == stack \notin {"", ".", "..", "a/b"}

(* What init data of the right size and encoding says, if it says it.      *)
parseInitdataKMSConfig(data) ==
    IF data.wire \in {"toml", "gzip"} /\ ~data.oversized THEN data.config ELSE None

applyInitdataKMSConfig(config) ==
    /\ config # None
    /\ config.kmsURL # "" \/ config.rpcURL # ""
    /\ config.avs # ""
    /\ \A url \in {config.kmsURL, config.rpcURL} \ {""} : validateHTTPURL(url)
    /\ config.kmsURL # "" => AllowSingleOperatorKMS
    /\ validateStackID(config.stack)
    /\ validateHTTPURL(config.platformURL) /\ config.apiKey # ""

readRequest(request) == request.stack # "" /\ request.key # ""

StackOfRequest(request, config) == request.stack

(* The bound stack wins over the one of the request.                       *)
BoundStack(request, config) == config.stack

Start(p, request) ==
    LET config == parseInitdataKMSConfig(initData)
    IN  /\ ~Running(p)
        /\ IF readRequest(request) /\ applyInitdataKMSConfig(config)
           THEN Becomes(p, Job("lookup", request.key, BoundStack(request, config),
                               DOMAIN final # {}, None, None, None, None))
           ELSE Fail(p, "request")
        /\ UNCHANGED <<initData, current, final, lock, faults, seen>>

-----------------------------------------------------------------------------
(* The cache. Only the root key is kept out of it.                         *)

cacheable(key) == key # appPrivateKeyKey

emitKey(p, env) ==
    IF helper[p].key \in DOMAIN env
    THEN Becomes(p, [phase |-> "done", key |-> helper[p].key, via |-> helper[p].via,
                     out |-> env[helper[p].key]])
    ELSE Fail(p, "no such key")

(* A file as a rename puts it there; one cut short would not decode.       *)
Whole(env) == [whole |-> TRUE, env |-> env]
Torn == [whole |-> FALSE, env |-> <<>>]

AlwaysMiss(p) ==
    /\ helper[p].phase = "lookup" /\ To(p, "attest")
    /\ UNCHANGED <<initData, current, final, lock, faults, seen>>

Cached(stack) == stack \in DOMAIN final /\ final[stack].whole

(* A file that is not there or does not decode is a miss.                  *)
loadCachedEnv(p) ==
    LET h == helper[p]
    IN  /\ h.phase = "lookup"
        /\ IF cacheable(h.key) /\ Cached(h.stack)
           THEN emitKey(p, final[h.stack].env)
           ELSE To(p, "attest")
        /\ UNCHANGED <<initData, current, final, lock, faults, seen>>

-----------------------------------------------------------------------------
(* Evidence for a fresh key.                                               *)

generateRSAKeypair(p) == <<"rsa", p>>

WithoutInitData(rsaKey, extra, data) == <<rsaKey, extra, None>>
buildReportData(rsaKey, extra, data) == <<rsaKey, extra, data>>

(* Milan and Genoa: four bytes of eight. Later hosts also have an fmc.     *)
packLegacyTcb(tcb) == <<tcb.bootloader, tcb.tee, 0, 0, 0, 0, tcb.snp, tcb.microcode>>

aaReportToProto(report) == report.tcb.fmc = None /\ report.wellFormed

presentCerts(report) == SelectSeq(report.certs, LAMBDA c : c.role # "")

(* The agent's JSON back to the bytes AMD signed. They still verify only   *)
(* if every field is where it was; empty certificates are dropped.         *)
transformAAEvidence(report, reportData) ==
    [type |-> "snp", certs |-> presentCerts(report),
     genuine |-> report.genuine /\ packLegacyTcb(report.tcb) = report.wireTcb,
     measurement |-> report.measurement, debug |-> report.debug,
     migrateMA |-> report.migrateMA, vmpl |-> report.vmpl, reportData |-> reportData]

fetchAAEvidence(p, answer) ==
    LET h == helper[p]
        reportData == buildReportData(generateRSAKeypair(p), "", initData)
    IN  /\ h.phase = "attest"
        /\ IF aaReportToProto(answer)
           THEN Becomes(p, Job("discover", h.key, h.stack, h.late,
                               transformAAEvidence(answer, reportData), None, None, None))
           ELSE Fail(p, "report")
        /\ UNCHANGED <<initData, current, final, lock, faults, seen>>

-----------------------------------------------------------------------------
(* The stack's key from the operators, then its secrets.                   *)

(* The operators' addresses and URLs, from several calls to the chain that *)
(* carry no deadline: an endpoint that never answers is waited for.        *)
GetOperators(p) ==
    /\ helper[p].phase = "discover" /\ To(p, "retrieve")
    /\ UNCHANGED <<initData, current, final, lock, faults, seen>>

createEigenXSNPAttestationRequest(p) ==
    [app |-> helper[p].stack, method |-> "eigenx-snp", attestation |-> helper[p].evidence,
     rsaKey |-> generateRSAKeypair(p), extra |-> "", ccInitData |-> initData]

(* Every operator checks the evidence the same way. The key that comes back *)
(* was checked against a public key that a threshold of operators voted    *)
(* for ("vote"), and is then the stack's (CheckedKeyIsTrue of KMSClient);  *)
(* or against the sum of the commitments that too few answers left         *)
(* ("sum"); or against nothing ("error"). One operator can make the sum    *)
(* agree with a wrong key.                                                 *)
RetrieveSecrets(p, key, via) ==
    LET h == helper[p]
    IN  /\ h.phase = "retrieve"
        /\ via = "vote" => key = KeyOf(h.stack)
        /\ IF IsRefused(SNPVerify(createEigenXSNPAttestationRequest(p)))
           THEN Fail(p, "refused")
           ELSE Becomes(p, Job("recovered", h.key, h.stack, h.late, None, key, via, None))
        /\ UNCHANGED <<initData, current, final, lock, faults, seen>>

(* The client's Verified: some public key was checked against, also the    *)
(* summed one.                                                             *)
Verified(h) == h.via # "error"

RootEnv(key) == [name \in {appPrivateKeyKey} |-> key]

EmitAnyKey(p) == Resolved(p, RootEnv(helper[p].secret))

emitAppPrivateKey(p) ==
    IF Verified(helper[p]) THEN Resolved(p, RootEnv(helper[p].secret))
    ELSE Fail(p, "unverified")

(* One ciphertext that does not open is an error, not an empty value.      *)
DecryptForApp(stack, key, sealed) == sealed.to = stack /\ key = KeyOf(stack)

(* The platform's sealed secrets of the stack, all in one answer.          *)
fetchStackSecrets == Snapshots[current]

assembleEnvFromSecrets(p) ==
    LET h == helper[p]  secrets == fetchStackSecrets
    IN  IF \A name \in DOMAIN secrets : DecryptForApp(h.stack, h.secret, secrets[name])
        THEN Resolved(p, [name \in DOMAIN secrets |-> secrets[name].value])
        ELSE Fail(p, "sealed")

resolveEnv(p) ==
    /\ helper[p].phase = "recovered"
    /\ IF helper[p].key = appPrivateKeyKey
       THEN emitAppPrivateKey(p) ELSE assembleEnvFromSecrets(p)
    /\ UNCHANGED <<initData, current, final, lock, faults, seen>>

-----------------------------------------------------------------------------
(* storeCachedEnv, skipped for a key that is not cacheable.                *)

(* A map with one entry added or replaced.                                 *)
With(map, key, value) ==
    [k \in DOMAIN map \cup {key} |-> IF k = key THEN value ELSE map[k]]

LockLeft(p) == UNCHANGED lock

(* The kernel drops a process's lock when it unlocks or ends.              *)
Unlocks(p) == lock' = IF lock = p THEN None ELSE lock

LockCache(p) ==
    /\ helper[p].phase = "store" /\ cacheable(helper[p].key)
    /\ lock = None /\ lock' = p
    /\ To(p, "write")
    /\ UNCHANGED <<initData, current, final, faults, seen>>

WriteInPlace(p) ==
    /\ helper[p].phase = "write"
    /\ final' = With(final, helper[p].stack, Torn)
    /\ To(p, "rename")
    /\ UNCHANGED <<initData, current, lock, faults, seen>>

WriteTemp(p) ==
    /\ helper[p].phase = "write"
    /\ To(p, "rename")
    /\ UNCHANGED <<initData, current, final, lock, faults, seen>>

RenameTemp(p) ==
    /\ helper[p].phase = "rename"
    /\ final' = With(final, helper[p].stack, Whole(helper[p].env))
    /\ Unlocks(p)
    /\ To(p, "emit")
    /\ UNCHANGED <<initData, current, faults, seen>>

(* A store that fails is logged, and the value emitted all the same.       *)
StoreFails(p) ==
    /\ Fault
    /\ helper[p].phase \in {"store", "write", "rename"} /\ cacheable(helper[p].key)
    /\ Unlocks(p)
    /\ To(p, "emit")
    /\ UNCHANGED <<initData, current, final, seen>>

Emit(p) ==
    /\ \/ helper[p].phase = "emit"
       \/ helper[p].phase = "store" /\ ~cacheable(helper[p].key)
    /\ emitKey(p, helper[p].env)
    /\ UNCHANGED <<initData, current, final, lock, faults, seen>>

-----------------------------------------------------------------------------
(* Calls that fail or time out, kills, reboots, and the platform.          *)

(* A file or a lock that cannot be read, no entropy, no answer of the      *)
(* attestation agent, the chain, the operators or the platform.            *)
CallFails(p) ==
    /\ Fault
    /\ helper[p].phase \in {"lookup", "attest", "discover", "retrieve", "recovered"}
    /\ Fail(p, "call")
    /\ UNCHANGED <<initData, current, final, lock, seen>>

(* A killed process may leave a temporary file, which nobody reads.        *)
Kill(p) ==
    /\ Fault
    /\ Running(p) /\ Becomes(p, [phase |-> "killed"])
    /\ Unlocks(p)
    /\ UNCHANGED <<initData, current, final, seen>>

Reboot ==
    /\ initData' \in InitDatas
    /\ final' = <<>> /\ lock' = None
    /\ helper' = [p \in Helpers |-> Idle]
    /\ seen' = {current} /\ faults' = 0
    /\ UNCHANGED current

UpdateSecrets ==
    /\ current < Len(Snapshots)
    /\ current' = current + 1 /\ seen' = seen \cup {current'}
    /\ UNCHANGED <<initData, final, lock, helper, faults>>

Step(p) ==
    \/ loadCachedEnv(p)
    \/ \E answer \in Reports : fetchAAEvidence(p, answer)
    \/ \E key \in {KeyOf(helper[p].stack), WrongKey}, via \in {"vote", "sum", "error"} :
          RetrieveSecrets(p, key, via)
    \/ resolveEnv(p)
    \/ LockCache(p)
    \/ WriteTemp(p)
    \/ RenameTemp(p)
    \/ Emit(p)

Next ==
    \/ \E p \in Helpers, request \in Requests : Start(p, request)
    \/ \E p \in Helpers : Running(p) /\ (Step(p) \/ GetOperators(p))
    \/ \E p \in Helpers : Running(p) /\ (StoreFails(p) \/ CallFails(p) \/ Kill(p))
    \/ Reboot
    \/ UpdateSecrets

(* Each process runs, its calls to the agent, the operators and the        *)
(* platform have timeouts, and the kernel grants the lock to a waiter. The *)
(* calls to the chain have none, so GetOperators need never return.        *)
Fairness == \A p \in Helpers : WF_vars(Running(p) /\ Step(p)) /\ SF_vars(LockCache(p))

Spec == Init /\ [][Next]_vars /\ Fairness

-----------------------------------------------------------------------------
Opened(n) == [name \in DOMAIN Snapshots[n] |-> Snapshots[n][name].value]

(* What a process emits is true: the value its name has in secrets that    *)
(* were the platform's during this boot and that were sealed to the pod's  *)
(* bound stack. The root key is never emitted unchecked (emitAppPrivateKey)*)
(* and is the bound stack's when it was checked against a voted public     *)
(* key; checked against a sum, it may be wrong and is emitted all the same.*)
EmittedIsTrue ==
    \A p \in Helpers : helper[p].phase = "done" =>
        LET h == helper[p]
        IN  IF h.key = appPrivateKeyKey
            THEN h.via # "error" /\ (h.via = "vote" => h.out = KeyOf(initData.config.stack))
            ELSE \E n \in seen : h.key \in DOMAIN Snapshots[n]
                                 /\ Snapshots[n][h.key].to = initData.config.stack
                                 /\ Snapshots[n][h.key].value = h.out

(* The cache file holds all secrets of one moment of this boot, never part *)
(* of them, never the root key, and never a file cut short, whoever is     *)
(* killed while writing (storeCachedEnv).                                  *)
CacheIsOneSnapshot ==
    \A stack \in DOMAIN final :
        /\ stack = initData.config.stack
        /\ final[stack].whole /\ \E n \in seen : final[stack].env = Opened(n)

(* A process that starts when the cache is there never replaces it, so     *)
(* once those that missed it have ended, the variables that follow agree   *)
(* with each other until the reboot, whatever the platform does.           *)
CacheSettles ==
    [][final' # final =>
          Reboot \/ \E p \in Helpers : helper[p].phase = "rename" /\ ~helper[p].late]_vars

(* A host as the operators want it: a production guest whose report AMD    *)
(* signed, with the version bytes where Milan and Genoa have them, and a   *)
(* complete chain of genuine certificates.                                 *)
GenuineHost(report) ==
    LET chain == buildCertChain(presentCerts(report))
    IN  /\ report.genuine
        /\ report.wireTcb = packLegacyTcb(report.tcb)
        /\ Len(presentCerts(report)) <= maxCertChainLen
        /\ {"ark", "ask"} \subseteq DOMAIN chain /\ DOMAIN chain \cap {"vcek", "vlek"} # {}
        /\ \A role \in DOMAIN chain : chain[role].genuine
        /\ checkMeasurementAllowed(report) /\ validReportFields(report)

(* Every host the helper supports is such a host, and every pod's init     *)
(* data names the workload's image.                                        *)
GenuinePods ==
    /\ \A report \in Reports : aaReportToProto(report) => GenuineHost(report)
    /\ \A data \in InitDatas : parseInitDataPolicy(data) # <<>>

(* Operators accept what the helper makes of a genuine report of a host it *)
(* supports: its encoding is the one their verifier undoes.                *)
GenuineEvidenceAccepted ==
    \A p \in Helpers : helper[p].phase = "failed" => helper[p].why # "refused"

(* A process waits for ever on nothing but the chain, whose calls have no  *)
(* deadline: before that and after it it ends, though others die holding   *)
(* the lock and though one that waits for the chain never goes on.         *)
HelperEnds == \A p \in Helpers : Running(p) ~> (~Running(p) \/ helper[p].phase = "discover")
=============================================================================

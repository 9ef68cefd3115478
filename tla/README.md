# A formal model of the EigenX KMS

The EigenX KMS keeps one BLS master secret that no operator ever holds. The
operators create it in a distributed key generation (DKG), refresh their
shares of it in a *reshare* at every interval of L1 blocks, and serve partial
signatures to attested applications. A share that silently belongs to another
secret shows up only when threshold decryption fails, so the correctness of
the rounds, of the key versions they leave behind and store, of the scheduler
that starts them, and of the endpoint, the client and the pod helper that use
the key is what this project models, checks with TLC and proves with TLAPS.

Paths are relative to the repository (`pkg/...` is `src/pkg/...`).

## 1. Inventory

| Component | State it keeps | Operations | Interacts with | What makes it correct |
|---|---|---|---|---|
| Reshare round (`pkg/node/node.go`, `handlers.go`, `pkg/reshare`) | a session per round: shares, commitments with source versions, acks, verified broadcasts; retained generated shares | `RunReshareAsExistingOperator`, `RunReshareAsNewOperator`, eight HTTP handlers, `deriveAgreedDealerSet`, `fetchAndVerifyReshareShare` | transport, registry, key store, auto-heal | one source version and one dealer set for all; shares lie on committed polynomials; the secret does not change; everybody gets there |
| DKG round (`RunDKG`, `pkg/dkg`) | a session, as above | `RunDKG`, `handleDKG*` | transport, registry, key store | one master public key for all |
| Key store and auto-heal (`pkg/keystore`, `pkg/node/autoheal.go`) | versions, active version, poisoned set, abort tracker | `AddVersion`, `SetActiveVersionByTimestamp`, `recordMPKAbort`, `performRollback`, `recordSuccessfulReshare` | persistence | only versions that earned it are demoted, restarts change nothing, corrupt versions are left |
| Persistence (`pkg/persistence/{badger,redis,memory}`) | key share versions, active pointer, poisoned versions, node state, sessions | save, load, list, delete | everything above | what is read back is what was written |
| Scheduler and sessions (`checkScheduledOperations`, `pkg/blockHandler`) | block channel, last boundary, active sessions, notify channels | `HandleBlock`, `persistBoundary`, `createSession`, `waitForSession`, `cleanupSession` | chain poller, rounds, handlers | one round per boundary, one round at a time, no leaked channel |
| Commitment registry (`contracts/src/EigenKMSCommitmentRegistry.sol`) | commitment per epoch and operator | `submitCommitment`, `getCommitment` | rounds | write once |
| Secrets endpoint (`handleSecretsRequest`, `pkg/attestation`) | JTI replay cache, semaphore | verify attestation, record the token, read the release, authorize, choose version, sign, encrypt | key store, chain, platform | a token is honoured once; an environment goes to the image of its own release; timed answers do not go back; a full cache drains |
| KMS client (`pkg/clients/kmsClient`) | none | master-public-key vote, partial signature collection, combination search | operators | a minority of wrong answers, or a rotation while it asks, does not change the result; it succeeds when it can |
| CDH helper (`cmd/kmsCDHHelper`) | a cache file and its lock on tmpfs | resolve identity, look up, attest, find the operators, recover the key, decrypt, store, emit | attestation agent, chain, operators, platform | emits only true values; the cache is one consistent set; nobody waits for ever on another process |
| Crypto (`pkg/crypto`, `pkg/bls`, `pkg/merkle`, `pkg/encryption`) | none | share and commitment arithmetic, hashes, proofs | rounds, client | algebra |
| Chain access, peering, signers, config, commands | none of the protocol | calls and wiring | | |

Hard behaviours. Every round runs on all operators at once, over HTTP posts
that may be lost or arrive in any order (commitments are posted once and never
retried); submissions race a cutoff height; a share may be pushed, verified
early, or fetched at the end; rounds are goroutines that race the scheduler's
next boundary; the key versions and the auto-heal bookkeeping live in several
separate records, between whose writes the process may die; a version that
fails validation must be abandoned, but not because of a laggard. `PROJECT.json`
lists each hazard with its line and the properties aimed at it.

## 2. Modules

```
Threshold            quorum arithmetic
 |- DKGRound         the genesis round on all operators
 |   `- DKGRoundProofs
 |- ReshareRound     one reshare round; implements SourceConsensus
 |   |- MCReshareRound
 |   `- TimelyReshare      the same round with better networks
 |       |- ReshareRoundProofs (of both, and of quorums)
 |       `- MCTimelyReshare
 `- ThresholdCrypto  the arithmetic, over a prime field
     |- SecretSharing      keys over several rounds, any dealer sets
     |   `- MCSecretSharing
     |- KMSClient          a client and the operators it asks
     |   `- MCKMSClient
     `- ThresholdCryptoProofs (of both, and of the arithmetic)
SourceConsensus      what a reshare round agrees on (abstract)
AutoHeal             key versions of one node, on disk and in memory
 `- AutoHealProofs
Scheduler            blocks, boundaries, rounds, sessions of one node
 |- SchedulerProofs
 `- MCScheduler
DurableState         what a node relies on after a restart (abstract)
StoreCommands        the records, and the commands that change them
 |- BadgerStore, RedisStore, MemoryStore    the interface on each backend
 `- NodeStore        one node over any of the three; implements DurableState
     |- NodeStoreProofs
     `- MCNodeStore
Attestation          what each attestation method accepts
 |- Secrets          the /secrets endpoint of one operator
 |   |- SecretsProofs
 |   `- MCSecrets
 `- CDHHelper        the helper processes of one pod
     |- CDHHelperProofs
     `- MCCDHHelper
```

### ReshareRound

The state of all operators in one round. `phase[n]` is the program counter of
the round's goroutine at its waits; the session's maps are `commitments`
(together with `sourceVersions`), `shares`, `acks` and `verifiedOperators`;
`registry` is the contract, `atCutoff` what it held at the cutoff height that
`resolveCutoffL2` gives every operator.

| Code | Action |
|---|---|
| `RunReshareAsExistingOperator` to the first wait | `StartExisting` |
| `RunReshareAsNewOperator` to the first wait | `StartNew` |
| `handleReshareCommitment`, `handleReshareShare`, `handleReshareAck`, `handleCommitmentBroadcast` | actions of these names |
| snapshot, `VerifyNewShare`, acknowledge | `VerifyAndAcknowledge` |
| ack wait with its fallback, `submitCommitmentWithRetry`, proof broadcast | `SubmitCommitment`, `SubmitButFail` |
| the L2 chain passing the cutoff | `PassCutoff` |
| `deriveAgreedDealerSet`, `VerifyDealerSourceVersions`, `SelectMajoritySourceVersion` | `SelectDealers` |
| `fetchAndVerifyReshareShare` with `handleReshareShareRequest` at the dealer | `fetchAndVerifyReshareShare` |
| `ComputeNewKeyShare`, `ValidateReshareMasterPublicKey`, install | `FinalizeExisting`, `AbortOnMPK` |
| join path: combine, `fetchMPKFromPeers`, install | `FinalizeNew` |
| every other error return and timeout, or the process's end | `Abort` |

Abstractions. A polynomial is a name, and `SourceOf` says the share of which
version is its constant term; a share is the name of the polynomial it lies on;
a hash is its preimage. A faulty dealer (`Faulty`) may send any recipient, the
registry and the share fetch any of `FaultyDeals`. Messages are not variables:
what a dealer dealt may be delivered at any later time or never, which covers
loss, delay and reordering; duplicates are refused by the session. Signatures
are unforgeable.

`TimelyReshare` restricts the same actions: `DeliveredSpec` (commitments of
on-chain dealers are delivered before selection) and `PromptSpec` (everybody
takes part and nothing times out, with fairness).

`SourceConsensus` is the promise: a source version is chosen once and for all,
and an operator takes on the new key at most once, as a refreshed share of the
version chosen. `Consensus` is the refinement mapping: the choice is what the
operators that selected their dealers selected, so the first of them chooses and
the later ones, whatever they were told, can only confirm it.

The joining operator installs its share without validating it against the
master public key, so `SecretPreserved` is stated for existing operators only;
`SecretSharing` says what it holds.

### DKGRound

The state of all operators in the genesis round, in the same style: `phase`,
the session's `commitments`, `shares`, `acks` and `verifiedOperators`, the
local map `validShares` of `RunDKG`, and the installed `privateShare` and
`mpk`, each as the set of the `<<dealer, polynomial>>` terms it is the sum of.
`complete` is a history variable: the wait for proof broadcasts did not time
out.

| Code | Action |
|---|---|
| `RunDKG` to the first wait (own share stored before anything is sent) | `StartDKG` |
| `handleDKGCommitment`, `handleDKGShare`, `handleDKGAck`, `handleCommitmentBroadcast` | actions of these names |
| `waitForShares`, `waitForCommitments`, `VerifyShare`, acknowledge | `VerifyAndAcknowledge` |
| `waitForAcks`, submission, `BroadcastCommitmentsWithProofs` | `SubmitCommitment` |
| `WaitForVerifications` (or its timeout), `trustedDealerIDs`, `FinalizeKeyShare`, persist, install | `FinalizeDKG` |
| every error return and timeout, or the process's end | `Abort` |

A dealer in `Faulty` may deal differently to each recipient and with the wrong
number of coefficients (`Polynomials \ WellFormed`), and may write an
acknowledgement into its broadcast: `VerifyOperatorBroadcast` looks neither at
the signature nor at the registry. Acknowledgements themselves come from
operators that verified the share. `ProofRecipients` keeps two details of the
code: the broadcast stops at the first operator without an acknowledgement,
and the one-leaf proof of a single acknowledgement is refused as empty, so a
cluster of two never verifies a broadcast and its DKG ends below threshold.

### AutoHeal

One node over many rounds. Memory is `held`, `active`, `poisoned`, `tracker`;
disk is `saved`, `pointer`, `savedPoisoned`, `nodeState`. Every write is a step
(`task` names the next one), so `Crash` may come between any two, and each may
fail. `RestoreState` rebuilds memory from disk as the code does, including the
restart on which the poisoned set cannot be read. `lost` remembers that a write
failed, `suffered` how many rounds really aborted on a version, `lastActive`
what was active before a crash; they only serve the properties.

### Scheduler

`HandleBlock` (a full channel drops the block) and `RecordBlock` of the poller,
which hands a block over again after a restart, or after a failed save, as long
as it is not recorded (`stored` is behind `polled`), the early returns and the
boundary path of `checkScheduledOperations`, the launched goroutine
(`LaunchRound`, `CreateSession`, `EndRound`), and `waitForSession` in its
lock-delimited pieces (`GetSession`, `Register`, `Retrieve`, `TimeOut`).
`sessionNotify[b]` names the request that made the channel.

### NodeStore and DurableState

`DurableState` is the promise: key share versions, active pointer, poisoned
set and sessions, each changed in one step; versions and poison are never taken
back; pointer and poison only name listed versions; only a store in memory
forgets. `NodeStore` is one node with its goroutines (overlapping rounds,
poller, start-up) over a backend that runs their calls. Each backend gives a
call as a sequence of commands (`SaveKeyShareVersion` of redis is a `SET` and an
`SADD`): badger and memory run it in one step, redis one command at a time,
with others in between. A call may fail; of a redis pipeline any part was done
then, and the rest may still be done later (`ExecuteLate`), even after a
restart. `ListKeyShareVersions` of redis keeps its three round trips when a
rollback calls it, since it deletes index entries that have no record.

| Code | Action |
|---|---|
| `createSession`, `saveSession`, `cleanupSession` | `StartRound`, `SavePhase`, `AbortRound`, `SessionDeleted` |
| end of a round: save share, pointer, `AddVersion`, last-known-good | `SaveVersion`, `MovePointer`, `AddVersion`, `FinishRound` |
| `performRollback` | `MarkPoisoned`, `BeginList`, `FetchRecords`, `RollBack` |
| the poller through `chainpolleradapter` | `SaveBlock`, `DeleteBlock` (and `BlockSaved`, `BlockDeleted`) |
| `kmsServer` opening the store, `RestoreState` | `OpenStore`, `RestoreState`, `SweepSession`, `Start` |
| `Close` during shutdown, the process's end | `Close`, `RefusedCall`, `Crash` |

`Durable` is the refinement mapping: the abstract versions and sessions are what
the configured backend *lists*, not what it stores.

### ThresholdCrypto and SecretSharing

`ThresholdCrypto` is the algebra of `pkg/bls`, `pkg/crypto`, `pkg/dkg` and
`pkg/reshare` over a prime field, with a point represented by its exponent:
every equation between points is kept, secrecy is not. `SecretSharing` runs a
DKG and reshares with it. Unlike `ReshareRound`, which shows how operators come
to a dealer set, it lets each operator finalize on *any* set its round admits
and computes what the shares reconstruct: every group that shares version and
dealer set reconstructs the key it serves, because each member validated the
dealers against it.

### KMSClient

One call of a client (`Encrypt`, `Decrypt`, or the steps of
`RetrieveSecretsWithOptions`) against operators that move from version 1 to
version 2 (`Rotate`) while they are asked. `handleAppSign` (also the answer of
`/secrets`) and `handleGetCommitments` are the operators' answers;
`FaultySignature`, `FaultyKey` and `NoAnswer` what else may come.
`GetMasterPublicKey` is the vote with its aggregation fallback,
`RecoverAppPrivateKeyWithRetry` the set of keys its combinations give; the
client takes any that its check accepts. A response carries an encrypted and a
public environment. `SameEnv` compares the former, as the code does; both are
returned from the response that came first. `result.via` says what the key was
checked against (a vote, a sum, or nothing) and `result.verified` is what the
code reports, true also after a check against a sum. The call begins with the
operators known: `GetOperators`, which reads the chain without a deadline, is
before it.

### Attestation, Secrets

`Attestation` gives, for each registered method, the claims extracted from a
request or `Refused`: Google and Intel tokens, TPM quotes, SEV-SNP reports,
and the creator's own signature. Signatures and certificate chains are the field
`genuine`; a nonce is the pair it is the hash of.

`Secrets` is the handler cut where it calls out or takes a lock:
`Admit` (checks and attestation), `CheckReplay` (token cache),
`authorizeViaPlatform` or `GetAppLatestReleaseBlockNumber` followed by
`GetLatestReleaseAsRelease` (the two chain reads), `Respond`. Beside them the
releases, the platform, the key store, the cleanup goroutine, time and restarts
change. `honoured`, `reply`, `pinned` and a handler's `entitled` are logs for
the properties.

### CDHHelper

One process per sealed variable: `Start` (request and bound init data),
`loadCachedEnv`, `fetchAAEvidence`, `GetOperators` (the chain), `RetrieveSecrets`
(which hands the evidence to the verifier of `Attestation`), `resolveEnv`, then
`LockCache`, `WriteTemp`, `RenameTemp` and `Emit`. What the client recovers is
taken over from `KMSClient`: checked by a vote it is the stack's key, checked
against a sum or not at all it may be any. `Kill` may come anywhere and releases the lock as the
kernel does; `Reboot` empties tmpfs. The identity is the pod's bound stack,
whatever the request names.

## 3. Runs

| Run | Result | Question |
|---|---|---|
| `reshare_split` | passes, 1.4 M states | Three operators split over versions 1 (corrupt) and 2, operator 1 dealing either way to anyone: is `SourceConsensus` implemented, are shares committed, the secret kept, and only corrupt versions blamed? |
| `reshare_delivered` | passes | Do dealer sets agree when commitments are delivered, with joins, laggards and late submissions? |
| `reshare_prompt` | passes (liveness) | Does everybody finalize when nothing is lost or late? |
| `auto_heal` | passes, 490 k states | Demotion, restart, rollback, abandonment under crashes and failed writes |
| `scheduler` | passes, 1.5 M states | One round per boundary, no leaked channel |
| `dkg` | passes, 210 k states | Three operators, one dealing inconsistently: keys of complete rounds agree, shares match the key, contributions are held |
| `node_store` | passes, 2.4 M states | Do all three backends implement `DurableState` as the node uses them? Is what is served durable, does a restart go on with it, are stale sessions swept, is the last block found? |
| `secret_sharing` | passes, 29 k states | What do shares reconstruct, whatever dealer sets operators finalized on? |
| `kms_client` | passes, 530 k states (with liveness) | Is what the client encrypts, recovers or returns right, and does it succeed when it can, during a rotation and with a faulty operator? |
| `secrets` | passes, 640 k states (with liveness) | Replay, authorization and version choice with concurrent requests |
| `cdh_helper` | passes, 200 k states (with liveness) | Values, cache file and lock with concurrent, killed and rebooted helpers |
| `reshare_dealer_set` | violated | The "critical correctness invariant" under a lost commitment post |

The violated run states what a comment of the repository says (`findings` in
`PROJECT.json` quotes it) and shows a behaviour of the code that differs.

Mutants. Every property of a passing run has a mutant: a definition with a
dropped check, a missing write or a wrong choice, beside the definition it
replaces, under which the property fails.

### What modelling showed besides

These follow from the models; where a property states less than one may expect,
this is why.

- *Missed join.* `expectedReshareDealers` intersects the operator set with the
  participants of the operator's own version (`node.go:1195`), so an operator
  that missed the round in which another joined never counts the newcomer,
  falls below threshold on the majority's version and aborts every round.
  docs/013 describes the version without the intersection.
- *Floor.* `rollbackTarget` returns the last-known-good version without asking
  whether this node holds it (`autoheal.go:58`); the marker is the majority's
  source version. A laggard can reach the floor while it holds usable versions.
- *Boundary.* `persistBoundary` loads, merges and saves the node state without a
  lock; auto-heal fields written in between are lost.
- *Overlap.* A launched round registers its session only after it has fetched
  the operators, so the next boundary may start a second round. `NodeStore`
  lets rounds overlap: what they store stays consistent, but the persisted
  pointer and the key store may then name different versions, which is why
  `RestartKeepsServing` excludes it.
- *DKG timeouts.* `RunDKG` goes on after a timed-out wait for proofs; operators
  may then install different master public keys.
- *Joiner without a key.* An operator that joined without learning the master
  public key keeps a version without one and aborts its later reshares at
  `node.go:2557`, although the warning it logs expects the next reshare or a
  restart to mend it.
- *Carried count.* A rollback whose own writes fail can leave the abort count of
  the version it left on disk; three failed writes in a row carry a count over
  that its version did not suffer. `DemotionEarned` is therefore about fewer
  failed writes than `demotionThreshold` (TLC shows the case with three).
- *Joiner's expectation.* A joining operator expects the dealers whose keys it
  fetched. From about seven operators on (threshold five) one missed answer
  leaves it with a quorum, so it may finalize on a smaller dealer set although
  every commitment arrived. `DealerSetsAgree` names this as its hypothesis
  `ExpectAlike`; `StableSetsAgree` has no joiner and does not need it.
- *Redis.* The pipelines are called atomic in comments but are plain pipelines.
  What makes them safe is their order (record before index, block before
  pointer), which the mutants reverse. A failed save of a session may leave a
  record no index names.
- *Client.* The aggregation fallback is the key only over exactly the dealers of
  one version (`PublishedSumIsTheKey`); a missing or rotating answer gives a
  wrong key, so `EncryptedForTheApp` is about a voted one. Without any key,
  `RetrieveSecretsWithOptions` returns one unverified attempt, marked so.
  `Verified` (client.go:685-695) is set whenever some key was checked against,
  the summed one included, so `CheckedKeyIsTrue` is about `via = "vote"` and not
  about `Verified`. Of the environments, only `EncryptedEnv` is compared between
  responses (client.go:669-677); `PublicEnv` is that of the first response
  (client.go:723), so a faulty operator that answers first chooses it, and honest
  operators that saw different releases may differ in it unnoticed. The search
  stops after 1000 combinations. From 14 operators on (1001 thresholds) it may
  end before it meets an honest one, which `AllAttempted` excludes.
- *Helper.* `emitAppPrivateKey` (main.go:696) refuses an unverified root key, to
  keep a corrupted one from being emitted. When fewer than a threshold of
  operators serve a master public key, the check is against their summed
  commitments, which a faulty operator among them can shift to agree with a wrong
  key; `Verified` is true and the wrong key is emitted. `EmittedIsTrue` therefore
  says that a root key was checked, and that it is the stack's when the check was
  against a voted key. A wrong key opens no secret, so the other values are true
  on every path. The operators are found with calls to the chain that have no
  deadline (`context.Background()` at caller.go:68, empty `CallOpts` at
  caller.go:187-271): an endpoint that accepts a connection and never answers
  holds the process there for good. It holds no lock yet, so others go on
  (`HelperEnds`). Concurrent first calls all attest, and the last of them to store
  wins, also with an older answer; a variable the platform adds later is not
  found until the reboot. The reader's `flock` is on the cache file and the
  writer's on the lock file, so they do not exclude each other; the rename does.

### Bounds and why they are enough

- Three operators: threshold two, so two quorums overlap in one operator (here
  the faulty one) and one operator may be missing. The theorems below hold for
  any number.
- Two versions in `reshare_split` (source, sound or corrupt, and the other);
  three where a laggard and a join are needed.
- `dkg`: one faulty dealer of three and one malformed polynomial next to a
  well-formed one, so its commitments and its share may differ from each other,
  from recipient to recipient, and in length.
- `AutoHeal`: `MaxVersion = 4` lets a node skip a version, hold two good ones
  and roll back twice; `MaxCrashes = 2` and `MaxErrors = 2` cover a crash or an
  error during the recovery from another. Abort counts saturate at
  `MaxAborts = 4`, above `demotionThreshold = 3`: only comparisons with the
  threshold matter, so this cuts no behaviour.
- `Scheduler`: three boundaries, a channel of two blocks (100 in the code; two
  is enough to be full with a boundary inside and outside), two crashes, two
  interchangeable requests (symmetry): the one that makes a channel and one that
  joins or replaces it. The theorems have no such bounds.
- `NodeStore`: two rounds that may overlap, one block, one crash, one failed
  call, from an empty store or one that holds a first version. One failure is
  what the code can be in the middle of; a second adds only what the properties
  exclude (`failed`). Crash and failure combine.
- `SecretSharing`: three founders (threshold 2) and one who joins (threshold 3)
  over the field of five elements, a DKG and two reshares, one dealer that may
  choose its constant. Random coefficients are fixed, since no property depends
  on them; any dealer sets.
- `KMSClient`: four operators, threshold 3, one faulty, one request without an
  answer, the field of seven elements, chosen so that no honest share is zero.
  Two versions are what a rotation mixes.
- `Secrets`: two handlers, two requests, two changes of chain, platform or key
  store, one failure or restart, a token cache of one entry (100,000 in the
  code; full is full), tokens that expire at times 1 and 2, releases of two
  images, two of them in one block.
- `CDHHelper`: two processes at a time but any number in sequence, two failures
  or kills in each boot, any number of reboots, secrets that change twice.
  `KMSClient` lets an operator rotate before each of its requests and a release
  change while it may still be read; moments in between are seen by no answer.

Deadlock checking is off where the system may stop (a round or a call ends,
bounded blocks and requests run out); the helper's run keeps it on.

### Fairness

`PromptFairness`: weak fairness of each operator's goroutine steps, of posts to
it, and of block production. The Go scheduler runs a goroutine whose wait is
over; `PromptSpec` is the assumption that no wait times out, so every sent post
is delivered. `AutoHeal`'s `FairSpec`: a goroutine that is writing goes on,
a dead process is restarted by its supervisor, and rounds are attempted at
every boundary, where a corrupt active version keeps failing validation.
`KMSClient`: every request to an operator ends, by its answer or the HTTP
client's 30 s timeout, and the client goes on. `Secrets`: time passes and the cleanup's ticker
fires. `CDHHelper`: a running process takes its steps (the calls to the agent,
the operators and the platform have timeouts), and strong fairness of
`LockCache`: the kernel grants a released lock to a waiter. `GetOperators` has no
fairness, since its calls to the chain have no deadline, and `HelperEnds` excuses
a process that waits there, and only there. Nothing is assumed of kills, failures, reboots or rotations.

## 4. Proofs

The theorems hold for every value of the constants that satisfies the named
assumptions of the module they are about; the bounds of the runs are not among
them. Every proof has one step per action; TLC checked the properties first.

### Rounds

`ReshareRoundProofs`, for every operator set, version set, participants, and
every set of faulty dealers and what they deal (finite nonempty operators,
versions older than the round, `None` distinct from data):

- `QuorumsIntersect`, from `(2n + 2) \div 3 > n / 2`, for every finite nonempty
  set of operators.
- `TypeCorrect`: `Spec => []TypeOK`. `TypeInv` adds `PhaseInv` (only dealers wait
  for acknowledgements, only a finished operator holds the new version), without
  which a share or a deal could be read from an absent entry.
- `SourceVersionsAgree`, `SharesAreCommitted`, `SecretIsPreserved`: from one
  inductive invariant `SafetyInv`. None of the three properties is inductive:
  `ValidSharesInv` says a share recorded as valid still lies on the commitments
  held (a second message cannot replace them); `SelectionInv` that a selection
  is a quorum of dealers whose on-chain hash, at the one cutoff, names its source
  version; `AssemblingInv` that shares at hand at finalize match commitments
  that match the chain. Two selections then share a dealer by
  `QuorumsIntersect`, and the registry binds that dealer to one version.
- `RoundIsConsensus`: the refinement of `SourceConsensus`. A selection either
  chooses the version or, by the same overlap of quorums with those made before
  it, stutters; a finalization refreshes the version selected. It also needs
  `KnownInv`: the unknown version 0 is never selected, however many dealers
  name it, because among the finitely many known ones the preferred version of
  `SelectMajoritySourceVersion` exists (`SelectMajorityKnown`).
- `SoundVersionsNotBlamed`, under `HonestSources` (a deal re-deals the version it
  names; a dealer that lies about it makes the round abort on a sound version)
  and `NotShrunk` (a version's own threshold is not above the round's). Beside
  `SafetyInv` it needs `SourcedInv` (deals sent or received re-deal what they
  name) and `KeptInv` (the selected dealers told the operator that version).
- `DealerSetsAgree`, for correct dealers under `DeliveredSpec` and `ExpectAlike`:
  `DealtInv` (nobody holds what was not dealt) and `WholeSetInv` (a selection is
  *all* expected dealers of its version that the chain lists). `StableSetsAgree`
  derives `ExpectAlike` when all versions have the same participants and nobody
  joins.

`DKGRoundProofs`, for every operator set, every set of polynomials and every
set of faulty dealers:

- `DKGTypeCorrect`: `Spec => []TypeOK`.
- `CompleteDKGAgrees`, `InstalledShareMatches`, `ContributionsAreHeld`, from
  the inductive invariant `DKGInv`. The properties speak of installed keys,
  whose session is gone, so the invariant follows the evidence: `DealInv` ties
  the session to what was dealt, `ValidInv` a valid share to the commitments
  held, `AckInv` acknowledgements, broadcasts and verifications to operators
  that hold a valid share, `HeldInv` a submission to its threshold of holders
  (and from there to everyone who verified the broadcast), and `KeyInv` the
  installed terms to all of these. That a complete round verified *all* the
  others is a counting argument (`AllVerified`).

### One node

`AutoHealProofs`, for any number of versions, crashes and failed writes:

- `TypeCorrect`, and `NeverBackUnlessPoisoned` (`OnlyPoisonIsRolledBack`) from
  `Core`: a version being written is newer than everything on disk
  (`FreshInv`), the pointer is never behind the version active last
  (`StoreInv`), and a rollback is under way only off a poisoned active version
  (`RollbackInv`).
- `RestartInvisible` from `VisibleInv`: while no write failed, the disk follows
  the memory, but for the version being installed and a reset still to be
  written.
- `DemotionIsEarned` from `EarnedInv`. What makes it hard is a stale count on
  disk (`Stale`): the invariant shows that it belongs to a version the pointer
  has left, and that every abort counted in memory since cost a failed write.

`SchedulerProofs`, for any interval, channel capacity, number of blocks and
crashes, and any requests: `TypeCorrect`; `OneRoundPerBoundary` from `ChainInv`
(the channel holds blocks in order, none behind the last boundary, and a restart
goes back at most one block) and `OnceInv` (launched boundaries are persisted
ones, and the one being handled is newer); `NoLeakedChannel` from `WaiterInv`.

`NodeStoreProofs`, for every choice of backends and any number of overlapping
rounds, blocks, crashes and failed calls:

- `StoreIsDurableState`: the refinement of `DurableState`, step by step, from
  `Core`. Its heart is `WorkInv`: whatever is still to be done, of a call under
  way or of a failed pipeline that may yet run, is `Pending`, that is, harmless
  to what the store lists *now* (an index entry only when its record is there,
  a pointer only to a listed version, a last block only when it is stored).
  `PlaceInv` and `CountInv` say where actors may be, `RoundInv` that a round's
  version is listed once its share is saved, `KeyInv` that the key store holds
  listed versions.
- `StoreIsConsistent` and `StoreKeepsWhatItSaved`: what `DurableState` promises,
  carried over by the refinement. `ServedSurvivesCrash` and
  `PollerFindsItsPlace` follow from `Core` too.
- `NoSessionLeftBehind` adds that calls keep to their own records (`ApartInv`),
  that nothing is done late in a life without failures (`QuietInv`), that rounds
  have sessions of their own (`DistinctInv`), and that a listed session is being
  swept or belongs to a running round (`SweepInv`, `LiveInv`).
- `RestartGoesOn` adds `AloneInv` (rounds that did not overlap) and `ActiveInv`
  (what a restart would choose is what is served, except while a round
  switches).

### Endpoint, helper

`SecretsProofs`, for any number of handlers, requests and releases and any size
of the token cache: `TokensHonouredOnce` from `CacheInv` (a token accepted in
this life of the server is cached until it expires); `AnswersAreForTheImage`
from `HandlersInv`, which carries what each attestation method vouches for
(`Vouched`, one lemma per method) and what the image was entitled to at some
moment of the request, through both chain reads (`ChainInv`: releases come in
block order, and the block confirmed is not ahead of them);
`AnswersNeverGoBack` from `VersionInv`.

`CDHHelperProofs`, for any number of processes, requests, secrets, failures,
kills and reboots: `EmittedValuesAreTrue`, `CacheHoldsOneSnapshot` and
`CacheIsReplacedByEarlyProcessesOnly` from `HelpersInv` (what a process at each
of its stages may hold, `JobFit`) and `CacheInv`. The first speaks of a voted
check where it speaks of the root key, as `RetrieveSecrets` ties only that to the
true key. `GenuineHostsAreAccepted` from
`EvidenceInv`, under `GenuinePods`: the hosts the helper supports are production
guests with genuine reports and certificates. TLC evaluates that hypothesis on
the instance of its run.

### Arithmetic, rounds of keys, client

`ThresholdCryptoProofs`, for every prime, number of operators below it, keys,
faulty operators and rotations. It has three layers.

*Arithmetic.* The laws of the field (`NoZeroDivisors` is Euclid's lemma,
`HasInverse`, `AddLaws`, `MulLaws`, `Distributive`), and of sums and products
over sets, which are folds that may take their elements in any order: a fold
exists, stays in a set that its steps stay in (`FoldExists`, `FoldValues`), and
may take any one element first (`SumFirst`, `ProductFirst`). A Lagrange
coefficient over `P` is then the one without operator `j` times a factor of `j`
(`CoefficientSplit`). `Determined(t)` is the set of functions whose value at
zero the values of any `t` or more operators interpolate to. Constants are in
`Determined(1)`, it is closed under sums and factors, and multiplying by the
place leads from `Determined(t)` to `Determined(t + 1)` (`DeterminedShifted`, the
step that needs the split); so polynomials of `t` coefficients are in
`Determined(t)` (`PolynomialDetermined`). That is `SharesReconstruct`: any
threshold of what `GenerateShares` deals gives the constant term.

*Rounds of keys.* `GroupsReconstruct` and `PublishedSum`, through any number of
rounds, any dealer set per operator, founders and joiners, and faulty dealers
with any constant term. The inductive invariant `SharingInv` (`SharingInvariant`)
says that for each version and dealer set there is *one* function of
`Determined(threshold)` on which all shares of that group lie, with the master
public key that validating members serve as its value at zero, and the published
commitments as its parts. For the version of the latest round it is computed
from the deals (`CurrentKeys`); earlier versions, whose deals are gone, only keep
that it exists (`EarlierKeys`), which is what the invariant has to carry through
the start of the next round. Assumed of the constants: operator indices are
distinct and not zero in the field, and polynomials have at least the round's
threshold of coefficients.

*Client.*

- `CheckedKeysAreTrue` and `AgreedKeysEncryptForTheApp`, when fewer than a
  threshold of operators are faulty (`FewFaulty`) and, for the latter, the master
  public key is not the zero point, which `EncryptForApp` refuses. An agreed key
  has an honest voter (`VotedIsTrue`), and a check that accepts a key accepts one
  only, because factors cancel modulo a prime.
- `EncryptedEnvsAgree`, without hypotheses, from `EnvInv`: of the encrypted
  environment only.
- `RecoveryIsComplete` and `PinnedRecovery`: both key versions are sharings of the
  master public key (`DKGSharing`, `ReshareSharing`), the collected signatures of
  honest operators are those of the versions they signed with (`HonestSigsHold`),
  so a threshold of one version is a combination whose key the check accepts
  (`HonestRecover`), and the search meets it (`EveryCombination`). Hypotheses:
  `NoZeroShare`, because a decryption drops a zero signature; `AllAttempted`,
  because beyond 13 operators the limit of 1000 attempts may end the search
  before it; a master public key that is not zero; and for the first theorem
  `FewFaulty`, without which the agreed key of a retrieval may be wrong. TLC
  evaluates these hypotheses on the instance of its run. A random share is zero
  with probability one over the order of the curve.

The induction that folds and sets need is stated as a fact about sets of numbers
and of subsets (`AllNumbers`, `AllSubsets`, from the library's least-element
theorem), as the prover cannot instantiate the library's induction theorems. The
modules extend maps by `With`, since `:>` and `@@` are opaque to it.

### Only model-checked

Liveness (`EveryoneFinalizes`, `CorruptVersionAbandoned`, `CallEnds`,
`CacheDrains`, `HelperEnds`): fairness and `ENABLED` are out of the prover's
reach. Every safety property of a passing run is a theorem.

## 5. Not modelled

- Encodings, hash-to-curve, RSA, signatures and certificate chains: taken by
  what they decide.
- The Merkle tree's construction and the binary search for the cutoff height:
  sequential functions with unit tests, taken by their result.
- The registry's configuration and ownership, the registrar contract and the
  peering fetcher: administrator calls and reads of external contracts.
- The rate limiter of the endpoints, which refuses requests before they touch
  any state; the pending key version, `DeleteKeyShareVersion`,
  `LoadKeyShareVersion` and `LoadProtocolSession`, which the node never calls.
- The eviction of retained shares after several rounds, and a change of the
  operator set inside a round.
- Generated bindings, protobuf code and mocks, command wiring, key generators.

## 6. Plan

1. Retained shares and their eviction over several rounds, with an operator set
   that grows and shrinks.
2. The construction of the Merkle tree and the search for the cutoff height, as
   operators checked against their reference definitions.

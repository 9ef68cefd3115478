----------------------------- MODULE KMSClient -----------------------------
(***************************************************************************)
(* pkg/clients/kmsClient: a client that asks every operator and decides    *)
(* from the answers, while operators move from one key version to the next *)
(* and the application's release may be replaced. The operators' handlers  *)
(* for /pubkey, /app/sign and /secrets are the answers below; Secrets      *)
(* models what /secrets checks before it answers.                          *)
(*                                                                         *)
(* Version 1 is a DKG of all operators, version 2 a reshare by Dealers,    *)
(* with the keys that ThresholdCrypto computes. A faulty operator answers  *)
(* what it likes from the small sets below.                                *)
(***************************************************************************)
EXTENDS ThresholdCrypto

CONSTANTS
    Faulty,          \* operators that may answer anything
    BogusSigs,       \* what they may answer as a partial signature,
    BogusKeys,       \*   as a master public key or a first commitment
    LegacySets,      \* possible sets of operators that serve no public key
    Polynomials,     \* the dealers' polynomials of the DKG
    Dealers,         \* the dealers of the reshare
    Blindings,       \* its random coefficients
    Randomness,      \* of the ciphertext to decrypt
    MaxUnanswered,   \* requests that fail or time out
    None

ASSUME ClientAssumption ==
    /\ Faulty \subseteq Operators /\ Dealers \subseteq Operators
    /\ BogusSigs \subseteq Fr /\ BogusKeys \subseteq Fr
    /\ Polynomials \in [Operators -> Seq(Fr)] /\ Blindings \in [Operators -> Seq(Fr)]
    /\ \A op \in Operators :
          /\ Len(Polynomials[op]) = CalculateThreshold(NumOperators)
          /\ Len(Blindings[op]) = CalculateThreshold(NumOperators) - 1
    /\ Cardinality(Dealers) >= CalculateThreshold(NumOperators)
    /\ MaxUnanswered \in Nat /\ None \notin Fr /\ Randomness \in Fr \ {0}

threshold == CalculateThreshold(NumOperators)

(* Every threshold of operators has an honest one, as the vote on the master
   public key supposes.                                                      *)
FewFaulty == Cardinality(Faulty) < threshold

-----------------------------------------------------------------------------
(* The operators' keys, and what they sign and publish.                    *)

DKGShare(op) == FinalizeKeyShare(
    [d \in Operators |-> EvaluatePolynomial(Polynomials[d], op)],
    [d \in Operators |-> CreateCommitments(Polynomials[d])], threshold).share

MasterPublicKey == FinalizeKeyShare(
    [d \in Operators |-> EvaluatePolynomial(Polynomials[d], 1)],
    [d \in Operators |-> CreateCommitments(Polynomials[d])], threshold).commitments[1]

KeyShares == [op \in Operators |->
    << [share |-> DKGShare(op), commitment |-> CreateCommitments(Polynomials[op])[1]],
       LET key == ComputeNewKeyShare(op, [d \in Dealers |->
              EvaluatePolynomial(GenerateNewShares(DKGShare(d), Blindings[d]), op)])
       IN  [share |-> key.share, commitment |-> key.commitments[1]] >>]

(* No operator's share is zero: a zero signature is dropped by a decryption. *)
NoZeroShare == \A op \in Operators, v \in 1..2 : KeyShares[op][v].share # 0

(* The limit on recovery attempts excludes no combination: 13 operators or
   fewer.                                                                    *)
AllAttempted == Cardinality(kSubset(threshold, Operators)) <= DefaultMaxRecoveryAttempts

(* What a release holds for the application beside its image; a stack has  *)
(* neither on chain.                                                       *)
Environment(encrypted, public) == [encrypted |-> encrypted, public |-> public]
NoEnvironment == Environment(0, 0)

AppPrivateKey == signAppIDWithVersion(MasterPublicKey)
Ciphertext == EncryptForApp(MasterPublicKey, "data", Randomness)

VARIABLES
    serving,    \* each operator's active version
    legacy,     \* operators whose version carries no master public key
    release,    \* the environments of the application's latest release
    kind,       \* "encrypt", "decrypt" or "retrieve"
    stack,      \* retrieve with a stack id
    asOf,       \* attestation time: 0 active version, v when v was the newest
    phase,      \* "signatures", "key" or "done"
    asked,      \* operators whose request of this phase has ended
    unanswered, \* requests that got nothing
    sigs,       \* partial signatures collected
    envs,       \* environments that came with them
    answers,    \* collected answers of /pubkey
    signedWith, \* the version of each honest signature (not in the code)
    result

cluster == <<serving, legacy, release>>
call == <<kind, stack, asOf>>
vars == <<serving, legacy, release, kind, stack, asOf, phase, asked, unanswered,
          sigs, envs, answers, signedWith, result>>

Init ==
    /\ serving = [op \in Operators |-> 1] /\ release = Environment(1, 1)
    /\ legacy \in LegacySets
    /\ kind \in {"encrypt", "decrypt", "retrieve"}
    /\ stack \in BOOLEAN /\ (stack => kind = "retrieve")
    /\ asOf \in 0..2 /\ (kind = "encrypt" => asOf = 0) /\ (kind = "retrieve" => asOf # 0)
    /\ phase = IF kind = "encrypt" THEN "key" ELSE "signatures"
    /\ asked = {} /\ unanswered = 0
    /\ sigs = <<>> /\ envs = <<>> /\ answers = <<>> /\ signedWith = <<>>
    /\ result = None

-----------------------------------------------------------------------------
(* The cluster moves on.                                                   *)

(* An operator finalizes the reshare and makes version 2 its active one.   *)
(* The client sees that in the next answer, so it is enough to let it      *)
(* happen before each request and not also after the last.                 *)
Rotate(op) ==
    /\ phase # "done" /\ op \notin asked /\ serving[op] = 1
    /\ serving' = [serving EXCEPT ![op] = 2]
    /\ UNCHANGED <<legacy, release, call, phase, asked, unanswered, sigs, envs, answers,
                   signedWith, result>>

(* A new release, with or without a change of the encrypted environment,   *)
(* while operators may still be asked for it.                              *)
Upgrade ==
    /\ kind = "retrieve" /\ ~stack /\ phase = "signatures" /\ release.public = 1
    /\ \E encrypted \in 1..2 : release' = Environment(encrypted, 2)
    /\ UNCHANGED <<serving, legacy, call, phase, asked, unanswered, sigs, envs, answers,
                   signedWith, result>>

-----------------------------------------------------------------------------
(* /app/sign and /secrets. GetKeyVersionAtTime finds the newest version an *)
(* operator holds that is no newer than the time asked for.                *)

AlwaysActive(op, time) == serving[op]

GetKeyVersionAtTime(op, time) ==
    IF time = 0 THEN serving[op] ELSE Smaller(serving[op], time)

(* A map with one entry added or replaced.                                 *)
With(map, key, value) ==
    [k \in DOMAIN map \cup {key} |-> IF k = key THEN value ELSE map[k]]

ask(op) == op \in Operators \ asked /\ asked' = asked \cup {op}

(* A zero signature is dropped by the collection for a decryption, and by  *)
(* no check of the collection from /secrets.                               *)
collects(sig) == kind = "retrieve" \/ sig # 0

record(op, sig, env) ==
    /\ sigs' = IF collects(sig) THEN With(sigs, op, sig) ELSE sigs
    /\ envs' = IF collects(sig) THEN With(envs, op, env) ELSE envs

handleAppSign(op) ==
    /\ phase = "signatures" /\ ask(op) /\ op \notin Faulty
    /\ LET v == GetKeyVersionAtTime(op, asOf)
       IN  /\ record(op, signAppIDWithVersion(KeyShares[op][v].share),
                     IF stack THEN NoEnvironment ELSE release)
           /\ signedWith' = With(signedWith, op, v)
    /\ UNCHANGED <<cluster, call, phase, unanswered, answers, result>>

(* What a faulty operator says of the environments: the encrypted one as   *)
(* released or not, and a public one of its own.                           *)
FaultyEnvironments ==
    {Environment(encrypted, 0) : encrypted \in IF kind = "retrieve" THEN 0..1 ELSE {0}}

FaultySignature(op) ==
    /\ phase = "signatures" /\ ask(op) /\ op \in Faulty
    /\ \E sig \in BogusSigs, env \in FaultyEnvironments : record(op, sig, env)
    /\ UNCHANGED <<cluster, call, phase, unanswered, answers, signedWith, result>>

(* No connection, a timeout, a status other than 200, a body that does not *)
(* parse, a foreign operator address, or a signature that does not decrypt.*)
NoAnswer(op) ==
    /\ phase \in {"signatures", "key"} /\ ask(op)
    /\ unanswered < MaxUnanswered /\ unanswered' = unanswered + 1
    /\ UNCHANGED <<cluster, call, phase, sigs, envs, answers, signedWith, result>>

-----------------------------------------------------------------------------
(* /pubkey and GetMasterPublicKey.                                         *)

handleGetCommitments(op) ==
    /\ phase = "key" /\ ask(op) /\ op \notin Faulty
    /\ answers' = With(answers, op,
           [commitment |-> KeyShares[op][serving[op]].commitment,
            mpk |-> IF op \in legacy THEN None ELSE MasterPublicKey])
    /\ UNCHANGED <<cluster, call, phase, unanswered, sigs, envs, signedWith, result>>

FaultyKey(op) ==
    /\ phase = "key" /\ ask(op) /\ op \in Faulty
    /\ \E commitment \in BogusKeys, mpk \in BogusKeys \cup {None} :
          answers' = With(answers, op, [commitment |-> commitment, mpk |-> mpk])
    /\ UNCHANGED <<cluster, call, phase, unanswered, sigs, envs, signedWith, result>>

votes(mpk) == {op \in DOMAIN answers : answers[op].mpk = mpk}
respondents == {op \in DOMAIN answers : answers[op].mpk # None}

ServedKeys == {mpk \in Fr : votes(mpk) # {}}

VotedKeys == {mpk \in Fr : Cardinality(votes(mpk)) >= threshold}

(* Agreement when a threshold of operators serve a key, otherwise the sum  *)
(* of the commitments; NoMasterKey is the error.                           *)
NoMasterKey == [mpk |-> None, via |-> "error"]

GetMasterPublicKey ==
    LET summed == ComputeMasterPublicKey(
            [op \in DOMAIN answers |-> <<answers[op].commitment>>])
    IN  CASE DOMAIN answers = {} -> NoMasterKey
          [] Cardinality(respondents) >= threshold ->
                IF VotedKeys = {} THEN NoMasterKey
                ELSE [mpk |-> CHOOSE mpk \in VotedKeys : TRUE, via |-> "vote"]
          [] OTHER ->
                IF summed = 0 THEN NoMasterKey ELSE [mpk |-> summed, via |-> "sum"]

-----------------------------------------------------------------------------
(* The three calls.                                                        *)

Failed == [ok |-> FALSE]
Finish(outcome) == phase' = "done" /\ result' = outcome

Encrypt ==
    /\ kind = "encrypt" /\ phase = "key" /\ asked = Operators
    /\ LET key == GetMasterPublicKey
       IN  Finish(IF key.via = "error" THEN Failed
                  ELSE [ok |-> TRUE, via |-> key.via,
                        ciphertext |-> EncryptForApp(key.mpk, "data", Randomness)])
    /\ UNCHANGED <<cluster, call, asked, unanswered, sigs, envs, answers, signedWith>>

(* decryptWithRetry: the first combination whose key opens the ciphertext. *)
decryptWithRetry ==
    {key \in RecoverAppPrivateKeyWithRetry(sigs, threshold) : DecryptForApp(key, Ciphertext)}

Decrypt ==
    /\ kind = "decrypt" /\ phase = "signatures" /\ asked = Operators
    /\ IF Cardinality(DOMAIN sigs) < threshold \/ decryptWithRetry = {}
       THEN Finish(Failed)
       ELSE \E key \in decryptWithRetry :
               Finish([ok |-> TRUE, via |-> "ciphertext", key |-> key])
    /\ UNCHANGED <<cluster, call, asked, unanswered, sigs, envs, answers, signedWith>>

NoEnvCheck == TRUE

(* The responses' encrypted environments are compared, and not the public  *)
(* ones.                                                                   *)
SameEnv == stack \/ \A op, p \in DOMAIN envs : envs[op].encrypted = envs[p].encrypted

RefuseTooFew ==
    /\ kind = "retrieve" /\ phase = "signatures" /\ asked = Operators
    /\ Cardinality(DOMAIN envs) < threshold
    /\ Finish(Failed)
    /\ UNCHANGED <<cluster, call, asked, unanswered, sigs, envs, answers, signedWith>>

RefuseResponses ==
    /\ kind = "retrieve" /\ phase = "signatures" /\ asked = Operators
    /\ Cardinality(DOMAIN envs) < threshold \/ ~SameEnv
    /\ Finish(Failed)
    /\ UNCHANGED <<cluster, call, asked, unanswered, sigs, envs, answers, signedWith>>

AcceptResponses ==
    /\ kind = "retrieve" /\ phase = "signatures" /\ asked = Operators
    /\ Cardinality(DOMAIN envs) >= threshold /\ SameEnv
    /\ phase' = "key" /\ asked' = {}
    /\ UNCHANGED <<cluster, call, unanswered, sigs, envs, answers, signedWith, result>>

(* With a public key, voted or summed, the first combination that it       *)
(* verifies; without one, a single unchecked attempt. Both environments    *)
(* are those of the response that came first, whoever sent it.             *)
RetrieveSecrets ==
    /\ kind = "retrieve" /\ phase = "key" /\ asked = Operators
    /\ LET key == GetMasterPublicKey
           verified == {k \in RecoverAppPrivateKeyWithRetry(sigs, threshold) :
                           VerifyAppPrivateKey(k, key.mpk)}
           single == {RecoverAppPrivateKey(sigs, threshold)} \ {0}
           found == IF key.via = "error" THEN single ELSE verified
       IN  IF found = {} THEN Finish([ok |-> FALSE, via |-> key.via])
           ELSE \E k \in found, op \in DOMAIN envs :
                   Finish([ok |-> TRUE, via |-> key.via, verified |-> key.via # "error",
                           key |-> k, env |-> envs[op]])
    /\ UNCHANGED <<cluster, call, asked, unanswered, sigs, envs, answers, signedWith>>

Next ==
    \/ \E op \in Operators :
          \/ Rotate(op) \/ NoAnswer(op)
          \/ handleAppSign(op) \/ FaultySignature(op)
          \/ handleGetCommitments(op) \/ FaultyKey(op)
    \/ Upgrade \/ Encrypt \/ Decrypt \/ RefuseResponses \/ AcceptResponses \/ RetrieveSecrets

(* Every request to an operator ends, by its answer or by the HTTP         *)
(* client's timeout, and the client waits for all of them and goes on. The *)
(* behaviour starts with the operators known: finding them on chain, which *)
(* GetOperators does without a timeout, comes before it.                   *)
Fairness ==
    /\ \A op \in Operators : WF_vars(handleAppSign(op) \/ FaultySignature(op)
                                      \/ handleGetCommitments(op) \/ FaultyKey(op))
    /\ WF_vars(Encrypt \/ Decrypt \/ RefuseResponses \/ AcceptResponses \/ RetrieveSecrets)

Spec == Init /\ [][Next]_vars /\ Fairness

-----------------------------------------------------------------------------
Done(k) == phase = "done" /\ kind = k
HonestWith(v) == {op \in DOMAIN signedWith : signedWith[op] = v}

(* What Encrypt produces with a key that a threshold of operators agreed on
   (GetMasterPublicKey) opens with the application's private key, whatever the
   faulty operators served and whichever versions the honest ones were on.   *)
EncryptedForTheApp ==
    Done("encrypt") /\ result.ok /\ result.via = "vote" =>
        DecryptForApp(AppPrivateKey, result.ciphertext)

(* A private key that opened the ciphertext (decryptWithRetry), or that was
   verified against a public key a threshold of operators voted for
   (RetrieveSecretsWithOptions), is the application's key, although signatures
   of two versions and bogus ones were interpolated on the way. Verified alone
   promises less: it is also set after a check against summed commitments, and
   the key may then be a wrong one.                                          *)
CheckedKeyIsTrue ==
    \A k \in {"decrypt", "retrieve"} :
        Done(k) /\ result.ok /\ result.via \in {"ciphertext", "vote"} =>
            result.key = AppPrivateKey

(* Once a threshold of honest operators signed with one version, the client
   succeeds: RecoverAppPrivateKeyWithRetry finds their combination among those
   with signatures of the other version and of faulty operators. Of retrieve,
   when the public key was agreed on and the environments were accepted.     *)
RecoveryComplete ==
    \A v \in 1..2 :
        Cardinality(HonestWith(v)) >= threshold =>
            /\ Done("decrypt") => result.ok
            /\ Done("retrieve") /\ "via" \in DOMAIN result /\ result.via = "vote" => result.ok

(* A decryption pinned to an attestation time before the rotation
   (DecryptForApp with a time, GetKeyVersionAtTime) succeeds with any threshold
   of honest answers, however the operators rotate while they are asked.     *)
PinnedSurvivesRotation ==
    Done("decrypt") /\ asOf = 1 /\ Cardinality(DOMAIN signedWith) >= threshold => result.ok

(* The encrypted environment that a retrieval on the release path returns is the
   one every honest operator that answered read from the chain, although the
   release was replaced and a faulty operator's response may be the one it is
   taken from. Of PublicEnv nothing like it holds: it is the first response's,
   compared with no other.                                                   *)
EncryptedEnvAgreed ==
    Done("retrieve") /\ result.ok /\ ~stack =>
        \A op \in DOMAIN signedWith : envs[op].encrypted = result.env.encrypted

(* Every call that knows its operators ends, with a result or an error,
   whichever requests fail and whatever the answers disagree on.             *)
CallEnds == <>(phase = "done")
=============================================================================

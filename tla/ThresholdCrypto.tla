-------------------------- MODULE ThresholdCrypto --------------------------
(***************************************************************************)
(* The arithmetic of pkg/bls, pkg/crypto, pkg/dkg and pkg/reshare over a   *)
(* small prime field instead of the scalar field of BLS12-381. A group     *)
(* element x*G is represented by its exponent x (the groups have prime     *)
(* order and one generator each), so adding points is adding exponents,    *)
(* scaling is multiplying, and the pairing of x*G1 and y*G2 is x*y. What   *)
(* is lost is that exponents are secret; every equation between points is  *)
(* kept. Encodings of points and the rejection of ill-formed ones are not  *)
(* modelled.                                                               *)
(***************************************************************************)
EXTENDS Naturals, Sequences, FiniteSets, FiniteSetsExt, SequencesExt, Threshold

CONSTANTS
    Prime,         \* the order of the groups
    NumOperators,  \* operators, in the order of their addresses
    AppHash        \* HashToG1 of the application's identifier

Operators == 1..NumOperators

ASSUME CryptoAssumption ==
    /\ Prime \in Nat /\ NumOperators \in Nat \ {0}
    /\ NumOperators < Prime
    /\ \A d \in 2..(Prime - 1) : Prime % d # 0
    /\ AppHash \in 1..(Prime - 1)

Fr == 0..(Prime - 1)

AddPoints(a, b) == (a + b) % Prime
ScalarMul(point, scalar) == (point * scalar) % Prime
Neg(a) == (Prime - a) % Prime
FieldInverse(a) == CHOOSE b \in Fr : (a * b) % Prime = 1

(* A keccak hash read as a field element; all that counts is that no two   *)
(* operators get the same one, and nobody gets zero.                       *)
AddressToFr(operator) == operator % Prime

SumOver(S, f) == FoldSet(LAMBDA x, sum : AddPoints(f[x], sum), 0, S)
ProductOver(S, f) == FoldSet(LAMBDA x, product : ScalarMul(f[x], product), 1, S)

-----------------------------------------------------------------------------
(* Polynomials, as the sequence of their coefficients.                     *)

EvaluatePolynomial(poly, operator) ==
    FoldRight(LAMBDA coefficient, sum :
                 AddPoints(coefficient, ScalarMul(sum, AddressToFr(operator))),
              poly, 0)

GeneratePolynomial(secret, coefficients) == <<secret>> \o coefficients

CreateCommitments(poly) == [k \in 1..Len(poly) |-> ScalarMul(1, poly[k])]

GenerateShares(poly) == [op \in Operators |-> EvaluatePolynomial(poly, op)]

(* share*G2 against the commitments raised to the powers of the holder.    *)
VerifyShare(operator, share, commitments) ==
    /\ commitments # <<>>
    /\ ScalarMul(1, share) = EvaluatePolynomial(commitments, operator)

ComputeLagrangeCoefficient(i, participants) ==
    LET others == participants \ {i}
        numerator == ProductOver(others, [j \in others |-> Neg(AddressToFr(j))])
        denominator == ProductOver(others,
            [j \in others |-> AddPoints(AddressToFr(i), Neg(AddressToFr(j)))])
    IN  ScalarMul(FieldInverse(denominator), numerator)

LagrangeCoefficients == [participants \in SUBSET Operators |->
    [i \in participants |-> ComputeLagrangeCoefficient(i, participants)]]

Interpolate(values) ==
    SumOver(DOMAIN values,
            [i \in DOMAIN values |->
                ScalarMul(LagrangeCoefficients[DOMAIN values][i], values[i])])

(* 0 stands for the error "secret cannot be zero".                         *)
RecoverSecret(shares) == Interpolate(shares)

-----------------------------------------------------------------------------
(* Key versions: what FinalizeKeyShare and ComputeNewKeyShare build from   *)
(* the shares an operator holds, a function of the dealers.                *)

(* Of a DKG: the sum of the shares, and the sum of the commitments of the  *)
(* expected length; its constant term is the master public key.            *)
FinalizeKeyShare(shares, allCommitments, threshold) ==
    LET counted == {d \in DOMAIN allCommitments : Len(allCommitments[d]) = threshold}
    IN  [share |-> SumOver(DOMAIN shares, shares),
         commitments |-> [k \in 1..threshold |->
             SumOver(counted, [d \in counted |-> allCommitments[d][k]])]]

UnscaledCommitment(operator, shares) ==
    [share |-> Interpolate(shares), commitments |-> <<Interpolate(shares)>>]

(* Of a reshare: the interpolation of the shares, and a single commitment  *)
(* to it, scaled so that the sum over the dealers is the key.              *)
ComputeNewKeyShare(operator, shares) ==
    LET newShare == Interpolate(shares)
    IN  [share |-> newShare,
         commitments |->
            <<ScalarMul(newShare, ComputeLagrangeCoefficient(operator, DOMAIN shares))>>]

GenerateNewShares(currentShare, coefficients) ==
    GeneratePolynomial(currentShare, coefficients)

(* The key that the dealers' commitments imply is the one carried forward. *)
ValidateReshareMasterPublicKey(commitments, mpk) ==
    Interpolate([d \in DOMAIN commitments |-> commitments[d][1]]) = mpk

(* Of a set of operators' answers; 0 stands for the zero-key error.        *)
ComputeMasterPublicKey(commitments) ==
    SumOver(DOMAIN commitments, [d \in DOMAIN commitments |-> commitments[d][1]])

-----------------------------------------------------------------------------
(* Partial signatures and the application's key.                           *)

signAppIDWithVersion(share) == ScalarMul(AppHash, share)

FirstOf(threshold, S) ==
    {op \in S : Cardinality({p \in S : p < op}) < threshold}

(* Interpolates the first threshold signatures, in the order of addresses. *)
(* 0 stands for an error: too few, or a key that is the zero point.        *)
RecoverAppPrivateKey(sigs, threshold) ==
    IF Cardinality(DOMAIN sigs) < threshold
    THEN 0
    ELSE Interpolate([op \in FirstOf(threshold, DOMAIN sigs) |-> sigs[op]])

(* The lexicographic order in which index tuples are enumerated: at the    *)
(* smallest operator that only one of them has, it is the earlier one's.   *)
Before(c, d) == c # d /\ Min((c \ d) \cup (d \ c)) \in c

DefaultMaxRecoveryAttempts == 1000

Attempted(sigs, threshold) ==
    LET combinations == kSubset(threshold, DOMAIN sigs)
    IN  {c \in combinations :
            Cardinality({d \in combinations : Before(d, c)}) < DefaultMaxRecoveryAttempts}

FirstCombinationOnly(sigs, threshold) ==
    IF Cardinality(DOMAIN sigs) < threshold
    THEN {} ELSE {RecoverAppPrivateKey(sigs, threshold)} \ {0}

(* The keys of the combinations tried, those that are no error; the caller *)
(* takes the first that its check accepts.                                 *)
RecoverAppPrivateKeyWithRetry(sigs, threshold) ==
    {RecoverAppPrivateKey([op \in c |-> sigs[op]], threshold) :
        c \in Attempted(sigs, threshold)} \ {0}

UnverifiedAppPrivateKey(appPrivateKey, mpk) == TRUE

(* The pairings e(key, G2) and e(H(app), mpk) are equal.                   *)
VerifyAppPrivateKey(appPrivateKey, mpk) ==
    ScalarMul(appPrivateKey, 1) = ScalarMul(AppHash, mpk)

-----------------------------------------------------------------------------
(* Identity-based encryption. The symmetric key is derived from the        *)
(* pairing value; GCM opens what was sealed under the same key and the     *)
(* same additional data, and nothing else.                                 *)

buildAAD(c1) == [app |-> AppHash, c1 |-> c1]
deriveKeyMaterial(gID) == [gID |-> gID, app |-> AppHash]

(* The zero key and the zero randomness are refused before they get here.  *)
EncryptForApp(mpk, plaintext, r) ==
    LET c1 == ScalarMul(1, r)
    IN  [c1 |-> c1, aad |-> buildAAD(c1), plaintext |-> plaintext,
         key |-> deriveKeyMaterial(ScalarMul(ScalarMul(AppHash, mpk), r))]

ValidateCiphertextFormat(ciphertext) ==
    DOMAIN ciphertext = {"c1", "aad", "plaintext", "key"}

(* Whether the key opens the ciphertext.                                   *)
DecryptForApp(appPrivateKey, ciphertext) ==
    /\ ValidateCiphertextFormat(ciphertext)
    /\ appPrivateKey # 0 /\ ciphertext.c1 # 0
    /\ deriveKeyMaterial(ScalarMul(appPrivateKey, ciphertext.c1)) = ciphertext.key
    /\ buildAAD(ciphertext.c1) = ciphertext.aad
=============================================================================

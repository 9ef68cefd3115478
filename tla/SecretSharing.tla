--------------------------- MODULE SecretSharing ---------------------------
(***************************************************************************)
(* The key material the rounds produce: a DKG among the founders, then     *)
(* reshares among all operators, which the others join, with the real      *)
(* arithmetic of ThresholdCrypto. ReshareRound and DKGRound model how the  *)
(* operators come to a dealer set and treat a key as sound when they came  *)
(* to the same one; here every operator may finalize on ANY dealer set its *)
(* round admits, and what the shares then reconstruct is computed.         *)
(*                                                                         *)
(* The finalizations of one round read only the deals and the operator's   *)
(* own key (a joining one also its peers' master public keys, which a      *)
(* reshare never changes), so they commute and are taken in one order.     *)
(***************************************************************************)
EXTENDS ThresholdCrypto

CONSTANTS
    Founders,      \* the operators of the DKG; the others join by reshare
    FaultyDealers, \* operators that may deal a constant term of their choice
    Constants,     \* constant terms chosen by founders and faulty dealers
    Coefficients,  \* choices of the random coefficients, per operator
    MaxVersion,    \* rounds modelled
    NoKey          \* nil

ASSUME SharingAssumption ==
    /\ Founders \subseteq Operators /\ Founders # {} /\ FaultyDealers \subseteq Operators
    /\ Constants \subseteq Fr /\ MaxVersion \in Nat /\ NoKey \notin Fr
    /\ \A b \in Coefficients : b \in [Operators -> Seq(Fr)]
    /\ \A b \in Coefficients, op \in Operators :
          Len(b[op]) >= CalculateThreshold(NumOperators) - 1

VARIABLES
    version,   \* of the latest round, 0 before the DKG
    deals,     \* its dealers' polynomials
    source,    \* the version each of its dealers dealt from
    pending,   \* the operators that have not finished it
    active     \* each operator's active key, or NoKey

sharingVars == <<version, deals, source, pending, active>>

Members(v) == IF v = 1 THEN Founders ELSE Operators
ThresholdOf(v) == CalculateThreshold(Cardinality(Members(v)))

Key(v, dealers, joined, share, commitments, mpk) ==
    [version |-> v, dealers |-> dealers, joined |-> joined, share |-> share,
     commitments |-> commitments, mpk |-> mpk]

SharingInit ==
    /\ version = 0 /\ deals = <<>> /\ source = <<>> /\ pending = {}
    /\ active = [op \in Operators |-> NoKey]

-----------------------------------------------------------------------------
(* The commitments an operator holds for the dealers D, and the shares it  *)
(* may have from them: a dealer can send anything, and what fails the      *)
(* check against the dealer's commitments is dropped or fetched again.     *)
CommitmentsOf(D) == [d \in D |-> CreateCommitments(deals[d])]

AcceptedShares(op, D) ==
    {shares \in [D -> Fr] :
        \A d \in D : VerifyShare(op, shares[d], CommitmentsOf(D)[d])}

StartDKG ==
    /\ version = 0
    /\ version' = 1 /\ pending' = Founders
    /\ \E constants \in [Founders -> Constants], b \in Coefficients :
          deals' = [d \in Founders |->
             GeneratePolynomial(constants[d], SubSeq(b[d], 1, ThresholdOf(1) - 1))]
    /\ source' = [d \in Founders |-> 0]
    /\ UNCHANGED active

(* An operator trusts its own deal, and each one it verified in time.      *)
FinalizeDKG(op, D) ==
    /\ version = 1 /\ op \in D /\ D \subseteq DOMAIN deals
    /\ Cardinality(D) >= ThresholdOf(1)
    /\ \E shares \in AcceptedShares(op, D) :
          LET key == FinalizeKeyShare(shares, CommitmentsOf(D), ThresholdOf(1))
          IN  active' = [active EXCEPT ![op] =
                 Key(1, D, FALSE, key.share, CreateCommitments(deals[op]), key.commitments[1])]

(* Every operator with a key deals from the share of its active version.   *)
StartReshare ==
    /\ version \in 1..(MaxVersion - 1) /\ pending = {}
    /\ LET dealers == {op \in Operators : active[op] # NoKey}
       IN  \E b \in Coefficients, chosen \in [dealers \cap FaultyDealers -> Constants] :
              /\ deals' = [d \in dealers |-> GenerateNewShares(
                    IF d \in FaultyDealers THEN chosen[d] ELSE active[d].share,
                    SubSeq(b[d], 1, ThresholdOf(version + 1) - 1))]
              /\ source' = [d \in dealers |-> active[d].version]
    /\ version' = version + 1 /\ pending' = Operators
    /\ UNCHANGED active

(* The dealer sets SelectMajoritySourceVersion can leave.                  *)
AgreedDealers(D) ==
    /\ D \subseteq DOMAIN deals
    /\ Cardinality(D) >= ThresholdOf(version)
    /\ \A d, e \in D : source[d] = source[e]

UnvalidatedKey(D, mpk) == mpk # NoKey

ValidatedKey(D, mpk) ==
    mpk # NoKey /\ ValidateReshareMasterPublicKey(CommitmentsOf(D), mpk)

FinalizeReshare(op, D) ==
    /\ version > 1 /\ active[op] # NoKey /\ AgreedDealers(D)
    /\ ValidatedKey(D, active[op].mpk)
    /\ \E shares \in AcceptedShares(op, D) :
          LET key == ComputeNewKeyShare(op, shares)
          IN  active' = [active EXCEPT ![op] =
                 Key(version, D, FALSE, key.share, key.commitments, active[op].mpk)]

(* The key that a threshold of all operators' worth of peers serve.        *)
fetchMPKFromPeers(op, answering) ==
    LET votes(mpk) == {p \in answering \ {op} : active[p] # NoKey /\ active[p].mpk = mpk}
        agreed == {mpk \in Fr : Cardinality(votes(mpk)) >= ThresholdOf(version)}
    IN  IF agreed = {} THEN NoKey ELSE CHOOSE mpk \in agreed : TRUE

(* A joining operator checks the dealers' versions but no public key, and  *)
(* keeps the share even when it could not learn the master public key.     *)
JoinReshare(op, D, answering) ==
    /\ version > 1 /\ active[op] = NoKey /\ AgreedDealers(D)
    /\ \E shares \in AcceptedShares(op, D) :
          LET key == ComputeNewKeyShare(op, shares)
          IN  active' = [active EXCEPT ![op] =
                 Key(version, D, TRUE, key.share, key.commitments,
                     fetchMPKFromPeers(op, answering))]

(* Timeouts, a missing dealer and every other abort.                       *)
Abort(op) == UNCHANGED active

FinishRound ==
    /\ pending # {}
    /\ LET op == Min(pending)
       IN  /\ \/ \E D \in SUBSET DOMAIN deals : FinalizeDKG(op, D) \/ FinalizeReshare(op, D)
              \/ \E D \in SUBSET DOMAIN deals, answering \in SUBSET Operators :
                    JoinReshare(op, D, answering)
              \/ Abort(op)
           /\ pending' = pending \ {op}
    /\ UNCHANGED <<version, deals, source>>

SharingNext == StartDKG \/ StartReshare \/ FinishRound

SharingSpec == SharingInit /\ [][SharingNext]_sharingVars

-----------------------------------------------------------------------------
Holders(v, D) ==
    {op \in Operators : active[op] # NoKey /\ active[op].version = v /\ active[op].dealers = D}

Groups == {<<active[op].version, active[op].dealers>> :
              op \in {p \in Operators : active[p] # NoKey}}

(* Whatever dealer set an operator finalized a version on (FinalizeKeyShare,
   ComputeNewKeyShare), every threshold of operators that finalized the same
   version on the same set reconstructs exactly the secret of the master public
   key they serve, although a dealer may have dealt a constant that is not its
   share and dealers of the same version may hold shares of different
   polynomials; a joining operator, which checks nothing, is in the same
   position as soon as one operator of its group has validated.             *)
GroupsReconstructTheKey ==
    \A g \in Groups :
        \A G \in kSubset(ThresholdOf(g[1]), Holders(g[1], g[2])) :
            \A op \in G :
                ~active[op].joined =>
                    RecoverSecret([p \in G |-> active[p].share]) = active[op].mpk

(* The commitments /pubkey serves add up to the master public key when the
   answers are those of exactly the dealers of the version (node.go keeps its own
   DKG commitments, ComputeNewKeyShare scales by its own coefficient), provided
   one of them validated: the condition under which the client's aggregation
   fallback is right.                                                       *)
PublishedSumIsTheKey ==
    \A g \in Groups :
        LET D == g[2]
        IN  D \subseteq Holders(g[1], D) =>
                \A op \in D : ~active[op].joined =>
                    ComputeMasterPublicKey([d \in D |-> active[d].commitments]) = active[op].mpk
=============================================================================

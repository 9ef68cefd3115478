--------------------------- MODULE DKGRoundProofs ---------------------------
(***************************************************************************)
(* Proofs about the genesis round, for every operator set, every set of    *)
(* faulty dealers and whatever they deal.                                  *)
(*                                                                         *)
(* The properties follow from the inductive invariant DKGInv:              *)
(*  - DealInv: the session holds of a correct dealer what it dealt;        *)
(*  - ValidInv: a share found valid lies on the commitments held, and the  *)
(*    operator's own share is valid;                                       *)
(*  - AckInv: acknowledgements, broadcasts and verifications of a correct  *)
(*    dealer only come from and go to operators that hold a valid share;   *)
(*  - HeldInv: a dealer that submitted, and one whose broadcast was        *)
(*    verified, has its contribution held by a threshold of the others;    *)
(*  - KeyInv: what the installed keys are made of.                         *)
(***************************************************************************)
EXTENDS DKGRound, FiniteSetTheorems, TLAPS

DealInv ==
    \A n, d \in Operators :
        /\ phase[n] = "idle" => deals[n] = None
        /\ deals[n] # None => deals[n] \in WellFormed
        /\ phase[n] \in InSession =>
               /\ deals[n] # None
               /\ commitments[n][n] = deals[n]
               /\ shares[n][n] = deals[n]
        /\ d \notin Faulty => commitments[n][d] \in {None, deals[d]}

ValidInv ==
    \A n \in Operators :
        /\ phase[n] \in {"idle", "collecting"} => validShares[n] = {}
        /\ phase[n] \in {"acking", "verifying"} =>
               /\ n \in validShares[n]
               /\ \A d \in validShares[n] :
                      /\ commitments[n][d] # None
                      /\ shares[n][d] = commitments[n][d]

AckInv ==
    \A n, d \in Operators :
        /\ n \in acks[d] => n # d /\ d \in validShares[n]
        /\ n \in broadcasts[d] => d \in validShares[n]
        /\ d \in verifiedOperators[n] =>
               /\ d # n
               /\ d \notin Faulty => d \in validShares[n]

(* The operators other than d that hold a valid share of d's.              *)
Holders(d) == {m \in Operators \ {d} : d \in validShares[m]}

Held(d) == Cardinality(Holders(d)) >= Smaller(threshold, N - 1)

HeldInv ==
    \A n, d \in Operators :
        /\ phase[d] \in {"verifying", "done"} => Held(d)
        /\ broadcasts[d] # {} => Held(d)
        /\ d \in verifiedOperators[n] \ Faulty => Held(d)
        /\ Installed(n) =>
               \A t \in privateShare[n] : t[1] \notin Faulty => Held(t[1])

KeyInv ==
    \A n \in Operators : Installed(n) =>
        /\ mpk[n] \subseteq privateShare[n]
        /\ \A t \in privateShare[n] \ mpk[n] :
               t[1] \in Faulty /\ t[2] \notin WellFormed
        /\ complete[n] =>
               \A d \in Operators \ Faulty :
                   /\ deals[d] # None
                   /\ \A p \in Polynomials :
                          <<d, p>> \in mpk[n] <=> p = deals[d]

DKGInv == TypeOK /\ DealInv /\ ValidInv /\ AckInv /\ HeldInv /\ KeyInv

-----------------------------------------------------------------------------
(* The counts compared in Held and in waitForAcks are numbers.             *)
LEMMA Counts ==
    /\ N \in Nat \ {0}
    /\ threshold \in Nat
    /\ Smaller(threshold, N - 1) \in Nat
  <1>1. N \in Nat \ {0}
    BY OperatorsAssumption, FS_CardinalityType, FS_EmptySet DEF N
  <1>2. threshold \in Nat \ {0}
    BY <1>1 DEF threshold, CalculateThreshold
  <1> QED
    BY <1>1, <1>2 DEF Smaller

(* The holders of a contribution are finitely many operators.              *)
LEMMA HoldersFinite ==
    ASSUME NEW d \in Operators
    PROVE  /\ IsFiniteSet(Holders(d))
           /\ Cardinality(Holders(d)) \in Nat
           /\ Holders(d) \subseteq Operators
  <1>1. Holders(d) \subseteq Operators
    BY DEF Holders
  <1> QED
    BY <1>1, OperatorsAssumption, FS_Subset, FS_CardinalityType

(* A contribution that is held stays held while validShares grows.         *)
LEMMA HeldMonotonic ==
    ASSUME NEW d \in Operators, Held(d),
           \A m \in Operators : validShares[m] \subseteq validShares'[m]
    PROVE  Held(d)'
  <1>1. Holders(d) \subseteq Holders(d)'
    BY DEF Holders
  <1>2. Holders(d)' \subseteq Operators
    BY DEF Holders
  <1>3. IsFiniteSet(Holders(d)')
    BY <1>2, OperatorsAssumption, FS_Subset
  <1>4. /\ Cardinality(Holders(d)) \in Nat
        /\ Cardinality(Holders(d)') \in Nat
    BY <1>3, HoldersFinite, FS_CardinalityType
  <1>5. Cardinality(Holders(d)) <= Cardinality(Holders(d)')
    BY <1>1, <1>3, FS_Subset
  <1>6. Cardinality(Holders(d)') >= Smaller(threshold, N - 1)
    BY <1>4, <1>5, Counts DEF Held
  <1> QED
    BY <1>6 DEF Held

(* A step that leaves validShares alone leaves Held alone.                 *)
LEMMA HeldUnchanged ==
    ASSUME UNCHANGED validShares, NEW d \in Operators
    PROVE  Held(d)' = Held(d)
  <1>1. Holders(d)' = Holders(d)
    BY DEF Holders
  <1> QED
    BY <1>1 DEF Held

(* Enough acknowledgements show that the contribution is held.             *)
LEMMA AcknowledgedIsHeld ==
    ASSUME TypeOK, AckInv, NEW d \in Operators, waitForAcks(d)
    PROVE  Held(d)
  <1>1. acks[d] \subseteq Holders(d)
    BY DEF TypeOK, AckInv, Holders
  <1>2. Cardinality(acks[d]) <= Cardinality(Holders(d))
    BY <1>1, HoldersFinite, FS_Subset
  <1>3. Cardinality(acks[d]) \in Nat
    BY <1>1, HoldersFinite, FS_Subset, FS_CardinalityType
  <1> QED
    BY <1>2, <1>3, HoldersFinite, Counts DEF Held, waitForAcks

(* The terms of a private share name operators.                            *)
LEMMA TermsOfOperators ==
    ASSUME TypeOK, NEW n \in Operators, NEW t \in privateShare[n]
    PROVE  t[1] \in Operators
  BY DEF TypeOK, Terms

(* Initially nothing is dealt, held or installed.                          *)
LEMMA InitDKGInv == Init => DKGInv
  <1> SUFFICES ASSUME Init PROVE DKGInv
    OBVIOUS
  <1> USE DEF Init, NoEntries, Nobody
  <1>1. TypeOK
    BY DEF TypeOK, Phases, Entry
  <1>2. DealInv
    BY DEF DealInv, InSession
  <1>3. ValidInv /\ AckInv
    BY DEF ValidInv, AckInv
  <1>4. HeldInv
    BY DEF HeldInv, Installed
  <1>5. KeyInv
    BY DEF KeyInv, Installed
  <1> QED
    BY <1>1, <1>2, <1>3, <1>4, <1>5 DEF DKGInv

-----------------------------------------------------------------------------
(* StartDKG preserves DKGInv: the operator is idle, so nobody has anything *)
(* of it yet.                                                              *)
LEMMA StartDKGInv ==
    ASSUME DKGInv, NEW n \in Operators, StartDKG(n)
    PROVE  DKGInv'
  <1> USE DEF DKGInv
  <1>1. PICK p \in WellFormed :
          /\ deals' = [deals EXCEPT ![n] = p]
          /\ commitments' = [commitments EXCEPT ![n][n] = p]
          /\ shares' = [shares EXCEPT ![n][n] = p]
    BY DEF StartDKG
  <1>2. p \in Polynomials /\ p # None
    BY PolynomialsAssumption
  <1>3. TypeOK'
    BY <1>1, <1>2 DEF StartDKG, TypeOK, Become, Phases, Entry, key
  <1>4. DealInv'
    BY <1>1, <1>2 DEF StartDKG, TypeOK, DealInv, Become, InSession
  <1>5. ValidInv'
    BY <1>1 DEF StartDKG, TypeOK, ValidInv, Become
  <1>6. AckInv'
    BY DEF StartDKG, TypeOK, AckInv
  <1>7. HeldInv'
    <2>1. \A o \in Operators : Held(o)' = Held(o)
      BY HeldUnchanged DEF StartDKG
    <2> QED
      BY <2>1, TermsOfOperators
         DEF StartDKG, TypeOK, HeldInv, Become, Installed, key
  <1>8. KeyInv'
    BY <1>1, <1>2 DEF StartDKG, TypeOK, KeyInv, DealInv, Become, Installed, key
  <1> QED
    BY <1>3, <1>4, <1>5, <1>6, <1>7, <1>8

(* What a dealer sends is a polynomial; a correct one sends what it dealt. *)
LEMMA SentDealsType ==
    ASSUME DKGInv, NEW d \in Operators, deals[d] # None
    PROVE  /\ SentDeals(d) \subseteq Polynomials
           /\ d \notin Faulty => SentDeals(d) = {deals[d]}
  BY PolynomialsAssumption DEF SentDeals, DKGInv, TypeOK, Entry

(* handleDKGCommitment preserves DKGInv: it only fills an empty entry.     *)
LEMMA HandleCommitmentInv ==
    ASSUME DKGInv, NEW n \in Operators, NEW d \in Operators,
           handleDKGCommitment(n, d)
    PROVE  DKGInv'
  <1> USE DEF DKGInv
  <1>1. PICK p \in SentDeals(d) :
          commitments' = [commitments EXCEPT ![n][d] = p]
    BY DEF handleDKGCommitment
  <1>2. p \in Polynomials /\ (d \notin Faulty => p = deals[d])
    BY SentDealsType DEF handleDKGCommitment
  <1>3. TypeOK'
    BY <1>1, <1>2 DEF handleDKGCommitment, TypeOK, Entry, key
  <1>4. DealInv'
    BY <1>1, <1>2 DEF handleDKGCommitment, TypeOK, DealInv, InSession
  <1>5. ValidInv'
    BY <1>1 DEF handleDKGCommitment, TypeOK, ValidInv, InSession
  <1>6. AckInv'
    BY DEF handleDKGCommitment, AckInv
  <1>7. HeldInv'
    <2>1. \A o \in Operators : Held(o)' = Held(o)
      BY HeldUnchanged DEF handleDKGCommitment
    <2> QED
      BY <2>1, TermsOfOperators
         DEF handleDKGCommitment, HeldInv, Installed, key
  <1>8. KeyInv'
    BY DEF handleDKGCommitment, KeyInv, Installed, key
  <1> QED
    BY <1>3, <1>4, <1>5, <1>6, <1>7, <1>8

(* handleDKGShare preserves DKGInv: it only fills an empty entry.          *)
LEMMA HandleShareInv ==
    ASSUME DKGInv, NEW n \in Operators, NEW d \in Operators,
           handleDKGShare(n, d)
    PROVE  DKGInv'
  <1> USE DEF DKGInv
  <1>1. PICK p \in SentDeals(d) : shares' = [shares EXCEPT ![n][d] = p]
    BY DEF handleDKGShare
  <1>2. p \in Polynomials
    BY SentDealsType DEF handleDKGShare
  <1>3. TypeOK'
    BY <1>1, <1>2 DEF handleDKGShare, TypeOK, Entry, key
  <1>4. DealInv'
    BY <1>1 DEF handleDKGShare, TypeOK, DealInv, InSession
  <1>5. ValidInv'
    BY <1>1 DEF handleDKGShare, TypeOK, ValidInv, InSession
  <1>6. AckInv'
    BY DEF handleDKGShare, AckInv
  <1>7. HeldInv'
    <2>1. \A o \in Operators : Held(o)' = Held(o)
      BY HeldUnchanged DEF handleDKGShare
    <2> QED
      BY <2>1, TermsOfOperators DEF handleDKGShare, HeldInv, Installed, key
  <1>8. KeyInv'
    BY DEF handleDKGShare, KeyInv, Installed, key
  <1> QED
    BY <1>3, <1>4, <1>5, <1>6, <1>7, <1>8

(* VerifyAndAcknowledge preserves DKGInv: validShares grows, from nothing, *)
(* by the shares that lie on the commitments held.                         *)
LEMMA VerifyAndAcknowledgeInv ==
    ASSUME DKGInv, NEW n \in Operators, VerifyAndAcknowledge(n)
    PROVE  DKGInv'
  <1> USE DEF DKGInv
  <1> DEFINE V == {d \in Operators :
                      VerifyShare(shares[n][d], commitments[n][d])}
  <1>1. /\ validShares' = [validShares EXCEPT ![n] = V]
        /\ validShares[n] = {}
        /\ V \subseteq Operators
    BY DEF VerifyAndAcknowledge, ValidInv
  <1>2. \A m \in Operators : validShares[m] \subseteq validShares'[m]
    BY <1>1 DEF TypeOK
  <1>3. TypeOK'
    BY <1>1 DEF VerifyAndAcknowledge, TypeOK, Become, Phases, inbox, key
  <1>4. DealInv'
    BY DEF VerifyAndAcknowledge, TypeOK, DealInv, Become, InSession, inbox
  <1>5. ValidInv'
    <2>1. n \in V
      BY DEF VerifyAndAcknowledge, DealInv, InSession, VerifyShare
    <2>2. \A d \in V : /\ commitments[n][d] # None
                       /\ shares[n][d] = commitments[n][d]
      BY DEF VerifyShare
    <2> HIDE DEF V
    <2> QED
      BY <1>1, <2>1, <2>2
         DEF VerifyAndAcknowledge, TypeOK, ValidInv, Become, inbox
  <1>6. AckInv'
    BY <1>2 DEF VerifyAndAcknowledge, AckInv, inbox
  <1>7. HeldInv'
    <2>1. \A o \in Operators : Held(o) => Held(o)'
      BY <1>2, HeldMonotonic
    <2> QED
      BY <2>1, TermsOfOperators
         DEF VerifyAndAcknowledge, TypeOK, HeldInv, Become, Installed, inbox,
             key
  <1>8. KeyInv'
    BY DEF VerifyAndAcknowledge, TypeOK, KeyInv, Become, Installed, key
  <1> QED
    BY <1>3, <1>4, <1>5, <1>6, <1>7, <1>8

(* handleDKGAck preserves DKGInv: only a holder's acknowledgement counts.  *)
LEMMA HandleAckInv ==
    ASSUME DKGInv, NEW d \in Operators, NEW n \in Operators,
           handleDKGAck(d, n)
    PROVE  DKGInv'
  <1> USE DEF DKGInv
  <1>1. TypeOK'
    BY DEF handleDKGAck, TypeOK, key
  <1>2. DealInv'
    BY DEF handleDKGAck, DealInv
  <1>3. ValidInv'
    BY DEF handleDKGAck, ValidInv
  <1>4. AckInv'
    BY DEF handleDKGAck, TypeOK, AckInv
  <1>5. HeldInv'
    <2>1. \A o \in Operators : Held(o)' = Held(o)
      BY HeldUnchanged DEF handleDKGAck
    <2> QED
      BY <2>1, TermsOfOperators DEF handleDKGAck, HeldInv, Installed, key
  <1>6. KeyInv'
    BY DEF handleDKGAck, KeyInv, Installed, key
  <1> QED
    BY <1>1, <1>2, <1>3, <1>4, <1>5, <1>6

(* SubmitCommitment preserves DKGInv: the acknowledgements that let it     *)
(* submit show that the contribution is held.                              *)
LEMMA SubmitCommitmentInv ==
    ASSUME DKGInv, NEW n \in Operators, SubmitCommitment(n)
    PROVE  DKGInv'
  <1> USE DEF DKGInv
  <1>1. ProofRecipients(n) \subseteq acks[n]
    BY DEF ProofRecipients
  <1> HIDE DEF ProofRecipients
  <1>2. Held(n)
    BY AcknowledgedIsHeld DEF SubmitCommitment
  <1>3. TypeOK'
    BY <1>1 DEF SubmitCommitment, TypeOK, Become, Phases, key
  <1>4. DealInv'
    BY DEF SubmitCommitment, TypeOK, DealInv, Become, InSession
  <1>5. ValidInv'
    BY DEF SubmitCommitment, TypeOK, ValidInv, Become
  <1>6. AckInv'
    BY <1>1 DEF SubmitCommitment, TypeOK, AckInv
  <1>7. HeldInv'
    <2>1. \A o \in Operators : Held(o)' = Held(o)
      BY HeldUnchanged DEF SubmitCommitment
    <2> QED
      BY <1>2, <2>1, TermsOfOperators
         DEF SubmitCommitment, TypeOK, HeldInv, Become, Installed, key
  <1>8. KeyInv'
    BY DEF SubmitCommitment, TypeOK, KeyInv, Become, Installed, key
  <1> QED
    BY <1>3, <1>4, <1>5, <1>6, <1>7, <1>8

(* handleCommitmentBroadcast preserves DKGInv: a correct dealer addresses  *)
(* its broadcast to holders, once its contribution is held.                *)
LEMMA HandleBroadcastInv ==
    ASSUME DKGInv, NEW n \in Operators, NEW d \in Operators,
           handleCommitmentBroadcast(n, d)
    PROVE  DKGInv'
  <1> USE DEF DKGInv
  <1>1. d \notin Faulty => n \in broadcasts[d]
    BY DEF handleCommitmentBroadcast, VerifyOperatorBroadcast
  <1>2. d \notin Faulty => d \in validShares[n] /\ Held(d)
    BY <1>1 DEF AckInv, HeldInv
  <1>3. TypeOK'
    BY DEF handleCommitmentBroadcast, TypeOK, key
  <1>4. DealInv'
    BY DEF handleCommitmentBroadcast, DealInv
  <1>5. ValidInv'
    BY DEF handleCommitmentBroadcast, ValidInv
  <1>6. AckInv'
    BY <1>2 DEF handleCommitmentBroadcast, TypeOK, AckInv
  <1>7. HeldInv'
    <2>1. \A o \in Operators : Held(o)' = Held(o)
      BY HeldUnchanged DEF handleCommitmentBroadcast
    <2> QED
      BY <1>2, <2>1, TermsOfOperators
         DEF handleCommitmentBroadcast, TypeOK, HeldInv, Installed, key
  <1>8. KeyInv'
    BY DEF handleCommitmentBroadcast, KeyInv, Installed, key
  <1> QED
    BY <1>3, <1>4, <1>5, <1>6, <1>7, <1>8

(* The operator that verified as many broadcasts as there are others has   *)
(* verified all of them: it never counts its own.                          *)
LEMMA AllVerified ==
    ASSUME TypeOK, AckInv, NEW n \in Operators,
           Cardinality(verifiedOperators[n]) >= N - 1
    PROVE  verifiedOperators[n] = Operators \ {n}
  <1>1. verifiedOperators[n] \subseteq Operators \ {n}
    BY DEF TypeOK, AckInv
  <1>2. /\ IsFiniteSet(Operators \ {n})
        /\ Cardinality(Operators \ {n}) = N - 1
    BY OperatorsAssumption, FS_RemoveElement DEF N
  <1>3. /\ Cardinality(verifiedOperators[n]) \in Nat
        /\ Cardinality(verifiedOperators[n]) <= N - 1
    BY <1>1, <1>2, FS_Subset, FS_CardinalityType
  <1>4. Cardinality(verifiedOperators[n]) = Cardinality(Operators \ {n})
    BY <1>2, <1>3, Counts
  <1> QED
    BY <1>1, <1>2, <1>4, FS_Subset

(* FinalizeDKG preserves DKGInv: the terms of the key are the trusted      *)
(* dealers with the polynomial both share and commitments lie on.          *)
LEMMA FinalizeDKGInv ==
    ASSUME DKGInv, NEW n \in Operators, FinalizeDKG(n)
    PROVE  DKGInv'
  <1> USE DEF DKGInv
  <1> DEFINE T == trustedDealerIDs(n)
             S == {<<d, shares[n][d]>> : d \in T}
             K == {<<d, commitments[n][d]>> :
                      d \in {t \in T : commitments[n][t] \in WellFormed}}
  <1>1. /\ privateShare' = [privateShare EXCEPT ![n] = S]
        /\ mpk' = [mpk EXCEPT ![n] = K]
    BY DEF FinalizeDKG, FinalizeKeyShare
  <1>2. \A d \in T :
          /\ d \in Operators
          /\ d \in validShares[n]
          /\ d = n \/ d \in verifiedOperators[n]
          /\ commitments[n][d] \in Polynomials
          /\ shares[n][d] = commitments[n][d]
    BY DEF FinalizeDKG, trustedDealerIDs, TypeOK, ValidInv, Entry
  <1>3. \A d \in T \ Faulty :
          /\ commitments[n][d] = deals[d]
          /\ deals[d] # None
          /\ deals[d] \in WellFormed
    BY <1>2, PolynomialsAssumption DEF DealInv
  <1>4. Cardinality(verifiedOperators[n]) >= N - 1
          => Operators \ Faulty \subseteq T
    <2> SUFFICES ASSUME Cardinality(verifiedOperators[n]) >= N - 1,
                        NEW d \in Operators \ Faulty
                 PROVE  d \in T
      OBVIOUS
    <2>1. d = n \/ d \in verifiedOperators[n]
      BY AllVerified
    <2>2. d \in validShares[n]
      BY <2>1 DEF FinalizeDKG, ValidInv, AckInv
    <2> QED
      BY <2>1, <2>2 DEF trustedDealerIDs
  <1> HIDE DEF T
  <1>5. S \subseteq Terms /\ K \subseteq Terms /\ K \subseteq S
    BY <1>2 DEF Terms
  <1>6. \A t \in S \ K : t[1] \in Faulty /\ t[2] \notin WellFormed
    BY <1>2, <1>3
  <1>7. \A t \in S : t[1] \in T
    OBVIOUS
  <1>8. \A d \in T \ Faulty : \A p \in Polynomials :
          <<d, p>> \in K <=> p = deals[d]
    BY <1>2, <1>3
  <1> HIDE DEF S, K
  <1>9. TypeOK'
    BY <1>1, <1>5
       DEF FinalizeDKG, TypeOK, Become, cleanupSession, Phases, NoEntries, Entry
  <1>10. DealInv'
    BY DEF FinalizeDKG, TypeOK, DealInv, Become, cleanupSession, NoEntries,
           InSession
  <1>11. ValidInv'
    BY DEF FinalizeDKG, TypeOK, ValidInv, Become, cleanupSession
  <1>12. AckInv'
    BY DEF FinalizeDKG, TypeOK, AckInv, cleanupSession
  <1>13. HeldInv'
    <2>1. \A o \in Operators : Held(o)' = Held(o)
      BY HeldUnchanged DEF FinalizeDKG
    <2>2. \A d \in T \ Faulty : Held(d)
      BY <1>2 DEF FinalizeDKG, HeldInv
    <2>3. \A t \in S : t[1] \in Operators
      BY <1>2, <1>7
    <2> QED
      BY <1>1, <1>7, <2>1, <2>2, <2>3, TermsOfOperators
         DEF FinalizeDKG, TypeOK, HeldInv, Become, cleanupSession, Installed
  <1>14. KeyInv'
    <2> DEFINE Key(m) ==
          /\ mpk[m] \subseteq privateShare[m]
          /\ \A t \in privateShare[m] \ mpk[m] :
                 t[1] \in Faulty /\ t[2] \notin WellFormed
          /\ complete[m] =>
                 \A d \in Operators \ Faulty :
                     /\ deals[d] # None
                     /\ \A p \in Polynomials :
                            <<d, p>> \in mpk[m] <=> p = deals[d]
    <2>1. ASSUME NEW m \in Operators, m # n, Installed(m)'
          PROVE  Key(m)'
      <3>1. Key(m)
        BY <2>1 DEF FinalizeDKG, TypeOK, KeyInv, Become, Installed
      <3>2. /\ mpk'[m] = mpk[m] /\ privateShare'[m] = privateShare[m]
            /\ complete'[m] = complete[m] /\ deals' = deals
        BY <1>1, <2>1 DEF FinalizeDKG, TypeOK
      <3> QED
        BY <3>1, <3>2
    <2>2. Key(n)'
      <3>1. mpk'[n] = K /\ privateShare'[n] = S /\ deals' = deals
        BY <1>1 DEF FinalizeDKG, TypeOK
      <3>2. complete'[n] => Operators \ Faulty \subseteq T
        BY <1>4 DEF FinalizeDKG, TypeOK
      <3>3. mpk'[n] \subseteq privateShare'[n]
        BY <1>5, <3>1
      <3>4. \A t \in privateShare'[n] \ mpk'[n] :
              t[1] \in Faulty /\ t[2] \notin WellFormed
        BY <1>6, <3>1
      <3>5. ASSUME complete'[n], NEW d \in Operators \ Faulty
            PROVE  /\ deals'[d] # None
                   /\ \A p \in Polynomials :
                          <<d, p>> \in mpk'[n] <=> p = deals'[d]
        BY <1>3, <1>8, <3>1, <3>2, <3>5
      <3> QED
        BY <3>3, <3>4, <3>5
    <2> QED
      BY <2>1, <2>2 DEF KeyInv
  <1> QED
    BY <1>9, <1>10, <1>11, <1>12, <1>13, <1>14

(* Abort preserves DKGInv: the session is gone, what was dealt stays.      *)
LEMMA AbortInv ==
    ASSUME DKGInv, NEW n \in Operators, Abort(n)
    PROVE  DKGInv'
  <1> USE DEF DKGInv
  <1>1. TypeOK'
    BY DEF Abort, TypeOK, Become, cleanupSession, Phases, NoEntries, Entry, key
  <1>2. DealInv'
    BY DEF Abort, TypeOK, DealInv, Become, cleanupSession, NoEntries, InSession
  <1>3. ValidInv'
    BY DEF Abort, TypeOK, ValidInv, Become, cleanupSession
  <1>4. AckInv'
    BY DEF Abort, TypeOK, AckInv, cleanupSession
  <1>5. HeldInv'
    <2>1. \A o \in Operators : Held(o)' = Held(o)
      BY HeldUnchanged DEF Abort
    <2> QED
      BY <2>1, TermsOfOperators
         DEF Abort, TypeOK, HeldInv, Become, cleanupSession, Installed, key
  <1>6. KeyInv'
    BY DEF Abort, TypeOK, KeyInv, Become, Installed, key
  <1> QED
    BY <1>1, <1>2, <1>3, <1>4, <1>5, <1>6

-----------------------------------------------------------------------------
(* DKGInv is inductive: every step of the round and every stuttering step  *)
(* preserves it.                                                           *)
LEMMA StepDKGInv == DKGInv /\ [Next]_vars => DKGInv'
  <1> SUFFICES ASSUME DKGInv, [Next]_vars PROVE DKGInv'
    OBVIOUS
  <1>1. ASSUME NEW n \in Operators,
               \/ StartDKG(n) \/ VerifyAndAcknowledge(n)
               \/ SubmitCommitment(n) \/ FinalizeDKG(n) \/ Abort(n)
        PROVE  DKGInv'
    BY <1>1, StartDKGInv, VerifyAndAcknowledgeInv, SubmitCommitmentInv,
       FinalizeDKGInv, AbortInv
  <1>2. ASSUME NEW n \in Operators, NEW d \in Operators,
               \/ handleDKGCommitment(n, d) \/ handleDKGShare(n, d)
               \/ handleDKGAck(d, n) \/ handleCommitmentBroadcast(n, d)
        PROVE  DKGInv'
    BY <1>2, HandleCommitmentInv, HandleShareInv, HandleAckInv,
       HandleBroadcastInv
  <1>3. CASE UNCHANGED vars
    <2> USE <1>3 DEF vars, inbox, key, DKGInv
    <2>1. TypeOK' /\ DealInv' /\ ValidInv' /\ AckInv'
      BY DEF TypeOK, DealInv, ValidInv, AckInv
    <2>2. HeldInv'
      <3>1. \A o \in Operators : Held(o)' = Held(o)
        BY HeldUnchanged
      <3> QED
        BY <3>1, TermsOfOperators DEF HeldInv, Installed
    <2>3. KeyInv'
      BY DEF KeyInv, Installed
    <2> QED
      BY <2>1, <2>2, <2>3
  <1> QED
    BY <1>1, <1>2, <1>3 DEF Next

(* The round never leaves DKGInv.                                          *)
LEMMA DKGInvariant == Spec => []DKGInv
  BY InitDKGInv, StepDKGInv, PTL DEF Spec

(* Type correctness of the genesis round.                                  *)
THEOREM DKGTypeCorrect == Spec => []TypeOK
  <1>1. DKGInv => TypeOK
    BY DEF DKGInv
  <1> QED
    BY <1>1, DKGInvariant, PTL

(* RunDKG's operators that waited for every proof broadcast agree on every *)
(* correct dealer's contribution to the master public key.                 *)
THEOREM CompleteDKGAgrees == Spec => []CompleteKeysAgree
  <1>1. DKGInv => CompleteKeysAgree
    BY DEF DKGInv, KeyInv, CompleteKeysAgree
  <1> QED
    BY <1>1, DKGInvariant, PTL

(* The private share FinalizeKeyShare computes lies on the polynomial its  *)
(* master public key commits to, up to malformed commitments.              *)
THEOREM InstalledShareMatches == Spec => []ShareMatchesMPK
  <1>1. DKGInv => ShareMatchesMPK
    BY DEF DKGInv, KeyInv, ShareMatchesMPK
  <1> QED
    BY <1>1, DKGInvariant, PTL

(* The acknowledgements RunDKG waits for do their work: a correct dealer's *)
(* contribution to an installed key is held by a threshold of the others.  *)
THEOREM ContributionsAreHeld == Spec => []ContributionHeld
  <1>1. DKGInv => ContributionHeld
    BY DEF DKGInv, HeldInv, Held, Holders, ContributionHeld
  <1> QED
    BY <1>1, DKGInvariant, PTL
=============================================================================

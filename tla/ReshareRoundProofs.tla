-------------------------- MODULE ReshareRoundProofs ------------------------
(***************************************************************************)
(* Proofs about ReshareRound for every operator set, every assignment of   *)
(* active versions, every set of faulty dealers and whatever they deal.    *)
(***************************************************************************)
EXTENDS TimelyReshare, FiniteSetTheorems, WellFoundedInduction, TLAPS

(* The threshold of n operators is a number of operators among them, and   *)
(* more than half: CalculateThreshold's integer division rounds 2n/3 up.   *)
LEMMA ThresholdBounds ==
    ASSUME NEW n \in Nat \ {0}
    PROVE  /\ CalculateThreshold(n) \in Nat \ {0}
           /\ CalculateThreshold(n) <= n
           /\ 2 * CalculateThreshold(n) > n
           /\ 3 * CalculateThreshold(n) >= 2 * n
           /\ 3 * CalculateThreshold(n) <= 2 * n + 2
  BY DEF CalculateThreshold

(* Two sets of at least threshold operators have an operator in common,    *)
(* which is why two quorums of dealers cannot be disjoint.                 *)
THEOREM QuorumsIntersect ==
    ASSUME NEW S, IsFiniteSet(S), S # {},
           NEW P \in SUBSET S, NEW Q \in SUBSET S,
           Cardinality(P) >= CalculateThreshold(Cardinality(S)),
           Cardinality(Q) >= CalculateThreshold(Cardinality(S))
    PROVE  P \cap Q # {}
  <1>1. /\ Cardinality(S) \in Nat \ {0}
        /\ Cardinality(P) \in Nat
        /\ Cardinality(Q) \in Nat
    <2>1. IsFiniteSet(P) /\ IsFiniteSet(Q)
      BY FS_Subset
    <2> QED  BY <2>1, FS_CardinalityType, FS_EmptySet
  <1>2. CalculateThreshold(Cardinality(S)) \in Nat
    BY <1>1, ThresholdBounds
  <1>3. Cardinality(P) + Cardinality(Q) > Cardinality(S)
    BY <1>1, <1>2, ThresholdBounds
  <1> QED  BY <1>3, FS_MajoritiesIntersect

(* A quorum is not empty.                                                  *)
LEMMA QuorumNonempty ==
    ASSUME NEW S, IsFiniteSet(S), S # {},
           NEW P \in SUBSET S,
           Cardinality(P) >= CalculateThreshold(Cardinality(S))
    PROVE  P # {}
  BY QuorumsIntersect
-----------------------------------------------------------------------------
(* Only dealers wait for acknowledgements, and only an operator whose      *)
(* round is over holds the version the round creates: what the types of    *)
(* the submitted hashes and of the dealt versions rest on.                 *)
PhaseInv ==
    \A n \in Operators :
        /\ phase[n] = "acking" => IsDealer(n)
        /\ active[n] = SessionTimestamp => phase[n] = "done"

TypeInv == TypeOK /\ PhaseInv

USE DEF blamedVersion, unchangedKeys, unchangedDealing, unchangedInbox,
        unchangedChain, unchangedOutcome, cleanupSession, Become, IsDealer,
        Phases, Entry, NoEntries, HandleReceivedCommitment,
        HandleReceivedShare, HandleReceivedAck, VerifyOperatorBroadcast,
        Contributors, handleReshareShareRequest

(* The initial states satisfy TypeInv.                                     *)
LEMMA InitTypeInv == Init => TypeInv
  <1> SUFFICES ASSUME Init PROVE TypeInv
    OBVIOUS
  <1>1. active \in [Operators -> Versions \cup {0}]
    BY VersionsAssumption DEF Init
  <1>2. mpk \in [Operators -> BOOLEAN]
    BY Zenon DEF Init
  <1>3. PhaseInv
    BY <1>1, VersionsAssumption DEF Init, PhaseInv
  <1> QED
    BY <1>1, <1>2, <1>3 DEF Init, TypeInv, TypeOK, NoSelection

(* What a dealer puts on the wire or on chain is a deal or a deal's hash.  *)
LEMMA SentDealsType ==
    ASSUME TypeInv, NEW d \in Operators, IsDealer(d)
    PROVE  /\ SentDeals(d) \subseteq Deal
           /\ SubmittedHash(d) \subseteq Hash
  <1>1. SentDeals(d) \subseteq Deal
    BY OperatorsAssumption DEF SentDeals, TypeInv, TypeOK
  <1> QED
    BY <1>1 DEF SubmittedHash, HashReshareCommitment, Deal, Hash

(* StartExisting preserves TypeInv.                                        *)
LEMMA StartExistingTypeInv ==
    ASSUME TypeInv, NEW n \in Operators, StartExisting(n)
    PROVE  TypeInv'
  <1>1. active[n] \in Versions
    BY VersionsAssumption DEF StartExisting, TypeInv, TypeOK, PhaseInv
  <1>2. PICK p \in Polynomials :
            /\ deals' = [deals EXCEPT ![n] = [poly |-> p, ver |-> active[n]]]
            /\ commitments' = [commitments EXCEPT ![n][n] = deals'[n]]
            /\ shares' = [shares EXCEPT ![n][n] = p]
    BY DEF StartExisting
  <1>3. [poly |-> p, ver |-> active[n]] \in Deal
    BY <1>1 DEF Deal
  <1>4. deals' \in [Operators -> Entry(Deal)] /\ deals'[n] \in Deal
    BY <1>2, <1>3 DEF TypeInv, TypeOK
  <1>5. /\ commitments' \in [Operators -> [Operators -> Entry(Deal)]]
        /\ shares' \in [Operators -> [Operators -> Entry(Polynomials)]]
    BY <1>2, <1>4 DEF TypeInv, TypeOK
  <1>6. expected' \in [Operators -> SUBSET Operators]
    BY DEF StartExisting, expectedReshareDealers, TypeInv, TypeOK
  <1>7. PhaseInv'
    BY <1>2, <1>4, NoneAssumption, VersionsAssumption
       DEF StartExisting, PhaseInv, TypeInv, TypeOK
  <1> QED
    BY <1>4, <1>5, <1>6, <1>7 DEF StartExisting, TypeInv, TypeOK

(* StartNew preserves TypeInv.                                             *)
LEMMA StartNewTypeInv ==
    ASSUME TypeInv, NEW n \in Operators,
           NEW answered \in SUBSET Operators, StartNew(n, answered)
    PROVE  TypeInv'
  BY OperatorsAssumption, VersionsAssumption, NoneAssumption
     DEF StartNew, TypeInv, TypeOK, PhaseInv

(* VerifyAndAcknowledge preserves TypeInv.                                 *)
LEMMA VerifyAndAcknowledgeTypeInv ==
    ASSUME TypeInv, NEW n \in Operators, VerifyAndAcknowledge(n)
    PROVE  TypeInv'
  BY OperatorsAssumption, VersionsAssumption, NoneAssumption
     DEF VerifyAndAcknowledge, TypeInv, TypeOK, PhaseInv

(* SubmitCommitment preserves TypeInv.                                     *)
LEMMA SubmitCommitmentTypeInv ==
    ASSUME TypeInv, NEW n \in Operators, SubmitCommitment(n)
    PROVE  TypeInv'
  <1>1. SubmittedHash(n) \subseteq Hash
    BY SentDealsType DEF SubmitCommitment, TypeInv, PhaseInv
  <1>2. registry' \in [Operators -> Entry(Hash)]
    BY <1>1 DEF SubmitCommitment, TypeInv, TypeOK
  <1>3. broadcasts' \in [Operators -> SUBSET Operators]
    BY DEF SubmitCommitment, ProofRecipients, TypeInv, TypeOK
  <1> QED
    BY <1>2, <1>3 DEF SubmitCommitment, TypeInv, TypeOK, PhaseInv

(* SubmitButFail preserves TypeInv.                                        *)
LEMMA SubmitButFailTypeInv ==
    ASSUME TypeInv, NEW n \in Operators, SubmitButFail(n)
    PROVE  TypeInv'
  <1>1. SubmittedHash(n) \subseteq Hash
    BY SentDealsType DEF SubmitButFail, TypeInv, PhaseInv
  <1>2. registry' \in [Operators -> Entry(Hash)]
    BY <1>1 DEF SubmitButFail, TypeInv, TypeOK
  <1> QED
    BY <1>2 DEF SubmitButFail, TypeInv, TypeOK, PhaseInv

(* What SelectMajoritySourceVersion returns, whichever version it prefers: *)
(* a quorum of the dealers it was given, all of one source version.        *)
LEMMA SelectMajorityQuorum ==
    ASSUME NEW D \in SUBSET Operators,
           NEW vers \in [D -> Versions \cup {0}],
           SelectMajoritySourceVersion(D, vers, newThreshold) # NoSelection
    PROVE  LET sel == SelectMajoritySourceVersion(D, vers, newThreshold)
           IN  /\ sel \in [src : Versions \cup {0}, kept : SUBSET Operators]
               /\ Cardinality(sel.kept) >= newThreshold
               /\ sel.kept = {d \in D : vers[d] = sel.src}
  <1> DEFINE On(v) == {d \in D : vers[d] = v}
             known == {vers[d] : d \in D} \ {0}
             best  == CHOOSE v \in known : \A w \in known :
                         \/ Cardinality(On(w)) < Cardinality(On(v))
                         \/ Cardinality(On(w)) = Cardinality(On(v)) /\ w <= v
             sel   == SelectMajoritySourceVersion(D, vers, newThreshold)
  <1>1. /\ sel = [src |-> best, kept |-> On(best)]
        /\ ~(Cardinality(On(best)) < newThreshold)
    BY Zenon DEF SelectMajoritySourceVersion
  <1> HIDE DEF best
  <1>2. On(best) \in SUBSET Operators /\ IsFiniteSet(On(best))
    BY OperatorsAssumption, FS_Subset
  <1>3. Cardinality(On(best)) \in Nat /\ newThreshold \in Nat
    <2>1. N \in Nat \ {0}
      BY OperatorsAssumption, FS_CardinalityType, FS_EmptySet DEF N
    <2> QED
      BY <1>2, <2>1, FS_CardinalityType, ThresholdBounds DEF newThreshold
  <1>4. Cardinality(On(best)) >= newThreshold
    BY <1>1, <1>3
  <1>5. On(best) # {}
    BY <1>2, <1>4, OperatorsAssumption, QuorumNonempty DEF newThreshold, N
  <1>6. best \in Versions \cup {0}
    BY <1>5
  <1>7. /\ sel.kept = On(best) /\ sel.src = best
        /\ sel \in [src : Versions \cup {0}, kept : SUBSET Operators]
    BY <1>1, <1>2, <1>6
  <1> HIDE DEF sel
  <1> QED
    BY <1>4, <1>7 DEF sel

(* Every nonempty set of numbers has a least one.                          *)
LEMMA LeastNumber ==
    ASSUME NEW T \in SUBSET Nat, T # {}
    PROVE  \E t \in T : \A u \in T : t <= u
  <1> DEFINE R == OpToRel(<, Nat)
  <1>1. IsWellFoundedOn(R, Nat)
    BY NatLessThanWellFounded
  <1> HIDE DEF R
  <1>2. PICK t \in T : \A u \in T : ~(<<u, t>> \in R)
    BY <1>1, WFMin
  <1>3. \A u \in T : ~(u < t)
    BY <1>2 DEF R, OpToRel
  <1> QED
    BY <1>3

(* The version it returns is one that a dealer names: the preferred one    *)
(* exists, so the unknown version 0 never wins, however many dealt it.     *)
LEMMA SelectMajorityKnown ==
    ASSUME NEW D \in SUBSET Operators,
           NEW vers \in [D -> Versions \cup {0}],
           SelectMajoritySourceVersion(D, vers, newThreshold) # NoSelection
    PROVE  SelectMajoritySourceVersion(D, vers, newThreshold).src \in Versions
  <1> DEFINE On(v) == {d \in D : vers[d] = v}
             known == {vers[d] : d \in D} \ {0}
             Best(v) == \A w \in known :
                         \/ Cardinality(On(w)) < Cardinality(On(v))
                         \/ Cardinality(On(w)) = Cardinality(On(v)) /\ w <= v
             best  == CHOOSE v \in known : Best(v)
             size == [v \in known |-> Cardinality(On(v))]
             sel   == SelectMajoritySourceVersion(D, vers, newThreshold)
  <1>1. sel = [src |-> best, kept |-> On(best)] /\ known # {}
    BY Zenon DEF SelectMajoritySourceVersion
  <1>2. N \in Nat /\ known \in SUBSET Versions /\ SessionTimestamp \in Nat
    BY OperatorsAssumption, VersionsAssumption, FS_CardinalityType DEF N
  <1>3. \A v \in known : size[v] \in Nat /\ size[v] <= N
    <2> SUFFICES ASSUME NEW v \in known
                 PROVE  Cardinality(On(v)) \in Nat /\ Cardinality(On(v)) <= N
      OBVIOUS
    <2>1. On(v) \in SUBSET Operators
      OBVIOUS
    <2> QED
      BY <2>1, OperatorsAssumption, FS_Subset, FS_CardinalityType DEF N
  <1>4. \A v \in known : size[v] = Cardinality(On(v))
    OBVIOUS
  <1> HIDE DEF known, size, On
  <1>5. \A v \in known : v \in Nat /\ v <= SessionTimestamp
    BY <1>2, VersionsAssumption
  <1>6. PICK most \in known : \A w \in known : size[w] <= size[most]
    <2> DEFINE T == {N - size[v] : v \in known}
    <2>1. T \in SUBSET Nat /\ T # {}
      BY <1>1, <1>2, <1>3
    <2>2. PICK t \in T : \A u \in T : t <= u
      BY <2>1, LeastNumber
    <2>3. PICK v \in known : t = N - size[v]
      BY <2>2
    <2>4. ASSUME NEW w \in known PROVE size[w] <= size[v]
      <3>1. N - size[v] <= N - size[w]
        BY <2>2, <2>3
      <3> QED
        BY <1>2, <1>3, <3>1
    <2> QED
      BY <2>4
  <1>7. PICK last \in known : /\ size[last] = size[most]
                              /\ \A w \in known : size[w] = size[most] => w <= last
    <2> DEFINE ties == {v \in known : size[v] = size[most]}
               T == {SessionTimestamp - v : v \in ties}
    <2>1. T \in SUBSET Nat /\ T # {}
      BY <1>2, <1>5
    <2>2. PICK t \in T : \A u \in T : t <= u
      BY <2>1, LeastNumber
    <2>3. PICK v \in ties : t = SessionTimestamp - v
      BY <2>2
    <2>4. ASSUME NEW w \in ties PROVE w <= v
      <3>1. SessionTimestamp - v <= SessionTimestamp - w
        BY <2>2, <2>3
      <3> QED
        BY <1>2, <1>5, <3>1
    <2> QED
      BY <2>3, <2>4
  <1>8. Best(last)
    <2> SUFFICES ASSUME NEW w \in known
                 PROVE  \/ Cardinality(On(w)) < Cardinality(On(last))
                        \/ Cardinality(On(w)) = Cardinality(On(last)) /\ w <= last
      OBVIOUS
    <2>1. size[w] < size[last] \/ (size[w] = size[last] /\ w <= last)
      BY <1>3, <1>6, <1>7
    <2> QED
      BY <1>4, <2>1
  <1>9. best \in known
    <2> HIDE DEF Best
    <2>1. \E v \in known : Best(v)
      BY <1>8
    <2> QED
      BY <2>1
  <1>10. sel.src = best
    BY <1>1
  <1> QED
    BY <1>2, <1>9, <1>10

(* What SelectDealers selects: a quorum of expected dealers, each with the *)
(* commitments and version it submitted by the cutoff, of one version.     *)
LEMMA SelectDealersSelects ==
    ASSUME TypeInv, NEW n \in Operators, SelectDealers(n)
    PROVE  \E sel \in [src : Versions \cup {0}, kept : SUBSET Operators] :
             /\ sel # NoSelection
             /\ sel.src \in Versions
             /\ selected' = [selected EXCEPT ![n] = sel]
             /\ Cardinality(sel.kept) >= newThreshold
             /\ \A d \in sel.kept :
                    /\ atCutoff[d] # None
                    /\ commitments[n][d] \in Deal
                    /\ commitments[n][d].ver = sel.src
                    /\ atCutoff[d] = <<commitments[n][d].poly, sel.src>>
             /\ finalShares' = [finalShares EXCEPT ![n] =
                    [d \in Operators |->
                        IF d \in sel.kept \cap trustedDealerIDs(n)
                          THEN shares[n][d] ELSE None]]
  <1> DEFINE agreed   == deriveAgreedDealerSet(n)
             verified == VerifyDealerSourceVersions(agreed, atCutoff,
                                                    commitments[n])
             vers     == [d \in verified |-> commitments[n][d].ver]
             sel      == SelectMajoritySourceVersion(verified, vers,
                                                     newThreshold)
  <1>1. \A d \in verified : /\ d \in Operators
                            /\ atCutoff[d] # None
                            /\ commitments[n][d] \in Deal
                            /\ HashReshareCommitment(commitments[n][d])
                                   = atCutoff[d]
    BY DEF VerifyDealerSourceVersions, deriveAgreedDealerSet, TypeInv, TypeOK
  <1>2. /\ sel # NoSelection
        /\ selected' = [selected EXCEPT ![n] = sel]
        /\ finalShares' = [finalShares EXCEPT ![n] =
                [d \in Operators |->
                    IF d \in sel.kept \cap trustedDealerIDs(n)
                      THEN shares[n][d] ELSE None]]
    BY Zenon DEF SelectDealers, verifiedDealers
  <1> HIDE DEF verified
  <1>3. verified \in SUBSET Operators
    BY <1>1
  <1>4. vers \in [verified -> Versions \cup {0}]
    BY <1>1 DEF Deal
  <1> HIDE DEF vers
  <1>5. /\ sel \in [src : Versions \cup {0}, kept : SUBSET Operators]
        /\ Cardinality(sel.kept) >= newThreshold
        /\ sel.kept = {d \in verified : vers[d] = sel.src}
    BY <1>2, <1>3, <1>4, SelectMajorityQuorum
  <1>6. sel.src \in Versions
    BY <1>2, <1>3, <1>4, SelectMajorityKnown
  <1> HIDE DEF sel
  <1>7. \A d \in sel.kept :
             /\ d \in verified
             /\ commitments[n][d].ver = sel.src
    BY <1>5 DEF vers
  <1>8. \A d \in sel.kept : atCutoff[d] = <<commitments[n][d].poly, sel.src>>
    BY <1>1, <1>7 DEF HashReshareCommitment
  <1> QED
    BY <1>1, <1>2, <1>5, <1>6, <1>7, <1>8

(* SelectDealers preserves TypeInv.                                        *)
LEMMA SelectDealersTypeInv ==
    ASSUME TypeInv, NEW n \in Operators, SelectDealers(n)
    PROVE  TypeInv'
  <1>1. PICK sel \in [src : Versions \cup {0}, kept : SUBSET Operators] :
            /\ selected' = [selected EXCEPT ![n] = sel]
            /\ finalShares' = [finalShares EXCEPT ![n] =
                    [d \in Operators |->
                        IF d \in sel.kept \cap trustedDealerIDs(n)
                          THEN shares[n][d] ELSE None]]
    BY SelectDealersSelects
  <1>2. finalShares' \in [Operators -> [Operators -> Entry(Polynomials)]]
    BY <1>1 DEF TypeInv, TypeOK
  <1>3. selected' \in [Operators -> [src : Versions \cup {0},
                                     kept : SUBSET Operators]]
    BY <1>1 DEF TypeInv, TypeOK
  <1> QED
    BY <1>2, <1>3 DEF SelectDealers, TypeInv, TypeOK, PhaseInv

(* FinalizeExisting preserves TypeInv.                                     *)
LEMMA FinalizeExistingTypeInv ==
    ASSUME TypeInv, NEW n \in Operators, FinalizeExisting(n)
    PROVE  TypeInv'
  BY OperatorsAssumption, VersionsAssumption, NoneAssumption
     DEF FinalizeExisting, TypeInv, TypeOK, PhaseInv

(* FinalizeNew preserves TypeInv.                                          *)
LEMMA FinalizeNewTypeInv ==
    ASSUME TypeInv, NEW n \in Operators, FinalizeNew(n)
    PROVE  TypeInv'
  <1>1. PICK agreed \in BOOLEAN : mpk' = [mpk EXCEPT ![n] = agreed]
    BY DEF FinalizeNew
  <1> QED
    BY <1>1 DEF FinalizeNew, TypeInv, TypeOK, PhaseInv

(* AbortOnMPK preserves TypeInv.                                           *)
LEMMA AbortOnMPKTypeInv ==
    ASSUME TypeInv, NEW n \in Operators, AbortOnMPK(n)
    PROVE  TypeInv'
  BY OperatorsAssumption, VersionsAssumption, NoneAssumption
     DEF AbortOnMPK, TypeInv, TypeOK, PhaseInv

(* Abort preserves TypeInv.                                                *)
LEMMA AbortTypeInv ==
    ASSUME TypeInv, NEW n \in Operators, Abort(n)
    PROVE  TypeInv'
  BY DEF Abort, InSession, TypeInv, TypeOK, PhaseInv

(* handleReshareCommitment preserves TypeInv.                              *)
LEMMA handleReshareCommitmentTypeInv ==
    ASSUME TypeInv, NEW n \in Operators, NEW d \in Operators,
           handleReshareCommitment(n, d)
    PROVE  TypeInv'
  <1>1. PICK c \in Deal : commitments' = [commitments EXCEPT ![n][d] = c]
    BY SentDealsType DEF handleReshareCommitment
  <1> QED
    BY <1>1 DEF handleReshareCommitment, TypeInv, TypeOK, PhaseInv

(* handleReshareShare preserves TypeInv.                                   *)
LEMMA handleReshareShareTypeInv ==
    ASSUME TypeInv, NEW n \in Operators, NEW d \in Operators,
           handleReshareShare(n, d)
    PROVE  TypeInv'
  <1>1. PICK c \in Deal : shares' = [shares EXCEPT ![n][d] = c.poly]
    BY SentDealsType DEF handleReshareShare
  <1> QED
    BY <1>1 DEF handleReshareShare, TypeInv, TypeOK, PhaseInv, Deal

(* handleReshareAck preserves TypeInv.                                     *)
LEMMA handleReshareAckTypeInv ==
    ASSUME TypeInv, NEW n \in Operators, NEW d \in Operators,
           handleReshareAck(n, d)
    PROVE  TypeInv'
  BY OperatorsAssumption, VersionsAssumption, NoneAssumption
     DEF handleReshareAck, TypeInv, TypeOK, PhaseInv

(* handleCommitmentBroadcast preserves TypeInv.                            *)
LEMMA handleCommitmentBroadcastTypeInv ==
    ASSUME TypeInv, NEW n \in Operators, NEW d \in Operators,
           handleCommitmentBroadcast(n, d)
    PROVE  TypeInv'
  BY OperatorsAssumption, VersionsAssumption, NoneAssumption
     DEF handleCommitmentBroadcast, TypeInv, TypeOK, PhaseInv

(* fetchAndVerifyReshareShare preserves TypeInv.                           *)
LEMMA fetchAndVerifyReshareShareTypeInv ==
    ASSUME TypeInv, NEW n \in Operators, NEW d \in Operators,
           fetchAndVerifyReshareShare(n, d)
    PROVE  TypeInv'
  <1>1. PICK c \in Deal : finalShares' = [finalShares EXCEPT ![n][d] = c.poly]
    BY SentDealsType DEF fetchAndVerifyReshareShare
  <1> QED
    BY <1>1 DEF fetchAndVerifyReshareShare, TypeInv, TypeOK, PhaseInv, Deal

(* PassCutoff preserves TypeInv.                                           *)
LEMMA PassCutoffTypeInv ==
    ASSUME TypeInv, PassCutoff
    PROVE  TypeInv'
  BY DEF PassCutoff, TypeInv, TypeOK, PhaseInv

(* A stuttering step preserves TypeInv.                                    *)
LEMMA StutterTypeInv ==
    ASSUME TypeInv, UNCHANGED vars
    PROVE  TypeInv'
  BY DEF vars, TypeInv, TypeOK, PhaseInv

(* Every step of a round, whoever takes it, preserves TypeInv.             *)
LEMMA NextTypeInv ==
    ASSUME TypeInv, [Next]_vars
    PROVE  TypeInv'
  <1>1. ASSUME NEW n \in Operators, StartExisting(n) PROVE TypeInv'
    BY <1>1, StartExistingTypeInv
  <1>2. ASSUME NEW n \in Operators, NEW answered \in SUBSET Operators,
               StartNew(n, answered)
        PROVE  TypeInv'
    BY <1>2, StartNewTypeInv
  <1>3. ASSUME NEW n \in Operators, VerifyAndAcknowledge(n) PROVE TypeInv'
    BY <1>3, VerifyAndAcknowledgeTypeInv
  <1>4. ASSUME NEW n \in Operators, SubmitCommitment(n) PROVE TypeInv'
    BY <1>4, SubmitCommitmentTypeInv
  <1>5. ASSUME NEW n \in Operators, SubmitButFail(n) PROVE TypeInv'
    BY <1>5, SubmitButFailTypeInv
  <1>6. ASSUME NEW n \in Operators, SelectDealers(n) PROVE TypeInv'
    BY <1>6, SelectDealersTypeInv
  <1>7. ASSUME NEW n \in Operators, FinalizeExisting(n) PROVE TypeInv'
    BY <1>7, FinalizeExistingTypeInv
  <1>8. ASSUME NEW n \in Operators, FinalizeNew(n) PROVE TypeInv'
    BY <1>8, FinalizeNewTypeInv
  <1>9. ASSUME NEW n \in Operators, AbortOnMPK(n) PROVE TypeInv'
    BY <1>9, AbortOnMPKTypeInv
  <1>10. ASSUME NEW n \in Operators, Abort(n) PROVE TypeInv'
    BY <1>10, AbortTypeInv
  <1>11. ASSUME NEW n \in Operators, NEW d \in Operators,
                handleReshareCommitment(n, d) PROVE TypeInv'
    BY <1>11, handleReshareCommitmentTypeInv
  <1>12. ASSUME NEW n \in Operators, NEW d \in Operators,
                handleReshareShare(n, d) PROVE TypeInv'
    BY <1>12, handleReshareShareTypeInv
  <1>13. ASSUME NEW n \in Operators, NEW d \in Operators,
                handleReshareAck(d, n) PROVE TypeInv'
    BY <1>13, handleReshareAckTypeInv
  <1>14. ASSUME NEW n \in Operators, NEW d \in Operators,
                handleCommitmentBroadcast(n, d) PROVE TypeInv'
    BY <1>14, handleCommitmentBroadcastTypeInv
  <1>15. ASSUME NEW n \in Operators, NEW d \in Operators,
                fetchAndVerifyReshareShare(n, d) PROVE TypeInv'
    BY <1>15, fetchAndVerifyReshareShareTypeInv
  <1>16. CASE PassCutoff
    BY <1>16, PassCutoffTypeInv
  <1>17. CASE UNCHANGED vars
    BY <1>17, StutterTypeInv
  <1> QED
    BY <1>1, <1>2, <1>3, <1>4, <1>5, <1>6, <1>7, <1>8, <1>9, <1>10, <1>11,
       <1>12, <1>13, <1>14, <1>15, <1>16, <1>17 DEF Next, StepsButSelection

(* TypeInv is an invariant of the round.                                   *)
LEMMA TypeInvInvariant == Spec => []TypeInv
  BY InitTypeInv, NextTypeInv, PTL DEF Spec

(* Type correctness of the round: in particular every hash on chain is the *)
(* hash of a deal, and every version dealt from or blamed was held when    *)
(* the round started.                                                      *)
THEOREM TypeCorrect == Spec => []TypeOK
  <1>1. TypeInv => TypeOK
    BY DEF TypeInv
  <1> QED
    BY <1>1, TypeInvInvariant, PTL

-----------------------------------------------------------------------------
(* The inductive invariant behind the safety properties, in the order in   *)
(* which a round establishes its parts.                                    *)

(* Until the dealers are selected, a share found valid lies on the         *)
(* polynomial of the commitments still in the session.                     *)
ValidSharesInv ==
    \A n \in Operators : phase[n] \in {"acking", "verifying"} =>
        \A d \in validShares[n] :
            /\ commitments[n][d] # None
            /\ shares[n][d] = commitments[n][d].poly

(* A selected dealer set is a quorum, chosen after the cutoff, and the     *)
(* registry binds each dealer in it to the selected source version.        *)
SelectionInv ==
    \A n \in Operators :
        /\ Finalized(n) => selected[n] # NoSelection
        /\ selected[n] # NoSelection =>
             /\ cutoff
             /\ Cardinality(selected[n].kept) >= newThreshold
             /\ \A d \in selected[n].kept :
                    \E p \in Polynomials : atCutoff[d] = <<p, selected[n].src>>

(* While shares are being fetched, the session's commitments are the ones  *)
(* on chain, and each share at hand lies on its dealer's polynomial.       *)
AssemblingInv ==
    \A n \in Operators : phase[n] = "assembling" =>
        /\ selected[n] # NoSelection
        /\ \A d \in selected[n].kept :
               /\ commitments[n][d] \in Deal
               /\ atCutoff[d] = <<commitments[n][d].poly, selected[n].src>>
               /\ finalShares[n][d] \in {None, commitments[n][d].poly}

SafetyInv ==
    /\ ValidSharesInv
    /\ SelectionInv
    /\ AssemblingInv
    /\ SharesOnCommittedPolynomials
    /\ SecretPreserved

USE DEF ValidSharesInv, SelectionInv, AssemblingInv,
        SharesOnCommittedPolynomials, SecretPreserved, Finalized

(* StartExisting preserves SafetyInv.                                      *)
LEMMA StartExistingSafety ==
    ASSUME TypeInv, SafetyInv, NEW n \in Operators, StartExisting(n)
    PROVE  SafetyInv'
  BY VersionsAssumption
     DEF StartExisting, SafetyInv, TypeInv, TypeOK, PhaseInv

(* StartNew preserves SafetyInv.                                           *)
LEMMA StartNewSafety ==
    ASSUME TypeInv, SafetyInv, NEW n \in Operators,
           NEW answered \in SUBSET Operators, StartNew(n, answered)
    PROVE  SafetyInv'
  BY VersionsAssumption
     DEF StartNew, SafetyInv, TypeInv, TypeOK, PhaseInv

(* SubmitCommitment preserves SafetyInv.                                   *)
LEMMA SubmitCommitmentSafety ==
    ASSUME TypeInv, SafetyInv, NEW n \in Operators, SubmitCommitment(n)
    PROVE  SafetyInv'
  BY VersionsAssumption
     DEF SubmitCommitment, SafetyInv, TypeInv, TypeOK, PhaseInv

(* SubmitButFail preserves SafetyInv.                                      *)
LEMMA SubmitButFailSafety ==
    ASSUME TypeInv, SafetyInv, NEW n \in Operators, SubmitButFail(n)
    PROVE  SafetyInv'
  BY VersionsAssumption
     DEF SubmitButFail, SafetyInv, TypeInv, TypeOK, PhaseInv

(* AbortOnMPK preserves SafetyInv.                                         *)
LEMMA AbortOnMPKSafety ==
    ASSUME TypeInv, SafetyInv, NEW n \in Operators, AbortOnMPK(n)
    PROVE  SafetyInv'
  BY VersionsAssumption
     DEF AbortOnMPK, SafetyInv, TypeInv, TypeOK, PhaseInv

(* Abort preserves SafetyInv.                                              *)
LEMMA AbortSafety ==
    ASSUME TypeInv, SafetyInv, NEW n \in Operators, Abort(n)
    PROVE  SafetyInv'
  BY VersionsAssumption
     DEF Abort, SafetyInv, TypeInv, TypeOK, PhaseInv

(* handleReshareCommitment preserves SafetyInv.                            *)
LEMMA handleReshareCommitmentSafety ==
    ASSUME TypeInv, SafetyInv, NEW n \in Operators, NEW d \in Operators,
           handleReshareCommitment(n, d)
    PROVE  SafetyInv'
  BY VersionsAssumption
     DEF handleReshareCommitment, SafetyInv, TypeInv, TypeOK, PhaseInv

(* handleReshareShare preserves SafetyInv.                                 *)
LEMMA handleReshareShareSafety ==
    ASSUME TypeInv, SafetyInv, NEW n \in Operators, NEW d \in Operators,
           handleReshareShare(n, d)
    PROVE  SafetyInv'
  BY VersionsAssumption
     DEF handleReshareShare, SafetyInv, TypeInv, TypeOK, PhaseInv

(* handleReshareAck preserves SafetyInv.                                   *)
LEMMA handleReshareAckSafety ==
    ASSUME TypeInv, SafetyInv, NEW n \in Operators, NEW d \in Operators,
           handleReshareAck(n, d)
    PROVE  SafetyInv'
  BY VersionsAssumption
     DEF handleReshareAck, SafetyInv, TypeInv, TypeOK, PhaseInv

(* handleCommitmentBroadcast preserves SafetyInv.                          *)
LEMMA handleCommitmentBroadcastSafety ==
    ASSUME TypeInv, SafetyInv, NEW n \in Operators, NEW d \in Operators,
           handleCommitmentBroadcast(n, d)
    PROVE  SafetyInv'
  BY VersionsAssumption
     DEF handleCommitmentBroadcast, SafetyInv, TypeInv, TypeOK, PhaseInv

(* VerifyAndAcknowledge preserves SafetyInv.                               *)
LEMMA VerifyAndAcknowledgeSafety ==
    ASSUME TypeInv, SafetyInv, NEW n \in Operators, VerifyAndAcknowledge(n)
    PROVE  SafetyInv'
  <1>1. ValidSharesInv'
    BY DEF VerifyAndAcknowledge, VerifyNewShare, SafetyInv, TypeInv, TypeOK
  <1>2. SelectionInv'
    BY VersionsAssumption
    DEF VerifyAndAcknowledge, SafetyInv, TypeInv, TypeOK, PhaseInv
  <1>3. AssemblingInv'
    BY VersionsAssumption
    DEF VerifyAndAcknowledge, SafetyInv, TypeInv, TypeOK, PhaseInv
  <1>4. SharesOnCommittedPolynomials'
    BY VersionsAssumption
    DEF VerifyAndAcknowledge, SafetyInv, TypeInv, TypeOK, PhaseInv
  <1>5. SecretPreserved'
    BY VersionsAssumption
    DEF VerifyAndAcknowledge, SafetyInv, TypeInv, TypeOK, PhaseInv
  <1> QED
    BY <1>1, <1>2, <1>3, <1>4, <1>5 DEF SafetyInv

(* SelectDealers preserves SafetyInv.                                      *)
LEMMA SelectDealersSafety ==
    ASSUME TypeInv, SafetyInv, NEW n \in Operators, SelectDealers(n)
    PROVE  SafetyInv'
  <1>0. PICK sel \in [src : Versions \cup {0}, kept : SUBSET Operators] :
            /\ sel # NoSelection
            /\ selected' = [selected EXCEPT ![n] = sel]
            /\ Cardinality(sel.kept) >= newThreshold
            /\ \A d \in sel.kept :
                   /\ atCutoff[d] # None
                   /\ commitments[n][d] \in Deal
                   /\ commitments[n][d].ver = sel.src
                   /\ atCutoff[d] = <<commitments[n][d].poly, sel.src>>
            /\ finalShares' = [finalShares EXCEPT ![n] =
                   [d \in Operators |->
                       IF d \in sel.kept \cap trustedDealerIDs(n)
                         THEN shares[n][d] ELSE None]]
    BY SelectDealersSelects
  <1>1. ValidSharesInv'
    BY VersionsAssumption
    DEF SelectDealers, SafetyInv, TypeInv, TypeOK, PhaseInv
  <1>2. SelectionInv'
    <2>1. \A d \in sel.kept :
              \E p \in Polynomials : atCutoff[d] = <<p, sel.src>>
      BY <1>0 DEF Deal
    <2>2. selected'[n] = sel
      BY <1>0 DEF TypeInv, TypeOK
    <2>3. \A m \in Operators \ {n} : selected'[m] = selected[m]
      BY <1>0 DEF TypeInv, TypeOK
    <2>4. cutoff /\ cutoff' /\ UNCHANGED <<atCutoff, active>>
      BY DEF SelectDealers
    <2> QED
      BY <1>0, <2>1, <2>2, <2>3, <2>4 DEF SafetyInv
  <1>3. AssemblingInv'
    <2>1. \A d \in sel.kept : finalShares'[n][d] \in
                                {None, commitments[n][d].poly}
      BY <1>0 DEF SelectDealers, trustedDealerIDs, SafetyInv, TypeInv, TypeOK
    <2>2. selected'[n] = sel
      BY <1>0 DEF TypeInv, TypeOK
    <2>3. \A m \in Operators \ {n} :
             /\ selected'[m] = selected[m]
             /\ finalShares'[m] = finalShares[m]
             /\ phase'[m] = phase[m]
      BY <1>0 DEF SelectDealers, TypeInv, TypeOK
    <2>4. UNCHANGED <<atCutoff, commitments>>
      BY DEF SelectDealers
    <2> SUFFICES ASSUME NEW m \in Operators, phase'[m] = "assembling"
                 PROVE  /\ selected'[m] # NoSelection
                        /\ \A d \in selected'[m].kept :
                             /\ commitments[m][d] \in Deal
                             /\ atCutoff[d] = <<commitments[m][d].poly,
                                               selected'[m].src>>
                             /\ finalShares'[m][d] \in
                                    {None, commitments[m][d].poly}
      BY <2>4, Zenon
    <2>5. CASE m = n
      BY <1>0, <2>1, <2>2, <2>5
    <2>6. CASE m # n
      BY <2>3, <2>6 DEF SafetyInv
    <2> QED
      BY <2>5, <2>6
  <1>4. SharesOnCommittedPolynomials'
    BY VersionsAssumption
    DEF SelectDealers, SafetyInv, TypeInv, TypeOK, PhaseInv
  <1>5. SecretPreserved'
    BY VersionsAssumption
    DEF SelectDealers, SafetyInv, TypeInv, TypeOK, PhaseInv
  <1> QED
    BY <1>1, <1>2, <1>3, <1>4, <1>5 DEF SafetyInv

(* FinalizeExisting preserves SafetyInv.                                   *)
LEMMA FinalizeExistingSafety ==
    ASSUME TypeInv, SafetyInv, NEW n \in Operators, FinalizeExisting(n)
    PROVE  SafetyInv'
  <1>0. \A d \in selected[n].kept :
             /\ finalShares[n][d] = commitments[n][d].poly
             /\ atCutoff[d] = <<finalShares[n][d], selected[n].src>>
             /\ atCutoff[d] # None
    <2>1. \A d \in selected[n].kept :
             /\ finalShares[n][d] = commitments[n][d].poly
             /\ atCutoff[d] = <<finalShares[n][d], selected[n].src>>
      BY DEF FinalizeExisting, HoldsAllShares, SafetyInv
    <2>2. \A d \in selected[n].kept : atCutoff[d] \in Hash
      <3>1. \A d \in selected[n].kept : commitments[n][d].poly \in Polynomials
        BY DEF FinalizeExisting, SafetyInv, Deal
      <3>2. selected[n].src \in Versions \cup {0}
        BY DEF TypeInv, TypeOK
      <3> QED
        BY <2>1, <3>1, <3>2 DEF Hash
    <2> QED
      BY <2>1, <2>2, NoneAssumption
  <1>1. ValidSharesInv'
    BY VersionsAssumption
    DEF FinalizeExisting, SafetyInv, TypeInv, TypeOK, PhaseInv
  <1>2. SelectionInv'
    BY VersionsAssumption
    DEF FinalizeExisting, SafetyInv, TypeInv, TypeOK, PhaseInv
  <1>3. AssemblingInv'
    BY VersionsAssumption
    DEF FinalizeExisting, SafetyInv, TypeInv, TypeOK, PhaseInv
  <1>4. SharesOnCommittedPolynomials'
    BY <1>0 DEF FinalizeExisting, SafetyInv, TypeInv, TypeOK
  <1>5. SecretPreserved'
    <2>1. /\ selected[n].src \notin Corrupt
          /\ \A d \in selected[n].kept :
                 SourceOf[finalShares[n][d]] = selected[n].src
          /\ Cardinality(selected[n].kept) >= CalculateThreshold(
                 Cardinality(ParticipantIDs[selected[n].src]))
      BY <1>0 DEF FinalizeExisting, ValidateReshareMasterPublicKey
    <2>2. \A m \in Operators \ {n} : active'[m] = active[m]
      BY DEF FinalizeExisting, TypeInv, TypeOK
    <2>3. UNCHANGED <<selected, finalShares, deals>>
      BY DEF FinalizeExisting
    <2> QED
      BY <2>1, <2>2, <2>3 DEF SafetyInv
  <1> QED
    BY <1>1, <1>2, <1>3, <1>4, <1>5 DEF SafetyInv

(* FinalizeNew preserves SafetyInv.                                        *)
LEMMA FinalizeNewSafety ==
    ASSUME TypeInv, SafetyInv, NEW n \in Operators, FinalizeNew(n)
    PROVE  SafetyInv'
  <1>0. \A d \in selected[n].kept :
             /\ finalShares[n][d] = commitments[n][d].poly
             /\ atCutoff[d] = <<finalShares[n][d], selected[n].src>>
             /\ atCutoff[d] # None
    <2>1. \A d \in selected[n].kept :
             /\ finalShares[n][d] = commitments[n][d].poly
             /\ atCutoff[d] = <<finalShares[n][d], selected[n].src>>
      BY DEF FinalizeNew, HoldsAllShares, SafetyInv
    <2>2. \A d \in selected[n].kept : atCutoff[d] \in Hash
      <3>1. \A d \in selected[n].kept : commitments[n][d].poly \in Polynomials
        BY DEF FinalizeNew, SafetyInv, Deal
      <3>2. selected[n].src \in Versions \cup {0}
        BY DEF TypeInv, TypeOK
      <3> QED
        BY <2>1, <3>1, <3>2 DEF Hash
    <2> QED
      BY <2>1, <2>2, NoneAssumption
  <1>1. ValidSharesInv'
    BY VersionsAssumption DEF FinalizeNew, SafetyInv, TypeInv, TypeOK, PhaseInv
  <1>2. SelectionInv'
    BY VersionsAssumption DEF FinalizeNew, SafetyInv, TypeInv, TypeOK, PhaseInv
  <1>3. AssemblingInv'
    BY VersionsAssumption DEF FinalizeNew, SafetyInv, TypeInv, TypeOK, PhaseInv
  <1>4. SharesOnCommittedPolynomials'
    BY <1>0 DEF FinalizeNew, SafetyInv, TypeInv, TypeOK
  <1>5. SecretPreserved'
    BY VersionsAssumption DEF FinalizeNew, SafetyInv, TypeInv, TypeOK, PhaseInv
  <1> QED
    BY <1>1, <1>2, <1>3, <1>4, <1>5 DEF SafetyInv

(* fetchAndVerifyReshareShare preserves SafetyInv.                         *)
LEMMA fetchAndVerifyReshareShareSafety ==
    ASSUME TypeInv, SafetyInv, NEW n \in Operators, NEW d \in Operators,
           fetchAndVerifyReshareShare(n, d)
    PROVE  SafetyInv'
  <1>1. ValidSharesInv'
    BY VersionsAssumption
    DEF fetchAndVerifyReshareShare, SafetyInv, TypeInv, TypeOK, PhaseInv
  <1>2. SelectionInv'
    BY VersionsAssumption
    DEF fetchAndVerifyReshareShare, SafetyInv, TypeInv, TypeOK, PhaseInv
  <1>3. AssemblingInv'
    BY DEF fetchAndVerifyReshareShare, VerifyNewShare, SafetyInv, TypeInv,
           TypeOK
  <1>4. SharesOnCommittedPolynomials'
    BY VersionsAssumption
    DEF fetchAndVerifyReshareShare, SafetyInv, TypeInv, TypeOK, PhaseInv
  <1>5. SecretPreserved'
    BY VersionsAssumption
    DEF fetchAndVerifyReshareShare, SafetyInv, TypeInv, TypeOK, PhaseInv
  <1> QED
    BY <1>1, <1>2, <1>3, <1>4, <1>5 DEF SafetyInv

(* PassCutoff preserves SafetyInv.                                         *)
LEMMA PassCutoffSafety ==
    ASSUME TypeInv, SafetyInv, PassCutoff
    PROVE  SafetyInv'
  <1>1. \A n \in Operators : selected[n] = NoSelection /\ ~Finalized(n)
    BY DEF PassCutoff, SafetyInv
  <1> QED
    BY <1>1 DEF PassCutoff, SafetyInv

(* A stuttering step preserves SafetyInv.                                  *)
LEMMA StutterSafety ==
    ASSUME SafetyInv, UNCHANGED vars
    PROVE  SafetyInv'
  BY DEF vars, SafetyInv

(* Nobody has selected or finalized in an initial state.                   *)
LEMMA InitSafety == Init => SafetyInv
  BY OperatorsAssumption, VersionsAssumption DEF Init, SafetyInv

(* Every step of a round preserves SafetyInv.                              *)
LEMMA NextSafety ==
    ASSUME TypeInv, SafetyInv, [Next]_vars
    PROVE  SafetyInv'
  <1>1. ASSUME NEW n \in Operators, StartExisting(n) PROVE SafetyInv'
    BY <1>1, StartExistingSafety
  <1>2. ASSUME NEW n \in Operators, NEW answered \in SUBSET Operators,
               StartNew(n, answered)
        PROVE  SafetyInv'
    BY <1>2, StartNewSafety
  <1>3. ASSUME NEW n \in Operators, VerifyAndAcknowledge(n) PROVE SafetyInv'
    BY <1>3, VerifyAndAcknowledgeSafety
  <1>4. ASSUME NEW n \in Operators, SubmitCommitment(n) PROVE SafetyInv'
    BY <1>4, SubmitCommitmentSafety
  <1>5. ASSUME NEW n \in Operators, SubmitButFail(n) PROVE SafetyInv'
    BY <1>5, SubmitButFailSafety
  <1>6. ASSUME NEW n \in Operators, SelectDealers(n) PROVE SafetyInv'
    BY <1>6, SelectDealersSafety
  <1>7. ASSUME NEW n \in Operators, FinalizeExisting(n) PROVE SafetyInv'
    BY <1>7, FinalizeExistingSafety
  <1>8. ASSUME NEW n \in Operators, FinalizeNew(n) PROVE SafetyInv'
    BY <1>8, FinalizeNewSafety
  <1>9. ASSUME NEW n \in Operators, AbortOnMPK(n) PROVE SafetyInv'
    BY <1>9, AbortOnMPKSafety
  <1>10. ASSUME NEW n \in Operators, Abort(n) PROVE SafetyInv'
    BY <1>10, AbortSafety
  <1>11. ASSUME NEW n \in Operators, NEW d \in Operators,
                handleReshareCommitment(n, d) PROVE SafetyInv'
    BY <1>11, handleReshareCommitmentSafety
  <1>12. ASSUME NEW n \in Operators, NEW d \in Operators,
                handleReshareShare(n, d) PROVE SafetyInv'
    BY <1>12, handleReshareShareSafety
  <1>13. ASSUME NEW n \in Operators, NEW d \in Operators,
                handleReshareAck(d, n) PROVE SafetyInv'
    BY <1>13, handleReshareAckSafety
  <1>14. ASSUME NEW n \in Operators, NEW d \in Operators,
                handleCommitmentBroadcast(n, d) PROVE SafetyInv'
    BY <1>14, handleCommitmentBroadcastSafety
  <1>15. ASSUME NEW n \in Operators, NEW d \in Operators,
                fetchAndVerifyReshareShare(n, d) PROVE SafetyInv'
    BY <1>15, fetchAndVerifyReshareShareSafety
  <1>16. CASE PassCutoff
    BY <1>16, PassCutoffSafety
  <1>17. CASE UNCHANGED vars
    BY <1>17, StutterSafety
  <1> QED
    BY <1>1, <1>2, <1>3, <1>4, <1>5, <1>6, <1>7, <1>8, <1>9, <1>10, <1>11,
       <1>12, <1>13, <1>14, <1>15, <1>16, <1>17 DEF Next, StepsButSelection

(* SafetyInv, with TypeInv, is an invariant of the round.                  *)
LEMMA SafetyInvInvariant == Spec => [](TypeInv /\ SafetyInv)
  <1>1. Init => TypeInv /\ SafetyInv
    BY InitTypeInv, InitSafety
  <1>2. TypeInv /\ SafetyInv /\ [Next]_vars => (TypeInv /\ SafetyInv)'
    BY NextTypeInv, NextSafety
  <1> QED
    BY <1>1, <1>2, PTL DEF Spec

(* Two selections, each backed by a quorum whose versions the registry     *)
(* fixes, name the same source version.                                    *)
LEMMA SelectionsAgree ==
    ASSUME TypeInv, SafetyInv, NEW m \in Operators, NEW n \in Operators,
           selected[m] # NoSelection, selected[n] # NoSelection
    PROVE  selected[m].src = selected[n].src
  <1>1. /\ selected[m].kept \in SUBSET Operators
        /\ selected[n].kept \in SUBSET Operators
    BY DEF TypeInv, TypeOK
  <1>2. /\ Cardinality(selected[m].kept) >= CalculateThreshold(N)
        /\ Cardinality(selected[n].kept) >= CalculateThreshold(N)
    BY DEF SafetyInv, newThreshold
  <1>3. PICK d : d \in selected[m].kept /\ d \in selected[n].kept
    <2>1. selected[m].kept \cap selected[n].kept # {}
      BY <1>1, <1>2, OperatorsAssumption, QuorumsIntersect DEF N
    <2> QED
      BY <2>1
  <1>4. PICK p : atCutoff[d] = <<p, selected[m].src>>
    BY <1>3 DEF SafetyInv
  <1>5. PICK q : atCutoff[d] = <<q, selected[n].src>>
    BY <1>3 DEF SafetyInv
  <1> QED
    BY <1>4, <1>5

(* A selection names a version that a dealer named, never the unknown one. *)
KnownInv ==
    \A n \in Operators : selected[n] # NoSelection => selected[n].src \in Versions

(* What the steps of a round do to selections and keys.                    *)
LEMMA RoundSteps ==
    ASSUME [Next]_vars
    PROVE  \/ UNCHANGED <<selected, active>>
           \/ \E n \in Operators : SelectDealers(n)
           \/ \E n \in Operators : FinalizeExisting(n) \/ FinalizeNew(n)
  <1>1. ASSUME NEW n \in Operators,
               \/ StartExisting(n)
               \/ \E answered \in SUBSET Operators : StartNew(n, answered)
               \/ VerifyAndAcknowledge(n) \/ SubmitCommitment(n) \/ SubmitButFail(n)
               \/ AbortOnMPK(n) \/ Abort(n)
        PROVE  UNCHANGED <<selected, active>>
    BY <1>1 DEF StartExisting, StartNew, VerifyAndAcknowledge, SubmitCommitment,
                SubmitButFail, AbortOnMPK, Abort
  <1>2. ASSUME NEW n \in Operators, NEW d \in Operators,
               \/ handleReshareCommitment(n, d) \/ handleReshareShare(n, d)
               \/ handleReshareAck(d, n) \/ handleCommitmentBroadcast(n, d)
               \/ fetchAndVerifyReshareShare(n, d)
        PROVE  UNCHANGED <<selected, active>>
    BY <1>2 DEF handleReshareCommitment, handleReshareShare, handleReshareAck,
                handleCommitmentBroadcast, fetchAndVerifyReshareShare
  <1>3. PassCutoff \/ UNCHANGED vars => UNCHANGED <<selected, active>>
    BY DEF PassCutoff, vars
  <1> QED
    BY <1>1, <1>2, <1>3, Zenon DEF Next, StepsButSelection

(* KnownInv is an invariant.                                               *)
LEMMA KnownInvariant == Spec => []KnownInv
  <1>1. Init => KnownInv
    BY DEF Init, KnownInv
  <1>2. ASSUME TypeInv, KnownInv, [Next]_vars
        PROVE  KnownInv'
    <2>1. CASE UNCHANGED <<selected, active>>
      BY <1>2, <2>1 DEF KnownInv
    <2>2. ASSUME NEW n \in Operators, SelectDealers(n)
          PROVE  KnownInv'
      <3>1. PICK sel : sel.src \in Versions /\ selected' = [selected EXCEPT ![n] = sel]
        BY <1>2, <2>2, SelectDealersSelects
      <3>2. \A m \in Operators : selected'[m] = IF m = n THEN sel ELSE selected[m]
        BY <1>2, <3>1 DEF TypeInv, TypeOK
      <3> QED
        BY <1>2, <3>1, <3>2 DEF KnownInv
    <2>3. ASSUME NEW n \in Operators, FinalizeExisting(n) \/ FinalizeNew(n)
          PROVE  KnownInv'
      BY <1>2, <2>3 DEF KnownInv, FinalizeExisting, FinalizeNew
    <2> QED
      BY <1>2, <2>1, <2>2, <2>3, RoundSteps
  <1>3. TypeInv /\ KnownInv /\ [Next]_vars => KnownInv'
    BY <1>2
  <1> QED
    BY <1>1, <1>3, TypeInvInvariant, PTL DEF Spec

(* A selection, and one that was there before it, name one version.        *)
LEMMA SelectionsBound ==
    ASSUME NEW s, NEW t, s.kept \in SUBSET Operators, t.kept \in SUBSET Operators,
           Cardinality(s.kept) >= newThreshold, Cardinality(t.kept) >= newThreshold,
           \A d \in s.kept : \E p : atCutoff[d] = <<p, s.src>>,
           \A d \in t.kept : \E p : atCutoff[d] = <<p, t.src>>
    PROVE  s.src = t.src
  <1>1. s.kept \cap t.kept # {}
    BY OperatorsAssumption, QuorumsIntersect DEF N, newThreshold
  <1>2. PICK d : d \in s.kept /\ d \in t.kept
    BY <1>1
  <1>3. PICK p : atCutoff[d] = <<p, s.src>>
    BY <1>2
  <1>4. PICK q : atCutoff[d] = <<q, t.src>>
    BY <1>2
  <1> QED
    BY <1>3, <1>4

(* A selection chooses the version, or confirms the one chosen.            *)
LEMMA SelectRefines ==
    ASSUME TypeInv, SafetyInv, KnownInv, NEW n \in Operators, SelectDealers(n)
    PROVE  \/ \E source \in Versions : Consensus!Choose(source)
           \/ UNCHANGED <<{selected[m].src : m \in Operators} \ {0},
                          [m \in Operators |-> IF Finalized(m) THEN selected[m].src ELSE 0]>>
  <1> DEFINE chosen == {selected[m].src : m \in Operators} \ {0}
             refreshed == [m \in Operators |-> IF Finalized(m) THEN selected[m].src ELSE 0]
  <1>1. PICK sel \in [src : Versions \cup {0}, kept : SUBSET Operators] :
            /\ sel.src \in Versions
            /\ selected' = [selected EXCEPT ![n] = sel]
            /\ Cardinality(sel.kept) >= newThreshold
            /\ \A d \in sel.kept : \E p : atCutoff[d] = <<p, sel.src>>
    <2>1. PICK sel \in [src : Versions \cup {0}, kept : SUBSET Operators] :
            /\ sel.src \in Versions
            /\ selected' = [selected EXCEPT ![n] = sel]
            /\ Cardinality(sel.kept) >= newThreshold
            /\ \A d \in sel.kept : atCutoff[d] = <<commitments[n][d].poly, sel.src>>
      BY SelectDealersSelects
    <2> QED
      BY <2>1
  <1>2. \A m \in Operators : selected'[m] = IF m = n THEN sel ELSE selected[m]
    BY <1>1 DEF TypeInv, TypeOK
  <1>3. active' = active /\ ~Finalized(n)
    BY DEF SelectDealers, TypeInv, PhaseInv
  <1>4. refreshed' = refreshed
    BY <1>2, <1>3
  <1>5. sel.src \in Nat \ {0}
    BY <1>1, VersionsAssumption
  <1>6. ASSUME NEW m \in Operators, selected[m].src # 0
        PROVE  selected[m].src = sel.src
    <2>1. selected[m] # NoSelection
      BY <1>6 DEF NoSelection
    <2>2. /\ selected[m].kept \in SUBSET Operators
          /\ Cardinality(selected[m].kept) >= newThreshold
          /\ \A d \in selected[m].kept : \E p : atCutoff[d] = <<p, selected[m].src>>
      BY <2>1 DEF SafetyInv, TypeInv, TypeOK
    <2> QED
      BY <1>1, <2>2, SelectionsBound
  <1>7. chosen' = {sel.src}
    BY <1>2, <1>5, <1>6
  <1>8. chosen = {} \/ chosen = {sel.src}
    BY <1>6
  <1>9. CASE chosen = {}
    BY <1>1, <1>4, <1>7, <1>9 DEF Consensus!Choose
  <1>10. CASE chosen = {sel.src}
    BY <1>4, <1>7, <1>10
  <1> QED
    BY <1>8, <1>9, <1>10

(* A finalization refreshes the chosen version.                            *)
LEMMA FinalizeRefines ==
    ASSUME TypeInv, SafetyInv, KnownInv, NEW n \in Operators,
           FinalizeExisting(n) \/ FinalizeNew(n)
    PROVE  \E source \in Versions : Consensus!Refresh(n, source)
  <1> DEFINE refreshed == [m \in Operators |-> IF Finalized(m) THEN selected[m].src ELSE 0]
  <1>1. /\ active' = [active EXCEPT ![n] = SessionTimestamp] /\ selected' = selected
        /\ ~Finalized(n) /\ selected[n] # NoSelection
    BY DEF FinalizeExisting, FinalizeNew, TypeInv, PhaseInv, SafetyInv
  <1>2. \A m \in Operators : active'[m] = IF m = n THEN SessionTimestamp ELSE active[m]
    BY <1>1 DEF TypeInv, TypeOK
  <1>3. selected[n].src \in Versions /\ selected[n].src # 0
    BY <1>1, VersionsAssumption DEF KnownInv
  <1>4. selected[n].src \in {selected[m].src : m \in Operators} \ {0}
    BY <1>3
  <1>5. refreshed[n] = 0
    BY <1>1
  <1>6. refreshed' = [refreshed EXCEPT ![n] = selected[n].src]
    BY <1>1, <1>2
  <1>7. UNCHANGED ({selected[m].src : m \in Operators} \ {0})
    BY <1>1
  <1>8. PICK source \in Versions : source = selected[n].src
    BY <1>3
  <1>9. Consensus!Refresh(n, source)
    BY <1>4, <1>5, <1>6, <1>7, <1>8 DEF Consensus!Refresh
  <1> QED
    BY <1>9

(* The round implements SourceConsensus: one source version is chosen for  *)
(* good by the first operator that selects its dealers, whatever the       *)
(* others were told, and every key an operator finalizes refreshes it,     *)
(* for any number of operators and any set of faulty dealers.              *)
THEOREM RoundIsConsensus == Spec => ImplementsSourceConsensus
  <1>1. Init => Consensus!Init
    <2> SUFFICES ASSUME Init PROVE Consensus!Init
      OBVIOUS
    <2>1. \A n \in Operators : selected[n].src = 0
      BY DEF Init, NoSelection
    <2>2. \A n \in Operators : ~Finalized(n)
      BY VersionsAssumption DEF Init
    <2> QED
      BY <2>1, <2>2 DEF Consensus!Init
  <1>2. ASSUME TypeInv, SafetyInv, KnownInv, [Next]_vars
        PROVE  Consensus!Next \/ UNCHANGED Consensus!vars
    <2>1. CASE UNCHANGED <<selected, active>>
      BY <2>1 DEF Consensus!vars
    <2>2. ASSUME NEW n \in Operators, SelectDealers(n)
          PROVE  Consensus!Next \/ UNCHANGED Consensus!vars
      BY <1>2, <2>2, SelectRefines, Zenon DEF Consensus!Next, Consensus!vars
    <2>3. ASSUME NEW n \in Operators, FinalizeExisting(n) \/ FinalizeNew(n)
          PROVE  Consensus!Next
      BY <1>2, <2>3, FinalizeRefines, Zenon DEF Consensus!Next
    <2> QED
      BY <1>2, <2>1, <2>2, <2>3, RoundSteps
  <1>3. TypeInv /\ SafetyInv /\ KnownInv /\ [Next]_vars => [Consensus!Next]_(Consensus!vars)
    BY <1>2
  <1> QED
    BY <1>1, <1>3, SafetyInvInvariant, KnownInvariant, PTL
       DEF Spec, ImplementsSourceConsensus, Consensus!Spec

(* All operators that select dealers select dealers of one source version, *)
(* for any number of operators, any set of faulty dealers, and whatever    *)
(* the network delivers (VerifyDealerSourceVersions with                   *)
(* SelectMajoritySourceVersion).                                           *)
THEOREM SourceVersionsAgree == Spec => []SourceAgreement
  <1>1. TypeInv /\ SafetyInv => SourceAgreement
    BY SelectionsAgree DEF SourceAgreement, NoSelection
  <1> QED
    BY <1>1, SafetyInvInvariant, PTL

(* A refreshed share is combined only from polynomials committed to on     *)
(* chain before the cutoff, of a quorum of dealers, whether it was pushed  *)
(* or fetched by fetchAndVerifyReshareShare.                               *)
THEOREM SharesAreCommitted == Spec => []SharesOnCommittedPolynomials
  <1>1. SafetyInv => SharesOnCommittedPolynomials
    BY DEF SafetyInv
  <1> QED
    BY <1>1, SafetyInvInvariant, PTL

(* An existing operator that finalizes holds a share of the same master    *)
(* secret as before, thanks to ValidateReshareMasterPublicKey.             *)
THEOREM SecretIsPreserved == Spec => []SecretPreserved
  <1>1. SafetyInv => SecretPreserved
    BY DEF SafetyInv
  <1> QED
    BY <1>1, SafetyInvInvariant, PTL

-----------------------------------------------------------------------------
(* Auto-heal's blame. The proof needs what SoundVersionNotBlamed says in   *)
(* words: dealers re-deal the version they name, which a correct dealer    *)
(* does by construction, and the operator set has not shrunk so far that a *)
(* quorum of it cannot interpolate an older version.                       *)
HonestSources == \A c \in FaultyDeals : SourceOf[c.poly] = c.ver

NotShrunk ==
    \A v \in Versions :
        CalculateThreshold(Cardinality(ParticipantIDs[v])) <= newThreshold

(* Deals, sent or received, re-deal a share of the version they name.      *)
SourcedInv ==
    \A n \in Operators :
        /\ deals[n] # None => SourceOf[deals[n].poly] = deals[n].ver
        /\ \A d \in Operators : commitments[n][d] # None =>
               SourceOf[commitments[n][d].poly] = commitments[n][d].ver

(* The selected dealers told the operator the selected version.            *)
KeptInv ==
    \A n \in Operators : phase[n] = "assembling" =>
        \A d \in selected[n].kept : commitments[n][d].ver = selected[n].src

BlameInv == SourcedInv /\ KeptInv /\ SoundVersionNotBlamed

(* What a dealer deals is what the version it names has it re-deal.        *)
LEMMA SourcedStep ==
    ASSUME HonestSources, TypeInv, SourcedInv, [Next]_vars
    PROVE  SourcedInv'
  <1>1. ASSUME NEW n \in Operators, StartExisting(n) PROVE SourcedInv'
    <2>1. PICK p \in Polynomials :
              /\ SourceOf[p] = active[n]
              /\ deals' = [deals EXCEPT ![n] = [poly |-> p, ver |-> active[n]]]
              /\ commitments' = [commitments EXCEPT ![n][n] = deals'[n]]
      BY <1>1 DEF StartExisting
    <2>2. deals'[n] = [poly |-> p, ver |-> active[n]]
      BY <2>1 DEF TypeInv, TypeOK
    <2>3. \A m \in Operators : m # n => deals'[m] = deals[m]
      BY <2>1 DEF TypeInv, TypeOK
    <2>4. \A m, d \in Operators : commitments'[m][d] =
              IF m = n /\ d = n THEN deals'[n] ELSE commitments[m][d]
      BY <2>1 DEF TypeInv, TypeOK
    <2> QED
      BY <2>1, <2>2, <2>3, <2>4 DEF SourcedInv
  <1>2. ASSUME NEW n \in Operators, NEW d \in Operators,
               handleReshareCommitment(n, d)
        PROVE  SourcedInv'
    <2>1. PICK c \in SentDeals(d) :
              commitments' = [commitments EXCEPT ![n][d] = c]
      BY <1>2 DEF handleReshareCommitment
    <2>2. SourceOf[c.poly] = c.ver
      BY <1>2, <2>1 DEF handleReshareCommitment, SentDeals, HonestSources,
                        SourcedInv
    <2>3. \A m, e \in Operators : commitments'[m][e] =
              IF m = n /\ e = d THEN c ELSE commitments[m][e]
      BY <2>1 DEF TypeInv, TypeOK
    <2> QED
      BY <1>2, <2>2, <2>3 DEF SourcedInv, handleReshareCommitment
  <1>3. ASSUME NEW n \in Operators, UNCHANGED deals, cleanupSession(n)
        PROVE  SourcedInv'
    BY <1>3 DEF SourcedInv, TypeInv, TypeOK
  <1>4. ASSUME UNCHANGED <<deals, commitments>> PROVE SourcedInv'
    BY <1>4 DEF SourcedInv
  <1> QED
    <2>1. CASE \E n \in Operators : SubmitButFail(n) \/ FinalizeExisting(n)
                 \/ FinalizeNew(n) \/ AbortOnMPK(n) \/ Abort(n)
      BY <2>1, <1>3, Zenon DEF SubmitButFail, FinalizeExisting, FinalizeNew,
                        AbortOnMPK, Abort
    <2>2. CASE \E n \in Operators :
                 \/ \E answered \in SUBSET Operators : StartNew(n, answered)
                 \/ VerifyAndAcknowledge(n) \/ SubmitCommitment(n)
                 \/ SelectDealers(n)
      BY <2>2, <1>4 DEF StartNew, VerifyAndAcknowledge, SubmitCommitment,
                        SelectDealers
    <2>3. CASE \E n, d \in Operators :
                 \/ handleReshareShare(n, d) \/ handleReshareAck(d, n)
                 \/ handleCommitmentBroadcast(n, d)
                 \/ fetchAndVerifyReshareShare(n, d)
      BY <2>3, <1>4 DEF handleReshareShare, handleReshareAck,
            handleCommitmentBroadcast, fetchAndVerifyReshareShare
    <2>4. CASE PassCutoff \/ UNCHANGED vars
      BY <2>4, <1>4 DEF PassCutoff, vars
    <2> QED
      BY <1>1, <1>2, <2>1, <2>2, <2>3, <2>4 DEF Next, StepsButSelection

(* Only SelectDealers selects, and no commitments arrive after it.         *)
LEMMA KeptStep ==
    ASSUME TypeInv, KeptInv, [Next]_vars
    PROVE  KeptInv'
  <1>1. ASSUME NEW n \in Operators, SelectDealers(n) PROVE KeptInv'
    <2>1. PICK sel \in [src : Versions \cup {0}, kept : SUBSET Operators] :
              /\ selected' = [selected EXCEPT ![n] = sel]
              /\ \A d \in sel.kept : commitments[n][d].ver = sel.src
      BY <1>1, SelectDealersSelects
    <2>2. \A m \in Operators : m # n => /\ selected'[m] = selected[m]
                                        /\ phase'[m] = phase[m]
      BY <1>1, <2>1 DEF SelectDealers, TypeInv, TypeOK
    <2>3. selected'[n] = sel /\ commitments' = commitments
      BY <1>1, <2>1 DEF SelectDealers, TypeInv, TypeOK
    <2> QED
      BY <2>1, <2>2, <2>3 DEF KeptInv
  <1>2. ASSUME NEW n \in Operators,
               UNCHANGED selected, phase'[n] # "assembling",
               \A m \in Operators : m # n => /\ phase'[m] = phase[m]
                                             /\ commitments'[m] = commitments[m]
        PROVE  KeptInv'
    BY <1>2 DEF KeptInv
  <1>3. ASSUME UNCHANGED <<selected, phase, commitments>> PROVE KeptInv'
    BY <1>3 DEF KeptInv
  <1>4. ASSUME NEW n \in Operators,
               \/ StartExisting(n)
               \/ \E answered \in SUBSET Operators : StartNew(n, answered)
               \/ VerifyAndAcknowledge(n) \/ SubmitCommitment(n)
               \/ SubmitButFail(n) \/ FinalizeExisting(n) \/ FinalizeNew(n)
               \/ AbortOnMPK(n) \/ Abort(n)
        PROVE  KeptInv'
    <2>1. /\ UNCHANGED selected
          /\ \E p \in Phases \ {"assembling"} :
                 phase' = [phase EXCEPT ![n] = p]
      BY <1>4 DEF StartExisting, StartNew, VerifyAndAcknowledge,
            SubmitCommitment, SubmitButFail, FinalizeExisting, FinalizeNew,
            AbortOnMPK, Abort
    <2>2. \/ UNCHANGED commitments
          \/ \E c : commitments' = [commitments EXCEPT ![n] = c]
      BY <1>4, Zenon DEF StartExisting, StartNew, VerifyAndAcknowledge,
            SubmitCommitment, SubmitButFail, FinalizeExisting, FinalizeNew,
            AbortOnMPK, Abort
    <2> QED
      BY <2>1, <2>2, <1>2 DEF TypeInv, TypeOK
  <1>5. ASSUME NEW n \in Operators, NEW d \in Operators,
               handleReshareCommitment(n, d)
        PROVE  KeptInv'
    BY <1>5, <1>2 DEF handleReshareCommitment, TypeInv, TypeOK
  <1> QED
    <2>1. CASE \E n, d \in Operators :
                 \/ handleReshareShare(n, d) \/ handleReshareAck(d, n)
                 \/ handleCommitmentBroadcast(n, d)
                 \/ fetchAndVerifyReshareShare(n, d)
      BY <2>1, <1>3 DEF handleReshareShare, handleReshareAck,
            handleCommitmentBroadcast, fetchAndVerifyReshareShare
    <2>2. CASE PassCutoff \/ UNCHANGED vars
      BY <2>2, <1>3 DEF PassCutoff, vars
    <2> QED
      BY <1>1, <1>4, <1>5, <2>1, <2>2 DEF Next, StepsButSelection

(* A failed validation is counted against the version dealt from only if   *)
(* that version is corrupt: all the other checks pass for its dealers.     *)
LEMMA BlameStep ==
    ASSUME NotShrunk, TypeInv, SafetyInv, SourcedInv, KeptInv,
           SoundVersionNotBlamed, [Next]_vars
    PROVE  SoundVersionNotBlamed'
  <1>1. ASSUME NEW n \in Operators, AbortOnMPK(n)
        PROVE  SoundVersionNotBlamed'
    <2>1. /\ phase[n] = "assembling"
          /\ blamed' = [blamed EXCEPT ![n] = blamedVersion(n)]
          /\ ~ValidateReshareMasterPublicKey(selected[n], commitments[n])
      BY <1>1 DEF AbortOnMPK
    <2>2. ASSUME blamedVersion(n) # 0 PROVE blamedVersion(n) \in Corrupt
      <3>1. blamedVersion(n) = selected[n].src /\ selected[n].src # 0
        BY <2>2
      <3>2. \A d \in selected[n].kept :
                SourceOf[commitments[n][d].poly] = selected[n].src
        BY <2>1, NoneAssumption DEF SafetyInv, SourcedInv, KeptInv, TypeInv, TypeOK
      <3>3. Cardinality(selected[n].kept) >=
                CalculateThreshold(Cardinality(ParticipantIDs[selected[n].src]))
        <4>1. selected[n].src \in Versions /\ selected[n].kept \in SUBSET Operators
          BY <3>1 DEF TypeInv, TypeOK
        <4>2. Cardinality(selected[n].kept) >= newThreshold
          BY <2>1 DEF SafetyInv
        <4>3. Cardinality(selected[n].kept) \in Nat /\ newThreshold \in Nat
          <5>1. N \in Nat \ {0}
            BY OperatorsAssumption, FS_CardinalityType, FS_EmptySet DEF N
          <5>2. IsFiniteSet(selected[n].kept)
            BY <4>1, OperatorsAssumption, FS_Subset
          <5> QED
            BY <5>1, <5>2, FS_CardinalityType, ThresholdBounds DEF newThreshold
        <4>4. CalculateThreshold(Cardinality(ParticipantIDs[selected[n].src]))
                  \in Nat
          <5>1. Cardinality(ParticipantIDs[selected[n].src]) \in Nat \ {0}
            BY <4>1, ParticipantsAssumption, FS_CardinalityType, FS_EmptySet
          <5> QED
            BY <5>1, ThresholdBounds
        <4> QED
          BY <4>1, <4>2, <4>3, <4>4 DEF NotShrunk
      <3> QED
        BY <2>1, <3>1, <3>2, <3>3 DEF ValidateReshareMasterPublicKey
    <2> QED
      BY <2>1, <2>2 DEF SoundVersionNotBlamed, TypeInv, TypeOK
  <1>2. ASSUME UNCHANGED blamed PROVE SoundVersionNotBlamed'
    BY <1>2 DEF SoundVersionNotBlamed
  <1> QED
    BY <1>1, <1>2, Zenon
       DEF Next, StepsButSelection, vars, StartExisting, StartNew,
           VerifyAndAcknowledge, SubmitCommitment, SubmitButFail,
           FinalizeExisting, FinalizeNew, Abort, handleReshareCommitment,
           handleReshareShare, handleReshareAck, handleCommitmentBroadcast,
           fetchAndVerifyReshareShare, PassCutoff, SelectDealers

(* Auto-heal never counts a failed validation against a sound version, for *)
(* any operator set that has not shrunk, any split of it over versions,    *)
(* and dealers that tell each peer another version, if they re-deal the    *)
(* version they name: onMPKValidationAbort's gate on the majority's source *)
(* version, and the registry's check of it, keep laggards out.             *)
THEOREM SoundVersionsNotBlamed ==
    ASSUME HonestSources, NotShrunk
    PROVE  Spec => []SoundVersionNotBlamed
  <1>1. Init => BlameInv
    BY DEF Init, BlameInv, SourcedInv, KeptInv, SoundVersionNotBlamed
  <1>2. TypeInv /\ SafetyInv /\ BlameInv /\ [Next]_vars => BlameInv'
    BY SourcedStep, KeptStep, BlameStep DEF BlameInv
  <1>3. BlameInv => SoundVersionNotBlamed
    BY DEF BlameInv
  <1> QED
    BY <1>1, <1>2, <1>3, SafetyInvInvariant, PTL DEF Spec

-----------------------------------------------------------------------------
(* The dealer set, when dealers are correct and the commitments of those   *)
(* that made the cutoff reach everybody in time (DeliveredSpec).           *)

(* What was dealt is what is known of it everywhere: nothing is dealt      *)
(* before the round starts, and neither the chain nor a peer holds         *)
(* anything a correct dealer did not deal.                                 *)
DealtInv ==
    \A d \in Operators :
        /\ phase[d] = "idle" => deals[d] = None
        /\ registry[d] # None =>
               deals[d] # None /\ registry[d] = <<deals[d].poly, deals[d].ver>>
        /\ atCutoff[d] # None =>
               deals[d] # None /\ atCutoff[d] = <<deals[d].poly, deals[d].ver>>
        /\ \A n \in Operators : commitments[n][d] # None =>
               commitments[n][d] = deals[d]

(* The dealers of version v that n expects and the chain lists.            *)
OnChainDealers(n, v) ==
    {d \in expected[n] : atCutoff[d] # None /\ atCutoff[d][2] = v}

(* A selection is all of them, and dealers expected do not change under it.*)
WholeSetInv ==
    \A n \in Operators : selected[n] # NoSelection =>
        /\ phase[n] # "idle"
        /\ selected[n].kept = OnChainDealers(n, selected[n].src)

(* A cleaned-up session holds no commitments, the others theirs.           *)
LEMMA CleanupForgets ==
    ASSUME TypeInv, NEW n \in Operators, UNCHANGED commitments \/ cleanupSession(n)
    PROVE  \A m, d \in Operators :
               commitments'[m][d] # None => commitments'[m][d] = commitments[m][d]
  <1>1. CASE commitments' = [commitments EXCEPT ![n] = NoEntries]
    <2>1. \A m \in Operators :
              commitments'[m] = IF m = n THEN NoEntries ELSE commitments[m]
      BY <1>1 DEF TypeInv, TypeOK
    <2>2. \A d \in Operators : NoEntries[d] = None
      OBVIOUS
    <2> QED
      BY <2>1, <2>2
  <1>2. CASE UNCHANGED commitments
    BY <1>2
  <1> QED
    BY <1>1, <1>2

(* Correct dealers keep to their one deal.                                 *)
LEMMA DealtStep ==
    ASSUME Faulty = {}, TypeInv, DealtInv, [Next]_vars
    PROVE  DealtInv'
  <1>1. ASSUME NEW n \in Operators, StartExisting(n) PROVE DealtInv'
    <2>1. /\ phase[n] = "idle" /\ phase'[n] = "collecting"
          /\ UNCHANGED <<registry, atCutoff>>
          /\ \E deal : deals' = [deals EXCEPT ![n] = deal]
          /\ commitments' = [commitments EXCEPT ![n][n] = deals'[n]]
          /\ \A m \in Operators : m # n => phase'[m] = phase[m]
      BY <1>1 DEF StartExisting, TypeInv, TypeOK
    <2>2. \A m \in Operators : m # n => deals'[m] = deals[m]
      BY <2>1 DEF TypeInv, TypeOK
    <2>3. \A m, e \in Operators : commitments'[m][e] =
              IF m = n /\ e = n THEN deals'[n] ELSE commitments[m][e]
      BY <2>1 DEF TypeInv, TypeOK
    <2>4. registry[n] = None /\ atCutoff[n] = None
      BY <2>1 DEF DealtInv
    <2>5. \A m \in Operators : commitments[m][n] = None
      BY <2>1, NoneAssumption DEF DealtInv, TypeInv, TypeOK
    <2> QED
      BY <2>1, <2>2, <2>3, <2>4, <2>5 DEF DealtInv
  <1>2. ASSUME NEW n \in Operators, NEW d \in Operators,
               handleReshareCommitment(n, d)
        PROVE  DealtInv'
    <2>1. commitments' = [commitments EXCEPT ![n][d] = deals[d]]
      BY <1>2 DEF handleReshareCommitment, SentDeals
    <2>2. \A m, e \in Operators : commitments'[m][e] =
              IF m = n /\ e = d THEN deals[d] ELSE commitments[m][e]
      BY <2>1 DEF TypeInv, TypeOK
    <2> QED
      BY <1>2, <2>2 DEF DealtInv, handleReshareCommitment
  <1>3. ASSUME NEW n \in Operators, SubmitCommitment(n) \/ SubmitButFail(n)
        PROVE  DealtInv'
    <2>1. /\ registry' = [registry EXCEPT ![n] = <<deals[n].poly, deals[n].ver>>]
          /\ UNCHANGED <<deals, atCutoff>>
          /\ deals[n] # None
      BY <1>3 DEF SubmitCommitment, SubmitButFail, SubmittedHash, SentDeals,
                  HashReshareCommitment, TypeInv, PhaseInv
    <2>2. \A m \in Operators : phase'[m] = "idle" => phase[m] = "idle"
      BY <1>3 DEF SubmitCommitment, SubmitButFail, TypeInv, TypeOK
    <2>3. \A m, d \in Operators :
              commitments'[m][d] # None => commitments'[m][d] = commitments[m][d]
      BY <1>3, CleanupForgets DEF SubmitCommitment, SubmitButFail
    <2>4. \A m \in Operators : registry'[m] =
              IF m = n THEN <<deals[n].poly, deals[n].ver>> ELSE registry[m]
      BY <2>1 DEF TypeInv, TypeOK
    <2> QED
      BY <2>1, <2>2, <2>3, <2>4 DEF DealtInv
  <1>4. CASE PassCutoff
    BY <1>4 DEF PassCutoff, DealtInv
  <1>5. ASSUME NEW n \in Operators, UNCHANGED <<deals, registry, atCutoff>>,
               \E p \in Phases \ {"idle"} : phase' = [phase EXCEPT ![n] = p],
               UNCHANGED commitments \/ cleanupSession(n)
        PROVE  DealtInv'
    <2>1. \A m, d \in Operators :
              commitments'[m][d] # None => commitments'[m][d] = commitments[m][d]
      BY <1>5, CleanupForgets
    <2>2. \A m \in Operators : phase'[m] = "idle" => phase[m] = "idle"
      BY <1>5 DEF TypeInv, TypeOK
    <2> QED
      BY <1>5, <2>1, <2>2 DEF DealtInv
  <1>6. ASSUME UNCHANGED <<deals, registry, atCutoff, phase, commitments>>
        PROVE  DealtInv'
    BY <1>6 DEF DealtInv
  <1> QED
    <2>1. CASE \E n \in Operators :
                 \/ \E answered \in SUBSET Operators : StartNew(n, answered)
                 \/ VerifyAndAcknowledge(n) \/ SelectDealers(n)
                 \/ FinalizeExisting(n) \/ FinalizeNew(n)
                 \/ AbortOnMPK(n) \/ Abort(n)
      BY <2>1, <1>5 DEF StartNew, VerifyAndAcknowledge, SelectDealers,
            FinalizeExisting, FinalizeNew, AbortOnMPK, Abort
    <2>2. CASE \E n, d \in Operators :
                 \/ handleReshareShare(n, d) \/ handleReshareAck(d, n)
                 \/ handleCommitmentBroadcast(n, d)
                 \/ fetchAndVerifyReshareShare(n, d)
      BY <2>2, <1>6 DEF handleReshareShare, handleReshareAck,
            handleCommitmentBroadcast, fetchAndVerifyReshareShare
    <2>3. CASE UNCHANGED vars
      BY <2>3, <1>6 DEF vars
    <2> QED
      BY <1>1, <1>2, <1>3, <1>4, <2>1, <2>2, <2>3 DEF Next, StepsButSelection

(* With its commitments delivered, an operator keeps every dealer of the   *)
(* chosen version that it expects and that made the cutoff.                *)
LEMMA SelectsWholeSet ==
    ASSUME TypeInv, DealtInv, NEW n \in Operators,
           CommitmentsDelivered(n), SelectDealers(n)
    PROVE  \E sel : /\ selected' = [selected EXCEPT ![n] = sel]
                    /\ sel.kept = OnChainDealers(n, sel.src)
  <1> DEFINE verified == verifiedDealers(n)
             vers == [d \in verified |-> commitments[n][d].ver]
             sel == SelectMajoritySourceVersion(verified, vers, newThreshold)
  <1>1. sel # NoSelection /\ selected' = [selected EXCEPT ![n] = sel]
    BY Zenon DEF SelectDealers
  <1>2. \A d \in deriveAgreedDealerSet(n) :
            /\ d \in Operators /\ d \in expected[n] /\ atCutoff[d] # None
            /\ commitments[n][d] = deals[d] /\ deals[d] \in Deal
            /\ atCutoff[d] = <<deals[d].poly, deals[d].ver>>
    BY DEF deriveAgreedDealerSet, CommitmentsDelivered, DealtInv, TypeInv, TypeOK
  <1>3. verified = deriveAgreedDealerSet(n)
    BY <1>2, NoneAssumption DEF verifiedDealers, VerifyDealerSourceVersions,
          HashReshareCommitment
  <1> HIDE DEF verified
  <1>4. verified \in SUBSET Operators /\ vers \in [verified -> Versions \cup {0}]
    BY <1>2, <1>3 DEF Deal
  <1>5. \A d \in verified : vers[d] = atCutoff[d][2]
    BY <1>2, <1>3
  <1> HIDE DEF vers
  <1>6. sel.kept = {d \in verified : vers[d] = sel.src}
    BY <1>1, <1>4, SelectMajorityQuorum
  <1> HIDE DEF sel
  <1>7. sel.kept = OnChainDealers(n, sel.src)
    BY <1>3, <1>5, <1>6 DEF OnChainDealers, deriveAgreedDealerSet
  <1> QED
    BY <1>1, <1>7

(* Selections stay what they were: expected dealers are fixed when the     *)
(* round starts, the registry is read at the one cutoff.                   *)
LEMMA WholeSetStep ==
    ASSUME TypeInv, SafetyInv, DealtInv, WholeSetInv, [DeliveredNext]_vars
    PROVE  WholeSetInv'
  <1>1. ASSUME NEW n \in Operators, CommitmentsDelivered(n), SelectDealers(n)
        PROVE  WholeSetInv'
    <2>1. PICK sel : /\ selected' = [selected EXCEPT ![n] = sel]
                     /\ sel.kept = OnChainDealers(n, sel.src)
      BY <1>1, SelectsWholeSet
    <2>2. UNCHANGED <<expected, atCutoff>> /\ phase'[n] = "assembling"
      BY <1>1 DEF SelectDealers, TypeInv, TypeOK
    <2>3. \A m \in Operators : m # n => /\ selected'[m] = selected[m]
                                        /\ phase'[m] = phase[m]
      BY <1>1, <2>1 DEF SelectDealers, TypeInv, TypeOK
    <2>4. selected'[n] = sel
      BY <2>1 DEF TypeInv, TypeOK
    <2>5. \A m \in Operators : \A v : OnChainDealers(m, v)' = OnChainDealers(m, v)
      BY <2>2 DEF OnChainDealers
    <2> QED
      BY <2>1, <2>2, <2>3, <2>4, <2>5 DEF WholeSetInv
  <1>2. ASSUME NEW n \in Operators, phase[n] = "idle", phase'[n] # "idle",
               UNCHANGED <<selected, atCutoff>>,
               \A m \in Operators : m # n => /\ phase'[m] = phase[m]
                                             /\ expected'[m] = expected[m]
        PROVE  WholeSetInv'
    BY <1>2 DEF WholeSetInv, OnChainDealers
  <1>3. CASE PassCutoff
    BY <1>3 DEF PassCutoff, WholeSetInv, OnChainDealers, SafetyInv
  <1>4. ASSUME UNCHANGED <<expected, selected, atCutoff>>,
               \A n \in Operators : phase'[n] = "idle" => phase[n] = "idle"
        PROVE  WholeSetInv'
    BY <1>4 DEF WholeSetInv, OnChainDealers
  <1> QED
    <2>1. CASE \E n \in Operators : StartExisting(n)
      BY <2>1, <1>2 DEF StartExisting, TypeInv, TypeOK
    <2>2. CASE \E n \in Operators, answered \in SUBSET Operators :
                   StartNew(n, answered)
      BY <2>2, <1>2 DEF StartNew, TypeInv, TypeOK
    <2>3. CASE \E n \in Operators : VerifyAndAcknowledge(n)
                 \/ SubmitCommitment(n) \/ SubmitButFail(n)
                 \/ FinalizeExisting(n) \/ FinalizeNew(n)
                 \/ AbortOnMPK(n) \/ Abort(n)
      BY <2>3, <1>4 DEF VerifyAndAcknowledge, SubmitCommitment, SubmitButFail,
            FinalizeExisting, FinalizeNew, AbortOnMPK, Abort, TypeInv, TypeOK
    <2>4. CASE \E n, d \in Operators : handleReshareCommitment(n, d)
                 \/ handleReshareShare(n, d) \/ handleReshareAck(d, n)
                 \/ handleCommitmentBroadcast(n, d)
                 \/ fetchAndVerifyReshareShare(n, d)
      BY <2>4, <1>4 DEF handleReshareCommitment, handleReshareShare,
            handleReshareAck, handleCommitmentBroadcast,
            fetchAndVerifyReshareShare
    <2>5. CASE UNCHANGED vars
      BY <2>5, <1>4 DEF vars
    <2> QED
      BY <1>1, <1>3, <2>1, <2>2, <2>3, <2>4, <2>5
         DEF DeliveredNext, StepsButSelection

(* A round whose network delivers is a round.                              *)
LEMMA DeliveredIsARound == DeliveredSpec => Spec
  <1>1. [DeliveredNext]_vars => [Next]_vars
    BY DEF DeliveredNext, Next
  <1> QED
    BY <1>1, PTL DEF DeliveredSpec, Spec

(* The operators that finalized expected the same dealers, as they do when *)
(* their versions name the same participants and a joining operator got    *)
(* every key holder's answer.                                              *)
ExpectAlike ==
    \A m, n \in Operators :
        Finalized(m) /\ Finalized(n) => expected[m] = expected[n]

(* The critical invariant of RunReshareAsExistingOperator and of the join  *)
(* path: operators that expect the same dealers finalize on one dealer     *)
(* set, for correct dealers, if the commitments of dealers on chain arrive.*)
(* Operators may be late, crash, time out or lag versions behind.          *)
THEOREM DealerSetsAgree ==
    ASSUME Faulty = {}
    PROVE  DeliveredSpec /\ []ExpectAlike => []IdenticalDealerSet
  <1>1. Init => DealtInv /\ WholeSetInv
    BY DEF Init, DealtInv, WholeSetInv
  <1>2. TypeInv /\ DealtInv /\ [Next]_vars => DealtInv'
    BY DealtStep
  <1>3. TypeInv /\ SafetyInv /\ DealtInv /\ WholeSetInv /\ [DeliveredNext]_vars
            => WholeSetInv'
    BY WholeSetStep
  <1>4. TypeInv /\ SafetyInv /\ WholeSetInv /\ ExpectAlike
            => IdenticalDealerSet
    <2> SUFFICES ASSUME TypeInv, SafetyInv, WholeSetInv, ExpectAlike,
                        NEW m \in Operators, NEW n \in Operators,
                        Finalized(m), Finalized(n)
                 PROVE  selected[m].kept = selected[n].kept
      BY DEF IdenticalDealerSet
    <2>1. selected[m] # NoSelection /\ selected[n] # NoSelection
      BY DEF SafetyInv
    <2>2. selected[m].src = selected[n].src
      BY <2>1, SelectionsAgree
    <2>3. expected[m] = expected[n]
      BY DEF ExpectAlike
    <2> QED
      BY <2>1, <2>2, <2>3 DEF WholeSetInv, OnChainDealers
  <1> QED
    BY <1>1, <1>2, <1>3, <1>4, DeliveredIsARound, SafetyInvInvariant, PTL
       DEF DeliveredSpec, Spec

(* A round without joining operators, on versions that all had the same    *)
(* participants, keeps everybody's expectation the same.                   *)
LEMMA StableExpectation ==
    ASSUME NEW P, \A v \in Versions : expectedReshareDealers(v) = P,
           \A a \in InitialActive : \A n \in Operators : a[n] # 0
    PROVE  Spec => []ExpectAlike
  <1> DEFINE Stable == \A n \in Operators :
                 active[n] # 0 /\ (phase[n] = "idle" \/ expected[n] = P)
  <1>1. Init => Stable
    BY DEF Init
  <1>2. TypeInv /\ Stable /\ [Next]_vars => Stable'
    <2> SUFFICES ASSUME TypeInv, Stable, [Next]_vars PROVE Stable'
      OBVIOUS
    <2>1. ASSUME NEW n \in Operators, StartExisting(n) PROVE Stable'
      <3>1. active[n] \in Versions
        BY <2>1, VersionsAssumption DEF StartExisting, TypeInv, TypeOK, PhaseInv
      <3>2. expected' = [expected EXCEPT ![n] = P] /\ UNCHANGED active
        BY <2>1, <3>1 DEF StartExisting
      <3>3. \A m \in Operators : m # n => phase'[m] = phase[m]
        BY <2>1 DEF StartExisting, TypeInv, TypeOK
      <3> QED
        BY <3>2, <3>3 DEF TypeInv, TypeOK
    <2>2. ASSUME NEW n \in Operators, NEW answered \in SUBSET Operators,
                 StartNew(n, answered)
          PROVE  FALSE
      BY <2>2 DEF StartNew
    <2>3. ASSUME UNCHANGED expected,
                 \A n \in Operators : /\ phase[n] = "idle" => phase'[n] = "idle"
                                      /\ active'[n] \in {active[n], SessionTimestamp}
          PROVE  Stable'
      BY <2>3, VersionsAssumption
    <2>4. CASE \E n \in Operators : VerifyAndAcknowledge(n)
                 \/ SubmitCommitment(n) \/ SubmitButFail(n) \/ SelectDealers(n)
                 \/ FinalizeExisting(n) \/ FinalizeNew(n)
                 \/ AbortOnMPK(n) \/ Abort(n)
      <3>1. UNCHANGED expected
        BY <2>4 DEF VerifyAndAcknowledge, SubmitCommitment, SubmitButFail,
              SelectDealers, FinalizeExisting, FinalizeNew, AbortOnMPK, Abort
      <3>2. \A n \in Operators : phase[n] = "idle" => phase'[n] = "idle"
        BY <2>4 DEF VerifyAndAcknowledge, SubmitCommitment, SubmitButFail,
              SelectDealers, FinalizeExisting, FinalizeNew, AbortOnMPK, Abort,
              InSession, TypeInv, TypeOK
      <3>3. \A n \in Operators : active'[n] \in {active[n], SessionTimestamp}
        BY <2>4 DEF VerifyAndAcknowledge, SubmitCommitment, SubmitButFail,
              SelectDealers, FinalizeExisting, FinalizeNew, AbortOnMPK, Abort,
              TypeInv, TypeOK
      <3> QED
        BY <2>3, <3>1, <3>2, <3>3, Zenon
    <2>5. CASE \E n, d \in Operators : handleReshareCommitment(n, d)
                 \/ handleReshareShare(n, d) \/ handleReshareAck(d, n)
                 \/ handleCommitmentBroadcast(n, d)
                 \/ fetchAndVerifyReshareShare(n, d)
      <3>1. UNCHANGED <<expected, phase, active>>
        BY <2>5 DEF handleReshareCommitment, handleReshareShare,
              handleReshareAck, handleCommitmentBroadcast,
              fetchAndVerifyReshareShare
      <3> QED
        BY <2>3, <3>1
    <2>6. CASE PassCutoff \/ UNCHANGED vars
      BY <2>6, <2>3 DEF PassCutoff, vars
    <2> QED
      BY <2>1, <2>2, <2>4, <2>5, <2>6 DEF Next, StepsButSelection
  <1>3. TypeInv /\ Stable => ExpectAlike
    BY DEF ExpectAlike, TypeInv, PhaseInv
  <1> HIDE DEF Stable
  <1> QED
    BY <1>1, <1>2, <1>3, TypeInvInvariant, PTL DEF Spec

(* In particular: while the participants stay the same and nobody joins,   *)
(* operators finalize on one dealer set, whatever versions they hold.      *)
THEOREM StableSetsAgree ==
    ASSUME Faulty = {},
           NEW P, \A v \in Versions : expectedReshareDealers(v) = P,
           \A a \in InitialActive : \A n \in Operators : a[n] # 0
    PROVE  DeliveredSpec => []IdenticalDealerSet
  BY StableExpectation, DealerSetsAgree, DeliveredIsARound, PTL
=============================================================================

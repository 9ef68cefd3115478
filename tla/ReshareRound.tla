---------------------------- MODULE ReshareRound ----------------------------
(***************************************************************************)
(* One reshare round of the KMS: RunReshareAsExistingOperator and          *)
(* RunReshareAsNewOperator (pkg/node/node.go) running on every operator at *)
(* once, with the HTTP handlers that feed their sessions, the commitment   *)
(* registry they submit to, and the finalize path that derives the agreed  *)
(* dealer set from it.                                                     *)
(*                                                                         *)
(* Every existing operator deals a fresh polynomial anchored at its share  *)
(* of its ACTIVE key version, and tells its peers which version that was.  *)
(* The dealers' hashes of (commitments, source version) land in the        *)
(* registry; each operator reads the registry at one deterministic cutoff, *)
(* keeps the dealers whose P2P commitments hash to what they submitted,    *)
(* keeps of those the ones on the majority source version, fetches the     *)
(* shares it misses and installs the combination as its new version.       *)
(*                                                                         *)
(* Simplifications.                                                        *)
(*  - A polynomial is an element of Polynomials; SourceOf says which       *)
(*    version's share its constant term is (0: of none). A share is the    *)
(*    name of the polynomial it lies on. A hash is its preimage (no        *)
(*    collisions).                                                         *)
(*  - Messages: a message that was sent may be delivered at any later      *)
(*    time, or never. Duplicates are refused by the session handlers.      *)
(*  - What a session collected is forgotten after it was read for the last *)
(*    time (acknowledgements once submitted, shares and verifications once *)
(*    the dealers are selected), and nothing of the kind is recorded later.*)
(*  - Timeouts may strike in every wait (Abort; EnoughAcks has the         *)
(*    fallback of the acknowledgement wait).                               *)
(*  - The round's operator set and the operators' active versions do not   *)
(*    change during the round except by the round itself.                  *)
(***************************************************************************)
EXTENDS Threshold

CONSTANTS
    Operators,       \* the operator set of the round, as sorted addresses
    Polynomials,     \* names of dealing polynomials
    SourceOf,        \* the version whose share a polynomial re-deals, 0: none
    Versions,        \* key versions an operator may hold when the round starts
    ParticipantIDs,  \* the share holders recorded with each version
    Corrupt,         \* versions whose shares do not reconstruct the MPK
    InitialActive,   \* possible assignments of active versions, 0: no key
    NilMPK,          \* operators whose active version carries no MPK
    Faulty,          \* dealers that may deal differently to each recipient
    FaultyDeals,     \* what those may deal
    SessionTimestamp,\* names the round and the version it creates
    None             \* an absent map entry

Deal == [poly : Polynomials, ver : Versions \cup {0}]
Hash == Polynomials \X (Versions \cup {0})

ASSUME OperatorsAssumption ==
    /\ Operators \subseteq Nat
    /\ IsFiniteSet(Operators)
    /\ Operators # {}
    /\ Faulty \subseteq Operators
    /\ FaultyDeals \subseteq Deal
    /\ NilMPK \subseteq Operators

ASSUME VersionsAssumption ==
    /\ Versions \subseteq Nat \ {0}
    /\ SessionTimestamp \in Nat \ {0}
    /\ \A v \in Versions : v < SessionTimestamp
    /\ SourceOf \in [Polynomials -> Versions \cup {0}]
    /\ InitialActive \subseteq [Operators -> Versions \cup {0}]

ASSUME NoneAssumption ==
    /\ None \notin Deal
    /\ None \notin Hash
    /\ None \notin Polynomials

ASSUME ParticipantsAssumption ==
    \A v \in Versions : /\ ParticipantIDs[v] # {}
                        /\ IsFiniteSet(ParticipantIDs[v])

VARIABLES
    phase,        \* where each operator's round goroutine is
    active,       \* the version of each operator's active key share, 0: none
    mpk,          \* whether that version carries the master public key
    expected,     \* the dealers an operator expects (existing share holders)
    deals,        \* what each dealer generated this round
    commitments,  \* session.commitments with session.sourceVersions
    shares,       \* session.shares
    validShares,  \* dealers whose share passed the polynomial check
    acks,         \* session.acks of the operator as a dealer
    broadcasts,   \* whom each dealer's proof broadcast is addressed to
    verifiedOperators, \* dealers whose proof broadcast was verified
    registry,     \* the commitment registry on L2, this epoch
    cutoff,       \* whether the L2 chain has passed the cutoff height
    atCutoff,     \* the registry as it stands at the cutoff height
    selected,     \* the dealer set and source version chosen at finalize
    finalShares,  \* the verified shares at hand of the dealers in it
    blamed        \* the version an MPK abort was counted against, 0: none

vars == <<phase, active, mpk, expected, deals, commitments, shares,
          validShares, acks, broadcasts, verifiedOperators, registry,
          cutoff, atCutoff, selected, finalShares, blamed>>

Phases == {"idle", "collecting", "acking", "verifying", "assembling",
           "done", "aborted"}

(* Phases in which the operator's session is registered.                   *)
InSession == {"collecting", "acking", "verifying", "assembling"}

N == Cardinality(Operators)
newThreshold == CalculateThreshold(N)

NoSelection == [src |-> 0, kept |-> {}]

-----------------------------------------------------------------------------
(* Pure parts of the finalize path.                                        *)

(* Mutant: the hash does not bind the source version.                      *)
HashWithoutVersion(deal) == <<deal.poly>>

HashReshareCommitment(deal) == <<deal.poly, deal.ver>>

(* Mutant: a share is accepted once its dealer's commitments are known.    *)
AcceptAnyShare(share, commitment) == commitment # None

VerifyNewShare(share, commitment) ==
    /\ commitment # None
    /\ share = commitment.poly

validateReshareOperatorOverlap(old) ==
    Cardinality(old \cap Operators) >= CalculateThreshold(Cardinality(old))

expectedReshareDealers(v) == Operators \cap ParticipantIDs[v]

(* Mutant: the commitments are not compared with the registry.             *)
TrustPeerVersions(agreed, onChainHashes, commits) ==
    {d \in agreed : commits[d] # None}

(* Only dealers whose P2P commitments and version hash to the on-chain     *)
(* value; one whose commitments did not arrive is skipped.                 *)
VerifyDealerSourceVersions(agreed, onChainHashes, commits) ==
    {d \in agreed : /\ commits[d] # None
                    /\ HashReshareCommitment(commits[d]) = onChainHashes[d]}

(* The version most dealers dealt from (ties to the highest), 0 being an   *)
(* unknown version, and the dealers on it; NoSelection below threshold.    *)
SelectMajoritySourceVersion(dealers, vers, threshold) ==
    LET On(v)  == {d \in dealers : vers[d] = v}
        known  == {vers[d] : d \in dealers} \ {0}
        best   == CHOOSE v \in known : \A w \in known :
                      \/ Cardinality(On(w)) < Cardinality(On(v))
                      \/ Cardinality(On(w)) = Cardinality(On(v)) /\ w <= v
    IN  IF known = {} \/ Cardinality(On(best)) < threshold
          THEN NoSelection
          ELSE [src |-> best, kept |-> On(best)]

(* Mutant: the group key is not compared with the carried-forward MPK.     *)
ValidateDealersOnly(sel, commits) ==
    \A d \in sel.kept : SourceOf[commits[d].poly] = sel.src

(* The group key implied by the kept dealers is the master public key iff  *)
(* all of them re-dealt their shares of one sound polynomial and they are  *)
(* enough to interpolate it.                                               *)
ValidateReshareMasterPublicKey(sel, commits) ==
    /\ sel.src \notin Corrupt
    /\ \A d \in sel.kept : SourceOf[commits[d].poly] = sel.src
    /\ Cardinality(sel.kept) >=
           CalculateThreshold(Cardinality(ParticipantIDs[sel.src]))

-----------------------------------------------------------------------------
NoEntries == [d \in Operators |-> None]

Init ==
    /\ phase = [n \in Operators |-> "idle"]
    /\ active \in InitialActive
    /\ mpk = [n \in Operators |-> active[n] # 0 /\ n \notin NilMPK]
    /\ expected = [n \in Operators |-> {}]
    /\ deals = NoEntries
    /\ commitments = [n \in Operators |-> NoEntries]
    /\ shares = [n \in Operators |-> NoEntries]
    /\ validShares = [n \in Operators |-> {}]
    /\ acks = [n \in Operators |-> {}]
    /\ broadcasts = [n \in Operators |-> {}]
    /\ verifiedOperators = [n \in Operators |-> {}]
    /\ registry = NoEntries
    /\ cutoff = FALSE
    /\ atCutoff = NoEntries
    /\ selected = [n \in Operators |-> NoSelection]
    /\ finalShares = [n \in Operators |-> NoEntries]
    /\ blamed = [n \in Operators |-> 0]

Become(n, p) == phase' = [phase EXCEPT ![n] = p]

IsDealer(n) == deals[n] # None

unchangedKeys    == UNCHANGED <<active, mpk>>
unchangedDealing == UNCHANGED <<expected, deals, broadcasts>>
unchangedInbox   == UNCHANGED <<commitments, shares, acks, verifiedOperators>>
unchangedChain   == UNCHANGED <<registry, cutoff, atCutoff>>
unchangedOutcome == UNCHANGED <<selected, finalShares, blamed>>

(* The deferred cleanupSession: the session and all it collected is gone.  *)
cleanupSession(n) ==
    /\ commitments' = [commitments EXCEPT ![n] = NoEntries]
    /\ shares' = [shares EXCEPT ![n] = NoEntries]
    /\ acks' = [acks EXCEPT ![n] = {}]
    /\ verifiedOperators' = [verifiedOperators EXCEPT ![n] = {}]

-----------------------------------------------------------------------------
(* RunReshareAsExistingOperator up to the first wait: the operator set is  *)
(* checked against the active version's participants, a polynomial is      *)
(* dealt from the active share, the session is created with the operator's *)
(* own share and commitments in it, and everything is sent out.            *)
StartExisting(n) ==
    /\ phase[n] = "idle"
    /\ active[n] # 0
    /\ expectedReshareDealers(active[n]) # {}
    /\ validateReshareOperatorOverlap(ParticipantIDs[active[n]])
    /\ \E p \in Polynomials :
         /\ SourceOf[p] = active[n]
         /\ deals' = [deals EXCEPT ![n] = [poly |-> p, ver |-> active[n]]]
         /\ commitments' = [commitments EXCEPT ![n][n] = deals'[n]]
         /\ shares' = [shares EXCEPT ![n][n] = p]
    /\ expected' = [expected EXCEPT ![n] = expectedReshareDealers(active[n])]
    /\ Become(n, "collecting")
    /\ unchangedKeys /\ unchangedChain /\ unchangedOutcome
    /\ UNCHANGED <<validShares, acks, broadcasts, verifiedOperators>>

(* RunReshareAsNewOperator up to its first wait: the peers that answered   *)
(* /pubkey with a key are the ones it expects to deal.                     *)
StartNew(n, answered) ==
    /\ phase[n] = "idle"
    /\ active[n] = 0
    /\ answered # {}
    /\ \A m \in answered : active[m] # 0
    /\ expected' = [expected EXCEPT ![n] = answered]
    /\ Become(n, "collecting")
    /\ unchangedKeys /\ unchangedInbox /\ unchangedChain /\ unchangedOutcome
    /\ UNCHANGED <<deals, validShares, broadcasts>>

(* What a dealer may put on the wire: its deal, unless it is faulty.       *)
SentDeals(d) == IF d \in Faulty THEN FaultyDeals ELSE {deals[d]}

(* Commitments and source version are stored together; a second message of *)
(* the dealer is refused.                                                  *)
HandleReceivedCommitment(n, d, c) ==
    /\ commitments[n][d] = None
    /\ commitments' = [commitments EXCEPT ![n][d] = c]

(* A dealer's commitments arrive while the operator's session exists.      *)
handleReshareCommitment(n, d) ==
    /\ phase[n] \in {"collecting", "acking", "verifying"}
    /\ IsDealer(d)
    /\ \E c \in SentDeals(d) : HandleReceivedCommitment(n, d, c)
    /\ unchangedKeys /\ unchangedDealing /\ unchangedChain /\ unchangedOutcome
    /\ UNCHANGED <<phase, shares, validShares, acks, verifiedOperators>>

(* A second share of the dealer is refused.                                *)
HandleReceivedShare(n, d, share) ==
    /\ shares[n][d] = None
    /\ shares' = [shares EXCEPT ![n][d] = share]

(* A share pushed by its dealer arrives.                                   *)
handleReshareShare(n, d) ==
    /\ phase[n] = "collecting"
    /\ IsDealer(d)
    /\ \E c \in SentDeals(d) : HandleReceivedShare(n, d, c.poly)
    /\ unchangedKeys /\ unchangedDealing /\ unchangedChain /\ unchangedOutcome
    /\ UNCHANGED <<phase, commitments, validShares, acks, verifiedOperators>>

(* Whose shares and commitments count: all operators' for a dealer, the    *)
(* existing ones' for a joining operator.                                  *)
Contributors(n) == IF IsDealer(n) THEN Operators ELSE expected[n]

(* Enough shares and commitments are in: they are snapshotted, each share  *)
(* is checked against its dealer's commitments, valid ones acknowledged,   *)
(* invalid ones dropped from the session.                                  *)
VerifyAndAcknowledge(n) ==
    LET gotShare == {d \in Contributors(n) : shares[n][d] # None}
        gotComm  == {d \in Contributors(n) : commitments[n][d] # None}
        required == CalculateThreshold(Cardinality(expected[n]))
        valid    == {d \in gotShare :
                        VerifyNewShare(shares[n][d], commitments[n][d])}
    IN  /\ phase[n] = "collecting"
        /\ Cardinality(gotShare) >= required
        /\ Cardinality(gotComm) >= required
        /\ validShares' = [validShares EXCEPT ![n] = valid]
        /\ shares' = [shares EXCEPT ![n] =
                        [d \in Operators |-> IF d \in gotShare \ valid
                                               THEN None ELSE shares[n][d]]]
        /\ Become(n, IF IsDealer(n) THEN "acking" ELSE "verifying")
        /\ unchangedKeys /\ unchangedDealing
        /\ unchangedChain /\ unchangedOutcome
        /\ UNCHANGED <<commitments, acks, verifiedOperators>>

(* A second acknowledgement of the player is refused.                      *)
HandleReceivedAck(d, n) ==
    /\ n \notin acks[d]
    /\ acks' = [acks EXCEPT ![d] = @ \cup {n}]

(* Player n's acknowledgement of a share it found valid arrives at dealer  *)
(* d.                                                                      *)
handleReshareAck(d, n) ==
    /\ phase[d] \in {"collecting", "acking"}
    /\ n # d
    /\ d \in validShares[n]
    /\ HandleReceivedAck(d, n)
    /\ unchangedKeys /\ unchangedDealing /\ unchangedChain /\ unchangedOutcome
    /\ UNCHANGED <<phase, commitments, shares, validShares, verifiedOperators>>

(* waitForAcks, then after its timeout the fallback of one ack fewer.      *)
EnoughAcks(n) ==
    \/ Cardinality(acks[n]) >= Smaller(newThreshold, N - 1)
    \/ Cardinality(acks[n]) >= Larger(newThreshold - 1, 1)

(* BroadcastCommitmentsWithProofs sends in address order and returns at    *)
(* the first operator that did not acknowledge; the proof of a one-leaf    *)
(* tree is empty, and an empty proof is refused by its receiver.           *)
ProofRecipients(n) ==
    IF Cardinality(acks[n]) < 2 THEN {}
    ELSE {m \in acks[n] :
             \A o \in Operators \ {n} : o <= m => o \in acks[n]}

(* What a dealer commits to on chain.                                      *)
SubmittedHash(n) ==
    {HashReshareCommitment(c) : c \in SentDeals(n)}

(* submitCommitmentWithRetry succeeded; the proofs are broadcast.          *)
SubmitCommitment(n) ==
    /\ phase[n] = "acking"
    /\ acks[n] # {}
    /\ EnoughAcks(n)
    /\ \E h \in SubmittedHash(n) : registry' = [registry EXCEPT ![n] = h]
    /\ broadcasts' = [broadcasts EXCEPT ![n] = ProofRecipients(n)]
    /\ acks' = [acks EXCEPT ![n] = {}]
    /\ Become(n, "verifying")
    /\ unchangedKeys /\ unchangedOutcome
    /\ UNCHANGED <<expected, deals, commitments, shares, validShares,
                   verifiedOperators, cutoff, atCutoff>>

(* The transaction was mined but its caller saw an error; the contract     *)
(* reverts every retry as already submitted, and the round is given up.    *)
SubmitButFail(n) ==
    /\ phase[n] = "acking"
    /\ acks[n] # {}
    /\ EnoughAcks(n)
    /\ \E h \in SubmittedHash(n) : registry' = [registry EXCEPT ![n] = h]
    /\ Become(n, "aborted")
    /\ cleanupSession(n)
    /\ unchangedKeys /\ unchangedDealing /\ unchangedOutcome
    /\ UNCHANGED <<validShares, cutoff, atCutoff>>

(* Mutant: the registry is read at the head of the chain, again and again. *)
RereadRegistry ==
    /\ cutoff' = TRUE
    /\ atCutoff' = registry
    /\ unchangedKeys /\ unchangedDealing /\ unchangedInbox /\ unchangedOutcome
    /\ UNCHANGED <<phase, validShares, registry>>

(* The L2 chain reaches the height resolveCutoffL2 maps the round to.      *)
PassCutoff ==
    /\ ~cutoff
    /\ cutoff' = TRUE
    /\ atCutoff' = registry
    /\ unchangedKeys /\ unchangedDealing /\ unchangedInbox /\ unchangedOutcome
    /\ UNCHANGED <<phase, validShares, registry>>

(* Dealer d's broadcast must hold n's own ack of the share n received.     *)
VerifyOperatorBroadcast(n, d) ==
    /\ n \in broadcasts[d]
    /\ d \in validShares[n]
    /\ verifiedOperators' = [verifiedOperators EXCEPT ![n] = @ \cup {d}]

(* A dealer's broadcast arrives.                                           *)
handleCommitmentBroadcast(n, d) ==
    /\ phase[n] \in {"acking", "verifying"}
    /\ VerifyOperatorBroadcast(n, d)
    /\ unchangedKeys /\ unchangedDealing /\ unchangedChain /\ unchangedOutcome
    /\ UNCHANGED <<phase, commitments, shares, validShares, acks>>

(* Polynomially valid shares of dealers whose broadcast was verified, and  *)
(* the operator's own.                                                     *)
trustedDealerIDs(n) == validShares[n] \cap (verifiedOperators[n] \cup {n})

(* deriveAgreedDealerSet: the expected dealers the registry holds at the   *)
(* cutoff.                                                                 *)
deriveAgreedDealerSet(n) == {d \in expected[n] : atCutoff[d] # None}

(* The agreed dealers whose commitments and version the registry confirms. *)
verifiedDealers(n) ==
    VerifyDealerSourceVersions(deriveAgreedDealerSet(n), atCutoff,
                               commitments[n])

(* The choice of the dealer set to finalize on, and the shares at hand of  *)
(* the dealers in it. A joining operator skips the first quorum check.     *)
SelectDealers(n) ==
    LET sel == SelectMajoritySourceVersion(verifiedDealers(n),
                   [d \in verifiedDealers(n) |-> commitments[n][d].ver],
                   newThreshold)
    IN  /\ phase[n] = "verifying"
        /\ cutoff
        /\ IsDealer(n) =>
             Cardinality(deriveAgreedDealerSet(n)) >= newThreshold
        /\ Cardinality(verifiedDealers(n)) >= newThreshold
        /\ sel # NoSelection
        /\ selected' = [selected EXCEPT ![n] = sel]
        /\ finalShares' = [finalShares EXCEPT ![n] =
                [d \in Operators |->
                    IF d \in sel.kept \cap trustedDealerIDs(n)
                      THEN shares[n][d] ELSE None]]
        /\ shares' = [shares EXCEPT ![n] = NoEntries]
        /\ verifiedOperators' = [verifiedOperators EXCEPT ![n] = {}]
        /\ Become(n, "assembling")
        /\ unchangedKeys /\ unchangedDealing /\ unchangedChain
        /\ UNCHANGED <<commitments, acks, validShares, blamed>>

(* What a dealer answers a share request with, from its session or from    *)
(* the retained rounds, also when its own round is over.                   *)
handleReshareShareRequest(d) ==
    IF IsDealer(d) THEN {c.poly : c \in SentDeals(d)} ELSE {}

(* A missing share is requested and checked against the commitments.       *)
fetchAndVerifyReshareShare(n, d) ==
    /\ phase[n] = "assembling"
    /\ d \in selected[n].kept
    /\ finalShares[n][d] = None
    /\ \E share \in handleReshareShareRequest(d) :
         /\ VerifyNewShare(share, commitments[n][d])
         /\ finalShares' = [finalShares EXCEPT ![n][d] = share]
    /\ unchangedKeys /\ unchangedDealing /\ unchangedInbox /\ unchangedChain
    /\ UNCHANGED <<phase, validShares, selected, blamed>>

(* Mutant: the shares of dropped dealers are waited for as well.           *)
HoldsEveryExpectedShare(n) == \A d \in expected[n] : finalShares[n][d] # None

HoldsAllShares(n) == \A d \in selected[n].kept : finalShares[n][d] # None

(* The refreshed share is computed, the group key it implies validated     *)
(* against the carried-forward MPK, and the new version installed.         *)
FinalizeExisting(n) ==
    /\ phase[n] = "assembling"
    /\ IsDealer(n)
    /\ HoldsAllShares(n)
    /\ mpk[n]
    /\ ValidateReshareMasterPublicKey(selected[n], commitments[n])
    /\ active' = [active EXCEPT ![n] = SessionTimestamp]
    /\ Become(n, "done")
    /\ cleanupSession(n)
    /\ unchangedDealing /\ unchangedChain /\ unchangedOutcome
    /\ UNCHANGED <<mpk, validShares>>

(* Mutant: every failed validation counts against the active version.      *)
UngatedBlame(n) == deals[n].ver

(* The abort is counted against the version the operator dealt from, but   *)
(* only when that is the version the majority dealt from.                  *)
blamedVersion(n) ==
    IF deals[n].ver = selected[n].src THEN deals[n].ver ELSE 0

(* MPK validation failed.                                                  *)
AbortOnMPK(n) ==
    /\ phase[n] = "assembling"
    /\ IsDealer(n)
    /\ HoldsAllShares(n)
    /\ mpk[n]
    /\ ~ValidateReshareMasterPublicKey(selected[n], commitments[n])
    /\ blamed' = [blamed EXCEPT ![n] = blamedVersion(n)]
    /\ Become(n, "aborted")
    /\ cleanupSession(n)
    /\ unchangedKeys /\ unchangedDealing /\ unchangedChain
    /\ UNCHANGED <<validShares, selected, finalShares>>

(* The joining operator installs its first version. fetchMPKFromPeers may  *)
(* find no threshold of agreeing peers: the version then has no MPK.       *)
FinalizeNew(n) ==
    /\ phase[n] = "assembling"
    /\ ~IsDealer(n)
    /\ HoldsAllShares(n)
    /\ active' = [active EXCEPT ![n] = SessionTimestamp]
    /\ \E agreed \in BOOLEAN :
         /\ agreed => Cardinality({m \in Operators \ {n} : mpk[m]})
                         >= newThreshold
         /\ mpk' = [mpk EXCEPT ![n] = agreed]
    /\ Become(n, "done")
    /\ cleanupSession(n)
    /\ unchangedDealing /\ unchangedChain /\ unchangedOutcome
    /\ UNCHANGED validShares

(* Every other error return and timeout of the round. A dealer that gave   *)
(* up keeps serving the shares it retained. An operator that fails before  *)
(* its session exists, or is down, just stays idle; one that dies later    *)
(* aborts here and is not heard of again (no request reaches it).          *)
Abort(n) ==
    /\ phase[n] \in InSession
    /\ Become(n, "aborted")
    /\ cleanupSession(n)
    /\ unchangedKeys /\ unchangedDealing /\ unchangedChain /\ unchangedOutcome
    /\ UNCHANGED validShares

(* All but the selection of dealers, which TimelyReshare constrains.       *)
StepsButSelection ==
    \/ \E n \in Operators :
         \/ StartExisting(n)
         \/ \E answered \in SUBSET Operators : StartNew(n, answered)
         \/ VerifyAndAcknowledge(n)
         \/ SubmitCommitment(n) \/ SubmitButFail(n)
         \/ FinalizeExisting(n) \/ FinalizeNew(n)
         \/ AbortOnMPK(n) \/ Abort(n)
    \/ \E n, d \in Operators :
         \/ handleReshareCommitment(n, d) \/ handleReshareShare(n, d)
         \/ handleReshareAck(d, n)
         \/ handleCommitmentBroadcast(n, d)
         \/ fetchAndVerifyReshareShare(n, d)
    \/ PassCutoff

Next == StepsButSelection \/ \E n \in Operators : SelectDealers(n)

Spec == Init /\ [][Next]_vars

-----------------------------------------------------------------------------
Entry(S) == S \cup {None}

TypeOK ==
    /\ phase \in [Operators -> Phases]
    /\ active \in [Operators -> Versions \cup {0, SessionTimestamp}]
    /\ mpk \in [Operators -> BOOLEAN]
    /\ expected \in [Operators -> SUBSET Operators]
    /\ deals \in [Operators -> Entry(Deal)]
    /\ commitments \in [Operators -> [Operators -> Entry(Deal)]]
    /\ shares \in [Operators -> [Operators -> Entry(Polynomials)]]
    /\ validShares \in [Operators -> SUBSET Operators]
    /\ acks \in [Operators -> SUBSET Operators]
    /\ broadcasts \in [Operators -> SUBSET Operators]
    /\ verifiedOperators \in [Operators -> SUBSET Operators]
    /\ registry \in [Operators -> Entry(Hash)]
    /\ cutoff \in BOOLEAN
    /\ atCutoff \in [Operators -> Entry(Hash)]
    /\ selected \in [Operators -> [src : Versions \cup {0},
                                   kept : SUBSET Operators]]
    /\ finalShares \in [Operators -> [Operators -> Entry(Polynomials)]]
    /\ blamed \in [Operators -> Versions \cup {0}]

(* The operator holds the version this round creates.                      *)
Finalized(n) == active[n] = SessionTimestamp

(* No two operators choose dealers of different source versions, whatever  *)
(* messages each of them missed, whoever crashed or submitted late, and    *)
(* even if dealers tell their peers different versions: two quorums of     *)
(* verified dealers share one, and the registry binds it to one version.   *)
SourceAgreement ==
    \A m, n \in Operators :
        (selected[m].src # 0 /\ selected[n].src # 0)
            => selected[m].src = selected[n].src

(* A refreshed share is combined from exactly the polynomials its dealers  *)
(* committed to on chain before the cutoff, whether a share was pushed,    *)
(* verified early against commitments and broadcast, or fetched at the     *)
(* end. Operators with the same dealer set therefore hold shares of the    *)
(* same polynomial.                                                        *)
SharesOnCommittedPolynomials ==
    \A n \in Operators : Finalized(n) =>
        /\ Cardinality(selected[n].kept) >= newThreshold
        /\ \A d \in selected[n].kept :
               /\ atCutoff[d] # None
               /\ atCutoff[d] = <<finalShares[n][d], selected[n].src>>

(* An operator that held a key and finalizes holds a share of the same     *)
(* master secret: its dealers all re-dealt shares of one sound version and *)
(* are enough to interpolate it.                                           *)
SecretPreserved ==
    \A n \in Operators : (Finalized(n) /\ IsDealer(n)) =>
        /\ selected[n].src \notin Corrupt
        /\ \A d \in selected[n].kept :
               SourceOf[finalShares[n][d]] = selected[n].src
        /\ Cardinality(selected[n].kept) >=
               CalculateThreshold(Cardinality(ParticipantIDs[selected[n].src]))

(* Auto-heal counts a failed validation only against a version that really *)
(* is unsound, never against a sound one because a laggard or a late       *)
(* dealer was in the round (for correct dealers and a set that has not     *)
(* shrunk).                                                                *)
SoundVersionNotBlamed ==
    \A n \in Operators : blamed[n] # 0 => blamed[n] \in Corrupt

(* node.go's critical invariant: all operators finalize on one dealer set. *)
IdenticalDealerSet ==
    \A m, n \in Operators :
        (Finalized(m) /\ Finalized(n)) => selected[m].kept = selected[n].kept

-----------------------------------------------------------------------------
(* The round implements SourceConsensus: the first operator to select its  *)
(* dealers chooses the source version for all, however the later ones were *)
(* answered, and a key that is switched to (SetActiveVersion) refreshes    *)
(* that version, once.                                                     *)
Consensus == INSTANCE SourceConsensus WITH
    Members <- Operators, Sources <- Versions, Nothing <- 0,
    chosen <- {selected[n].src : n \in Operators} \ {0},
    refreshed <- [n \in Operators |-> IF Finalized(n) THEN selected[n].src ELSE 0]

ImplementsSourceConsensus == Consensus!Spec
=============================================================================

------------------------------ MODULE DKGRound ------------------------------
(***************************************************************************)
(* The genesis round: RunDKG (pkg/node/node.go) on every operator at once, *)
(* with the handlers that feed its session and the proof broadcasts that   *)
(* decide whose contribution counts.                                       *)
(*                                                                         *)
(* Every operator deals a random polynomial, waits for the shares and      *)
(* commitments of ALL operators, acknowledges the shares that verify,      *)
(* collects a threshold of acknowledgements of its own, submits, and       *)
(* broadcasts its commitments with the acknowledgements. The key is summed *)
(* over the dealers whose share verified and whose broadcast arrived; the  *)
(* wait for the broadcasts ends with a warning when it times out.          *)
(*                                                                         *)
(* Simplifications.                                                        *)
(*  - An operator's polynomials are named by Polynomials. WellFormed are   *)
(*    the ones with threshold coefficients. A share is the name of the     *)
(*    polynomial it lies on; a sum is the set of its <<dealer, polynomial>> *)
(*    terms.                                                               *)
(*  - A message that was sent may be delivered at any later time, or       *)
(*    never; the session refuses duplicates.                               *)
(*  - Nobody reads the registry in this round: a submission that fails is  *)
(*    an Abort.                                                            *)
(***************************************************************************)
EXTENDS Threshold

CONSTANTS
    Operators,     \* the operator set, as sorted addresses
    Polynomials,   \* what an operator may deal
    WellFormed,    \* the polynomials of the right degree
    Faulty,        \* dealers that may deal differently to each recipient
    None

ASSUME OperatorsAssumption ==
    /\ Operators \subseteq Nat
    /\ IsFiniteSet(Operators)
    /\ Operators # {}
    /\ Faulty \subseteq Operators

ASSUME PolynomialsAssumption ==
    /\ WellFormed \subseteq Polynomials
    /\ None \notin Polynomials

VARIABLES
    phase,        \* where each operator's round goroutine is
    deals,        \* the polynomial each operator generated
    commitments,  \* session.commitments
    shares,       \* session.shares
    validShares,  \* dealers whose share passed the polynomial check
    acks,         \* session.acks of the operator as a dealer
    broadcasts,   \* whom each dealer's proof broadcast is addressed to
    verifiedOperators, \* dealers whose proof broadcast was verified
    privateShare, \* terms of the private share of the installed version
    mpk,          \* terms of its master public key
    complete      \* history: it did not time out waiting for broadcasts

inbox == <<commitments, shares, acks, verifiedOperators>>
key   == <<privateShare, mpk, complete>>
vars  == <<phase, deals, validShares, broadcasts, inbox, key>>

Phases == {"idle", "collecting", "acking", "verifying", "done", "aborted"}
InSession == {"collecting", "acking", "verifying"}

N == Cardinality(Operators)
threshold == CalculateThreshold(N)

NoEntries == [d \in Operators |-> None]
Nobody == [n \in Operators |-> {}]

Init ==
    /\ phase = [n \in Operators |-> "idle"]
    /\ deals = NoEntries
    /\ commitments = [n \in Operators |-> NoEntries]
    /\ shares = [n \in Operators |-> NoEntries]
    /\ validShares = Nobody
    /\ acks = Nobody
    /\ broadcasts = Nobody
    /\ verifiedOperators = Nobody
    /\ privateShare = Nobody
    /\ mpk = Nobody
    /\ complete = [n \in Operators |-> FALSE]

Become(n, p) == phase' = [phase EXCEPT ![n] = p]

cleanupSession(n) ==
    /\ commitments' = [commitments EXCEPT ![n] = NoEntries]
    /\ shares' = [shares EXCEPT ![n] = NoEntries]
    /\ acks' = [acks EXCEPT ![n] = {}]
    /\ verifiedOperators' = [verifiedOperators EXCEPT ![n] = {}]

-----------------------------------------------------------------------------
(* RunDKG up to the first wait: the session holds the operator's own share *)
(* and commitments before anything is sent.                                *)
StartDKG(n) ==
    /\ phase[n] = "idle"
    /\ \E p \in WellFormed :
         /\ deals' = [deals EXCEPT ![n] = p]
         /\ commitments' = [commitments EXCEPT ![n][n] = p]
         /\ shares' = [shares EXCEPT ![n][n] = p]
    /\ Become(n, "collecting")
    /\ UNCHANGED <<validShares, acks, broadcasts, verifiedOperators, key>>

(* What a dealer may put on the wire.                                      *)
SentDeals(d) == IF d \in Faulty THEN Polynomials ELSE {deals[d]}

handleDKGCommitment(n, d) ==
    /\ phase[n] \in InSession
    /\ deals[d] # None
    /\ commitments[n][d] = None
    /\ \E p \in SentDeals(d) :
         commitments' = [commitments EXCEPT ![n][d] = p]
    /\ UNCHANGED <<phase, deals, shares, validShares, acks, broadcasts,
                   verifiedOperators, key>>

handleDKGShare(n, d) ==
    /\ phase[n] \in InSession
    /\ deals[d] # None
    /\ shares[n][d] = None
    /\ \E p \in SentDeals(d) : shares' = [shares EXCEPT ![n][d] = p]
    /\ UNCHANGED <<phase, deals, commitments, validShares, acks, broadcasts,
                   verifiedOperators, key>>

(* Mutant: a share is valid once its dealer's commitments are known.       *)
AcceptAnyShare(share, commitment) == commitment # None

VerifyShare(share, commitment) ==
    /\ commitment # None
    /\ share = commitment

(* All shares and commitments are in: valid shares are acknowledged.       *)
VerifyAndAcknowledge(n) ==
    /\ phase[n] = "collecting"
    /\ \A d \in Operators : shares[n][d] # None /\ commitments[n][d] # None
    /\ validShares' = [validShares EXCEPT ![n] =
           {d \in Operators : VerifyShare(shares[n][d], commitments[n][d])}]
    /\ Become(n, "acking")
    /\ UNCHANGED <<deals, broadcasts, inbox, key>>

(* Player n signs what it verified, so verifyAcknowledgement accepts it    *)
(* from a dealer that told everybody the same; a faulty dealer is not held *)
(* to the check. One that comes after the submission is never read.        *)
handleDKGAck(d, n) ==
    /\ phase[d] \in {"collecting", "acking"}
    /\ n # d
    /\ d \in validShares[n]
    /\ n \notin acks[d]
    /\ acks' = [acks EXCEPT ![d] = @ \cup {n}]
    /\ UNCHANGED <<phase, deals, commitments, shares, validShares, broadcasts,
                   verifiedOperators, key>>

(* Mutant: one acknowledgement fewer will do, as in a reshare.             *)
FewerAcks(n) == Cardinality(acks[n]) >= Larger(threshold - 1, 1)

waitForAcks(n) == Cardinality(acks[n]) >= Smaller(threshold, N - 1)

(* BroadcastCommitmentsWithProofs stops at the first operator, in address  *)
(* order, without an acknowledgement; a one-leaf tree has an empty proof,  *)
(* which its receiver refuses.                                             *)
ProofRecipients(n) ==
    IF Cardinality(acks[n]) < 2 THEN {}
    ELSE {m \in acks[n] :
             \A o \in Operators \ {n} : o <= m => o \in acks[n]}

SubmitCommitment(n) ==
    /\ phase[n] = "acking"
    /\ waitForAcks(n)
    /\ acks[n] # {}
    /\ broadcasts' = [broadcasts EXCEPT ![n] = ProofRecipients(n)]
    /\ acks' = [acks EXCEPT ![n] = {}]
    /\ Become(n, "verifying")
    /\ UNCHANGED <<deals, commitments, shares, validShares,
                   verifiedOperators, key>>

(* The broadcast must carry n's acknowledgement of the share n received.   *)
(* Its signature is not looked at, nor is the registry: a faulty dealer    *)
(* can write one for any share it sent.                                    *)
VerifyOperatorBroadcast(n, d) ==
    \/ n \in broadcasts[d]
    \/ d \in Faulty /\ shares[n][d] # None

handleCommitmentBroadcast(n, d) ==
    /\ phase[n] \in InSession
    /\ n # d
    /\ VerifyOperatorBroadcast(n, d)
    /\ verifiedOperators' = [verifiedOperators EXCEPT ![n] = @ \cup {d}]
    /\ UNCHANGED <<phase, deals, commitments, shares, validShares, acks,
                   broadcasts, key>>

(* Mutant: the operator's own contribution needs a broadcast too.          *)
VerifiedByOthers(n) == validShares[n] \cap verifiedOperators[n]

(* Shares that verified, of dealers whose broadcast did, and its own.      *)
trustedDealerIDs(n) == validShares[n] \cap (verifiedOperators[n] \cup {n})

(* FinalizeKeyShare sums the shares of the trusted dealers, and those of   *)
(* their commitments that have threshold entries.                          *)
FinalizeKeyShare(n) ==
    /\ privateShare' = [privateShare EXCEPT ![n] =
           {<<d, shares[n][d]>> : d \in trustedDealerIDs(n)}]
    /\ mpk' = [mpk EXCEPT ![n] =
           {<<d, commitments[n][d]>> :
               d \in {t \in trustedDealerIDs(n) :
                          commitments[n][t] \in WellFormed}}]

(* The wait for broadcasts is over or timed out; the version is persisted  *)
(* and installed.                                                          *)
FinalizeDKG(n) ==
    /\ phase[n] = "verifying"
    /\ Cardinality(trustedDealerIDs(n)) >= threshold
    /\ FinalizeKeyShare(n)
    /\ complete' = [complete EXCEPT ![n] =
           Cardinality(verifiedOperators[n]) >= N - 1]
    /\ Become(n, "done")
    /\ cleanupSession(n)
    /\ UNCHANGED <<deals, validShares, broadcasts>>

(* Every error return, timeout and crash.                                  *)
Abort(n) ==
    /\ phase[n] \in InSession
    /\ Become(n, "aborted")
    /\ cleanupSession(n)
    /\ UNCHANGED <<deals, validShares, broadcasts, key>>

Next ==
    \/ \E n \in Operators :
         \/ StartDKG(n) \/ VerifyAndAcknowledge(n) \/ SubmitCommitment(n)
         \/ FinalizeDKG(n) \/ Abort(n)
    \/ \E n, d \in Operators :
         \/ handleDKGCommitment(n, d) \/ handleDKGShare(n, d)
         \/ handleDKGAck(d, n) \/ handleCommitmentBroadcast(n, d)

Spec == Init /\ [][Next]_vars

-----------------------------------------------------------------------------
Entry == Polynomials \cup {None}
Terms == Operators \X Polynomials

TypeOK ==
    /\ phase \in [Operators -> Phases]
    /\ deals \in [Operators -> Entry]
    /\ commitments \in [Operators -> [Operators -> Entry]]
    /\ shares \in [Operators -> [Operators -> Entry]]
    /\ validShares \in [Operators -> SUBSET Operators]
    /\ acks \in [Operators -> SUBSET Operators]
    /\ broadcasts \in [Operators -> SUBSET Operators]
    /\ verifiedOperators \in [Operators -> SUBSET Operators]
    /\ privateShare \in [Operators -> SUBSET Terms]
    /\ mpk \in [Operators -> SUBSET Terms]
    /\ complete \in [Operators -> BOOLEAN]

Installed(n) == phase[n] = "done"

(* Operators that waited for every broadcast agree on the master public    *)
(* key, up to what faulty dealers told each of them: both keys hold the    *)
(* contribution of every correct operator, as it was dealt.                *)
CompleteKeysAgree ==
    \A m, n \in Operators :
        (Installed(m) /\ Installed(n) /\ complete[m] /\ complete[n]) =>
            \A d \in Operators \ Faulty : \A p \in Polynomials :
                <<d, p>> \in mpk[m] <=> <<d, p>> \in mpk[n]

(* The private share an operator installs lies on the polynomial its       *)
(* master public key commits to: every term of the key is a term of the    *)
(* share, and what the share has in excess was committed to with the wrong *)
(* number of coefficients by a faulty dealer.                              *)
ShareMatchesMPK ==
    \A n \in Operators : Installed(n) =>
        /\ mpk[n] \subseteq privateShare[n]
        /\ \A t \in privateShare[n] \ mpk[n] :
               t[1] \in Faulty /\ t[2] \notin WellFormed

(* RunDKG's reason to wait for a threshold of acknowledgements: of every   *)
(* correct dealer in an installed key, a threshold of other operators, or  *)
(* all there are, hold a valid share.                                      *)
ContributionHeld ==
    \A n \in Operators : Installed(n) =>
        \A t \in privateShare[n] : t[1] \notin Faulty =>
            Cardinality({m \in Operators \ {t[1]} : t[1] \in validShares[m]})
                >= Smaller(threshold, N - 1)
=============================================================================

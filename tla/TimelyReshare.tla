--------------------------- MODULE TimelyReshare ----------------------------
(***************************************************************************)
(* What a reshare round promises when the network is better than the worst *)
(* case ReshareRound allows. BroadcastReshareCommitments posts each        *)
(* dealer's commitments once, without a retry, so a round depends on those *)
(* posts in two ways:                                                      *)
(*  - DeliveredSpec: operators still crash, time out and submit late, but  *)
(*    the commitments of every dealer that made the cutoff reach every     *)
(*    operator before it selects its dealers. Then the dealer sets agree.  *)
(*  - PromptSpec: everybody takes part, the pushes arrive before an        *)
(*    operator stops collecting, and nothing times out. Then everybody     *)
(*    finalizes, a laggard included. Every key holder answers a joining    *)
(*    operator's /pubkey query.                                            *)
(***************************************************************************)
EXTENDS ReshareRound

(* Every expected dealer the registry lists has been heard from.           *)
CommitmentsDelivered(n) ==
    \A d \in deriveAgreedDealerSet(n) : commitments[n][d] # None

DeliveredNext ==
    \/ StepsButSelection
    \/ \E n \in Operators : CommitmentsDelivered(n) /\ SelectDealers(n)

DeliveredSpec == Init /\ [][DeliveredNext]_vars

-----------------------------------------------------------------------------
(* The operators that hold a key and can deal.                             *)
KeyHolders == {n \in Operators : active[n] # 0}

PushesArrived(n) ==
    \A d \in expected[n] : shares[n][d] # None /\ commitments[n][d] # None

AcksArrived(n) == Cardinality(acks[n]) >= Smaller(newThreshold, N - 1)

DealersSubmitted == \A d \in KeyHolders : registry[d] # None

(* The steps of operator n's round goroutine when no wait times out.       *)
PromptStep(n) ==
    \/ StartExisting(n)
    \/ StartNew(n, KeyHolders)
    \/ PushesArrived(n) /\ VerifyAndAcknowledge(n)
    \/ AcksArrived(n) /\ SubmitCommitment(n)
    \/ SelectDealers(n)
    \/ \E d \in Operators : fetchAndVerifyReshareShare(n, d)
    \/ FinalizeExisting(n) \/ FinalizeNew(n)

(* A post that reaches operator n's HTTP server.                           *)
PromptDelivery(n) ==
    \E d \in Operators :
        \/ handleReshareCommitment(n, d) \/ handleReshareShare(n, d)
        \/ handleReshareAck(n, d)
        \/ handleCommitmentBroadcast(n, d)

PromptCutoff == DealersSubmitted /\ PassCutoff

PromptNext ==
    \/ \E n \in Operators : PromptStep(n) \/ PromptDelivery(n)
    \/ PromptCutoff

(* The goroutine is scheduled, posts are delivered, blocks are produced.   *)
PromptFairness ==
    /\ \A n \in Operators : /\ WF_vars(PromptStep(n))
                            /\ WF_vars(PromptDelivery(n))
    /\ WF_vars(PromptCutoff)

PromptSpec == Init /\ [][PromptNext]_vars /\ PromptFairness

(* A round in which everybody takes part ends with everybody, the operator *)
(* that lagged a version behind included, on the new version.              *)
EveryoneFinalizes == <>[](\A n \in Operators : Finalized(n))
=============================================================================

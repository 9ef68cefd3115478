-------------------------- MODULE SourceConsensus --------------------------
(***************************************************************************)
(* What the operators of a reshare round agree on, whatever they exchange  *)
(* to get there: one key version is chosen to be refreshed, once and for   *)
(* all, and an operator takes on the new key at most once, after the       *)
(* choice, as a refreshed share of the chosen version. Nobody need finish. *)
(***************************************************************************)
CONSTANTS Members, Sources, Nothing

VARIABLES
    chosen,     \* the source version chosen, in a set, or the empty set
    refreshed   \* the version each member's new share refreshes, or Nothing

vars == <<chosen, refreshed>>

Init ==
    /\ chosen = {}
    /\ refreshed = [m \in Members |-> Nothing]

Choose(source) ==
    /\ chosen = {}
    /\ chosen' = {source}
    /\ UNCHANGED refreshed

Refresh(m, source) ==
    /\ source \in chosen /\ refreshed[m] = Nothing
    /\ refreshed' = [refreshed EXCEPT ![m] = source]
    /\ UNCHANGED chosen

Next ==
    \E source \in Sources :
        Choose(source) \/ \E m \in Members : Refresh(m, source)

Spec == Init /\ [][Next]_vars
=============================================================================

--------------------------- MODULE MCReshareRound ---------------------------
(* Small instances of ReshareRound for TLC.                                *)
EXTENDS ReshareRound, TLC

(* Key versions 1 and 2; the round would create version 3. *)
MCVersions == {1, 2}

(* Polynomial v re-deals a share of version v. *)
MCPolynomials == {1, 2}
MCSourceOf == [p \in MCPolynomials |-> p]
(* Both versions were made by the round's own operators. *)
MCParticipants == [v \in MCVersions |-> Operators]

(* Operator 1 lags a round behind the other two, or is a round ahead. *)
MCLaggard == {[n \in Operators |-> IF n = 1 THEN v ELSE 3 - v] : v \in {1, 2}}

(* Everybody holds the newest version. *)
MCSameVersion == {[n \in Operators |-> 2]}

(* Operator 1 dealt twice, from version 1 and from version 2, and its      *)
(* peers are split over the same two versions.                             *)
MCTwoDeals == {[poly |-> 1, ver |-> 1], [poly |-> 2, ver |-> 2]}
MCSplit == {[n \in Operators |-> IF n = 2 THEN 1 ELSE 2]}
=============================================================================

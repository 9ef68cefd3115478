-------------------------- MODULE MCTimelyReshare ---------------------------
(* Small instances of TimelyReshare for TLC: operators 1 and 2 made        *)
(* version 1, operator 3 joined with version 2, version 3 came after.      *)
EXTENDS TimelyReshare, TLC

MCVersions == {1, 2, 3}
MCPolynomials == MCVersions
MCSourceOf == [p \in MCPolynomials |-> p]
MCParticipants == [v \in MCVersions |-> IF v = 1 THEN {1, 2} ELSE Operators]

(* Operator 3 is joining; everybody holds version 3; operator 1 missed     *)
(* version 3.                                                              *)
MCActive == {[n \in Operators |-> IF n = 3 THEN 0 ELSE 1],
             [n \in Operators |-> 3],
             [n \in Operators |-> IF n = 1 THEN 2 ELSE 3]}
=============================================================================

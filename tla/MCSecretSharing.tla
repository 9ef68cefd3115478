-------------------------- MODULE MCSecretSharing --------------------------
(* Four operators over the field of five elements; three of them founded   *)
(* the cluster (threshold 2) and the fourth joins (threshold 3).           *)
EXTENDS SecretSharing

MCFounders == 1..3
MCFaulty == {3}
MCConstants == {1, 3}
MCCoefficients == {<< <<2, 4>>, <<3, 1>>, <<4, 4>>, <<1, 2>> >>}
=============================================================================

---------------------------- MODULE MCKMSClient ----------------------------
(* Four operators with threshold 3 over the field of seven elements, the   *)
(* second one faulty.                                                      *)
EXTENDS KMSClient

MCFaulty == {2}
MCBogusSigs == {0, 5}
MCBogusKeys == {2}
MCLegacySets == {{}, {1, 3}}
MCPolynomials == << <<6, 4, 6>>, <<3, 5, 0>>, <<5, 2, 4>>, <<4, 0, 6>> >>
MCDealers == {1, 2, 4}
MCBlindings == << <<5, 6>>, <<1, 4>>, <<2, 2>>, <<4, 1>> >>

(* The hypotheses of the theorems in ThresholdCryptoProofs hold here.      *)
ASSUME FewFaulty
ASSUME MasterPublicKey # 0
ASSUME NoZeroShare
ASSUME AllAttempted
=============================================================================

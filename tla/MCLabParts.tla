----------------------------- MODULE MCLabParts -----------------------------
(* Instances of LabParts for TLC.                                           *)
EXTENDS LabParts

CONSTANTS m1, m2, m3

(* The cases of a suite, one for each round.                                *)
ThreeCases == <<"probe", "traffic", "plain">>
=============================================================================

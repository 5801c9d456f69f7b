------------------------------- MODULE MCCall -------------------------------
(* Instances of Call for TLC.                                              *)
EXTENDS Call

CONSTANTS s1, s2, s3

MCSenders == {s1, s2, s3}
MCTwoSenders == {s1, s2}
=============================================================================

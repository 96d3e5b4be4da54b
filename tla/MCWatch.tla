------------------------------ MODULE MCWatch ------------------------------
(* Three listings, so that a change can follow a change, and two events    *)
(* under way at once.                                                      *)
EXTENDS Watch

CONSTANTS s1, s2, s3

MCSnapshot == {s1, s2, s3}
=============================================================================

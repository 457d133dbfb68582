---------------------------- MODULE MCFloodFilter ----------------------------
(***************************************************************************)
(* The flood filter with small scores and times, and message lengths at    *)
(* the ends of the scale.                                                  *)
(***************************************************************************)
EXTENDS FloodFilter, TLC

CONSTANTS ip1, ip2

MCLengths == {1, 65, 128}
=============================================================================

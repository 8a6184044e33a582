--------------------------- MODULE MCBoundsChecks ---------------------------
(* Instances of BoundsChecks for TLC.                                      *)
EXTENDS BoundsChecks

CONSTANTS p, q, none
=============================================================================

------------------------- MODULE MCCanaryController -------------------------
(* Instances of CanaryController for TLC.                                  *)
EXTENDS CanaryController, TLC

CONSTANTS p1, p2, r1, r2

\* The first rung is held for one unit, the others for two.
MCHold == [k \in 0..LadderLen - 1 |-> IF k = 0 THEN 1 ELSE 2]
=============================================================================

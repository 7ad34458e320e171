------------------------- MODULE MCModerationQueue --------------------------
(* The instance of ModerationQueue that TLC checks.                        *)
EXTENDS ModerationQueue, TLC

CONSTANTS l1, l2, w1, w2, r1

TwoListings == {l1, l2}
TwoWorkers == {w1, w2}
OneRequest == {r1}
=============================================================================

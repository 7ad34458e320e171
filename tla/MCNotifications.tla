--------------------------- MODULE MCNotifications ---------------------------
(* The instance of Notifications, with the catalogue below it, that TLC    *)
(* checks.                                                                 *)
EXTENDS Notifications, TLC

CONSTANTS u1, a1, l1, p1, r1, r2, d1, d2, t1

OneSlug == [t \in Titles |-> <<"desk", "desk-1">>]

NoticeSymmetry == Permutations(Requests) \cup Permutations(Deciders)
=============================================================================

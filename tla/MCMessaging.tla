---------------------------- MODULE MCMessaging -----------------------------
(* The instances of Messaging that TLC checks.                             *)
EXTENDS Messaging, TLC

CONSTANTS u1, u2, c1, c2, c3, m1, m2, m3, r1, r2, l1

OpeningSymmetry == Permutations({u1, u2}) \cup Permutations({c1, c2, c3})
                     \cup Permutations({r1, r2})

SendingSymmetry == Permutations({u1, u2}) \cup Permutations({m1, m2})
                     \cup Permutations({r1, r2})
=============================================================================

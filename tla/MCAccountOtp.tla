---------------------------- MODULE MCAccountOtp ----------------------------
(* The instances of AccountOtp that TLC checks.                            *)
EXTENDS AccountOtp, TLC

CONSTANTS e1, e2, s1, s2, o1, o2, o3, r1, r2

AccountSymmetry == Permutations({o1, o2, o3}) \cup Permutations({r1, r2})
                     \cup Permutations({s1, s2}) \cup Permutations({e1, e2})
=============================================================================

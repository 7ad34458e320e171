--------------------------- MODULE MCStoredImages ---------------------------
(* The instance of StoredImages that TLC checks.                           *)
EXTENDS StoredImages, TLC

CONSTANTS a1, a2, r1, r2

ImagesSymmetry == Permutations({a1, a2}) \cup Permutations({r1, r2})
=============================================================================

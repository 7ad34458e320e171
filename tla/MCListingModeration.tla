------------------------ MODULE MCListingModeration -------------------------
(* Instances of ListingModeration for TLC: one listing, two contents, one of *)
(* which the model never clears.                                             *)
EXTENDS ListingModeration, TLC

CONSTANTS l1, w1, w2, r1, r2, clean, suspicious

OneListing == {l1}
OneWorker == {w1}
TwoWorkers == {w1, w2}
OneRequest == {r1}
TwoRequests == {r1, r2}
TwoContents == {clean, suspicious}
OneSuspicious == {suspicious}

Symmetry == Permutations(Workers) \cup Permutations(Requests)
=============================================================================

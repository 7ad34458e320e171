-------------------------- MODULE MCListingCatalog --------------------------
(* The instances of ListingCatalog that TLC checks.                        *)
EXTENDS ListingCatalog, TLC

CONSTANTS u1, a1, l1, l2, p1, r1, r2, t1, t2

\* t1 is "Desk" and t2 is "Desk 1": their candidates overlap.
OverlappingSlugs == {"desk", "desk-1", "desk-2", "desk-1-1", "desk-1-2"}
OverlappingCandidates ==
    [t \in Titles |-> IF t = t1 THEN <<"desk", "desk-1", "desk-2">>
                                ELSE <<"desk-1", "desk-1-1", "desk-1-2">>]

CatalogSymmetry == Permutations(Requests) \cup Permutations(Listings)
=============================================================================

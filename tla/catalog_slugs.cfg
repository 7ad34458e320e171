SPECIFICATION CatalogSpec
CONSTANTS
    u1 = u1
    a1 = a1
    l1 = l1
    l2 = l2
    p1 = p1
    r1 = r1
    r2 = r2
    t1 = t1
    t2 = t2
    Users = {u1}
    Admins = {}
    Titles = {t1, t2}
    Slugs <- OverlappingSlugs
    Candidates <- OverlappingCandidates
    Listings = {l1, l2}
    Reports = {}
    Requests = {r1, r2}
    NoValue = NoValue
    ModerationEnabled = FALSE
    MaxViews = 1
SYMMETRY CatalogSymmetry
INVARIANTS
    CatalogTypeOK
    ConflictsAreRaces

SPECIFICATION NoticesSpec
CONSTANTS
    u1 = u1
    a1 = a1
    l1 = l1
    p1 = p1
    r1 = r1
    r2 = r2
    d1 = d1
    d2 = d2
    t1 = t1
    Users = {u1, a1}
    Admins = {a1}
    Titles = {t1}
    Slugs = {"desk", "desk-1"}
    Candidates <- OneSlug
    Listings = {l1}
    Reports = {p1}
    Requests = {r1}
    NoValue = NoValue
    ModerationEnabled = TRUE
    MaxViews = 0
    Deciders = {d1, d2}
    MaxNotices = 2
SYMMETRY NoticeSymmetry
INVARIANTS
    NoticesTypeOK
    ListsAgreeWithPages
    ResolvedIsOffShow
    NewestNoticeIsTrue

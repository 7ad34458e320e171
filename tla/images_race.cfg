SPECIFICATION ImagesSpec
CONSTANTS
    a1 = a1
    a2 = a2
    r1 = r1
    r2 = r2
    l1 = l1
    u1 = u1
    Listings = {l1}
    Users = {u1}
    Assets = {a1, a2}
    Requests = {r1, r2}
    NoValue = NoValue
SYMMETRY ImagesSymmetry
INVARIANTS
    ImagesTypeOK
PROPERTIES
    ShownIsKept
    OwnIsKept
    ForgottenIsDestroyed

SPECIFICATION AccountSpec
CONSTANTS
    e1 = e1
    e2 = e2
    s1 = s1
    s2 = s2
    o1 = o1
    o2 = o2
    o3 = o3
    r1 = r1
    r2 = r2
    Emails = {e1}
    StudentIds = {s1}
    Otps = {o1}
    Requests = {r1}
    NoValue = NoValue
    ManualDelivery = FALSE
    Lifetime = 1
    StatedLifetime = 2
INVARIANTS
    MailKeepsItsWord

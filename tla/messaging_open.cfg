SPECIFICATION MessagingSpec
CONSTANTS
    u1 = u1
    u2 = u2
    c1 = c1
    c2 = c2
    c3 = c3
    m1 = m1
    m2 = m2
    m3 = m3
    r1 = r1
    r2 = r2
    l1 = l1
    Users = {u1, u2}
    Topics = {l1}
    Conversations = {c1, c2, c3}
    Messages = {}
    Requests = {r1, r2}
    NoValue = NoValue
    MaxDrafts = 0
    MaxClock = 1
SYMMETRY OpeningSymmetry
INVARIANTS
    OneConversation

SPECIFICATION MessagingSpec
CONSTANTS
    u1 = u1
    u2 = u2
    c1 = c1
    c2 = c2
    c3 = c3
    m1 = m1
    m2 = m2
    m3 = m3
    r1 = r1
    r2 = r2
    l1 = l1
    Users = {u1, u2}
    Topics = {}
    Conversations = {c1}
    Messages = {m1, m2}
    Requests = {r1, r2}
    NoValue = NoValue
    MaxDrafts = 1
    MaxClock = 2
SYMMETRY SendingSymmetry
INVARIANTS
    MessagingTypeOK
PROPERTIES
    DeliveryIsImplemented
    BlockedIsSilent
    UnreadIsOwn
    NewIsUnread
    ListedByNewest

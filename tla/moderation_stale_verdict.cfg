CONSTANTS
    l1 = l1
    w1 = w1
    w2 = w2
    r1 = r1
    r2 = r2
    clean = clean
    suspicious = suspicious
    NoListing = NoListing
    NoContent = NoContent
    Listings <- OneListing
    Contents <- TwoContents
    Suspicious <- OneSuspicious
    Workers <- OneWorker
    Requests <- OneRequest
    MaxAttempts = 1
    PollBudget = 1
    MaxEnqueues = 2
    MaxFaults = 0
    MaxEdits = 1
    MaxFailures = 0
SPECIFICATION ModerationSpec
INVARIANT SuspiciousStaysPending

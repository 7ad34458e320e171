CONSTANTS
    l1 = l1
    w1 = w1
    w2 = w2
    r1 = r1
    r2 = r2
    clean = clean
    suspicious = suspicious
    NoListing = NoListing
    NoContent = NoContent
    Listings <- OneListing
    Contents <- TwoContents
    Suspicious <- OneSuspicious
    Workers <- TwoWorkers
    Requests <- TwoRequests
    MaxAttempts = 1
    PollBudget = 1
    MaxEnqueues = 2
    MaxFaults = 0
    MaxEdits = 2
    MaxFailures = 0
SPECIFICATION ModerationSpec
SYMMETRY Symmetry
INVARIANTS
    PublishedWasCleared
    CompletedJudgedContent

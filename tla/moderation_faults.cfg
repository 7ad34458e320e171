CONSTANTS
    l1 = l1
    w1 = w1
    w2 = w2
    r1 = r1
    r2 = r2
    clean = clean
    suspicious = suspicious
    NoListing = NoListing
    NoContent = NoContent
    Listings <- OneListing
    Contents <- TwoContents
    Suspicious <- OneSuspicious
    Workers <- OneWorker
    Requests <- OneRequest
    MaxAttempts = 2
    PollBudget = 1
    MaxEnqueues = 2
    MaxFaults = 1
    MaxEdits = 1
    MaxFailures = 1
SPECIFICATION FairModerationSpec
INVARIANT ModerationTypeOK
PROPERTIES
    SettledIsAudited
    QueueIsImplemented
    EveryListingModerated

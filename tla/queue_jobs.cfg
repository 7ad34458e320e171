CONSTANTS
    l1 = l1
    l2 = l2
    w1 = w1
    w2 = w2
    r1 = r1
    NoListing = NoListing
    Listings <- TwoListings
    Workers <- TwoWorkers
    Requests <- OneRequest
    MaxAttempts = 2
    PollBudget = 1
    MaxEnqueues = 2
    MaxFaults = 1
SPECIFICATION FairSpec
INVARIANTS
    TypeOK
    ClaimsExclusive
    AttemptsBounded
PROPERTIES
    StaleResultsDiscarded
    LifecycleIsImplemented
    JobsSettle

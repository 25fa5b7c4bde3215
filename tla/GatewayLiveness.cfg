SPECIFICATION FairSpec
CONSTANTS
    w1 = w1
    w2 = w2
    Workers = {w1, w2}
    NoWorker = NoWorker
    FailureThreshold = 1
    RetryTimeout = 2
    TicketLists <- OneTicket
    Endpoints <- LiveEndpoints
    CriticalReplies <- CleanReplies
    FallbackReplies <- CleanReplies
INVARIANT NoLockLeaks
PROPERTIES
    TrialEventuallyAllowed
    LocksAreReleased
    HealthIsServed

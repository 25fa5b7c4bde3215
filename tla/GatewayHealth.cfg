SPECIFICATION FairSpec
CONSTANTS
    w1 = w1
    w2 = w2
    Workers = {w1, w2}
    NoWorker = NoWorker
    FailureThreshold = 2
    RetryTimeout = 2
    TicketLists <- OneTicket
    Endpoints <- ReadEndpoints
    CriticalReplies <- CodeReplies
    FallbackReplies <- CodeReplies
PROPERTY HealthIsServed
CHECK_DEADLOCK FALSE

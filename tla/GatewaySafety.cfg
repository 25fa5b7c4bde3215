SPECIFICATION Spec
CONSTANTS
    w1 = w1
    w2 = w2
    Workers = {w1, w2}
    NoWorker = NoWorker
    FailureThreshold = 2
    RetryTimeout = 2
    Endpoints <- AllEndpoints
    TicketLists <- OneTicket
    CriticalReplies <- CodeReplies
    FallbackReplies <- CodeReplies
SYMMETRY WorkerSymmetry
VIEW LiveState
INVARIANTS
    TypeOK
    GuardedCallHoldsLock
    TicketLockNeverLeaks
PROPERTY BreakerContract
CHECK_DEADLOCK FALSE

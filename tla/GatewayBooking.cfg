SPECIFICATION SystemSpec
CONSTANTS
    w1 = w1
    w2 = w2
    u1 = u1
    t0 = t0
    t1 = t1
    Workers = {w1, w2}
    NoWorker = NoWorker
    FailureThreshold = 1
    RetryTimeout = 1
    TicketLists <- NoList
    Endpoints <- Changing
    CriticalReplies <- SomeReplies
    FallbackReplies <- SomeReplies
    Users = {u1}
    Strangers = {}
    LongNames = {}
    CommaNames = {}
    ReadAs <- NoNames
    Unsendable = {}
    Tickets = {t0, t1}
    Seed = t0
    SeedUser = u1
    Prices <- OnePrice
    Opening = 14
    b1 = b1
    Servers = {b1}
    Script = Script
    Nobody = Nobody
    MaxCopies = 1
PROPERTY HandlersBook
VIEW LiveState
SYMMETRY WorkerSymmetry
CONSTRAINTS
    OnlyBonusFails
    ConsumerNextToOne
    OneMessage

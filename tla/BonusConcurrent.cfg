SPECIFICATION Spec
CONSTANTS
    u1 = u1
    t0 = t0
    t1 = t1
    t2 = t2
    Users = {u1}
    Tickets = {t0, t1, t2}
    Seed = t0
    Prices <- SomePrices
    Opening <- SomeOpening
    Workers = {1, 2}
    Readers = {}
INVARIANTS
    TypeOK
    NonNegativeBalance
    LaterRowsUndoPurchase
    RefundsBoundedByWorkers
CONSTRAINT ShortHistories

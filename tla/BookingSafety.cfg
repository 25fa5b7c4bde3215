SPECIFICATION Spec
CONSTANTS
    u1 = u1
    s1 = s1
    s2 = s2
    t0 = t0
    t1 = t1
    Users = {u1}
    Strangers = {}
    LongNames = {}
    CommaNames = {}
    ReadAs <- NoNames
    Unsendable = {}
    Tickets = {t0, t1}
    Seed = t0
    SeedUser = u1
    w1 = w1
    w2 = w2
    b1 = b1
    b2 = b2
    Prices <- OnePrice
    Opening = 14
    Workers = {w1, w2}
    Servers = {b1}
    Script = Script
    Nobody = Nobody
    Handlers <- BothHandlers
    Faults <- AllFaults
    MaxCopies = 1
SYMMETRY BookingSymmetry
INVARIANTS
    TypeOK
    ConfirmedIsBooked
    RefundedIsNotPaid
VIEW NotAccepted

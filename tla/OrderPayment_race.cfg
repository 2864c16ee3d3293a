SPECIFICATION FairSpec
CONSTANTS
    Orders = {"o1"}
    NoOrder = NoOrder
    Students = {"s1", "s2", "admin"}
    Products = {"book", "course", "exam"}
    Kind <- MCKind
    Qty <- MCQty
    Buyer <- MCBuyer
    Participants <- MCParticipants
    Gifts = {}
    Stock <- MCStock
    Workers = {w1, w2}
    InvoiceBound <- Two
    EventBound <- Two
INVARIANTS
    TypeOK
    PaidIsQueued
PROPERTIES
    StalePaymentLapses
    KeepsFulfilmentPromise
CHECK_DEADLOCK FALSE

SPECIFICATION Spec
CONSTANTS
    Orders = {"o1"}
    NoOrder = NoOrder
    Students = {"s1", "s2", "admin"}
    Products = {"book", "course", "exam"}
    Kind <- MCKind
    Qty <- MCQty
    Buyer <- MCBuyer
    Participants <- MCParticipants
    Gifts = {}
    Stock <- MCStock
    Workers = {w1}
    InvoiceBound <- Two
    EventBound <- Two
PROPERTIES
    SweepExpiresOnlyPending
CHECK_DEADLOCK FALSE

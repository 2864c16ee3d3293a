SPECIFICATION Spec
CONSTANTS
    Orders = {"o4"}
    NoOrder = NoOrder
    Students = {"s1", "s2", "admin"}
    Products = {"book", "course", "exam"}
    Kind <- MCKind
    Qty <- MCQty
    Buyer <- MCBuyer
    Participants <- MCParticipants
    Gifts = {}
    Stock <- MCStock
    Workers = {w1}
    InvoiceBound <- Two
    EventBound <- Two
INVARIANTS
    SeatsPassQtyRule
CHECK_DEADLOCK FALSE

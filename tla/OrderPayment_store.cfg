SPECIFICATION Spec
CONSTANTS
    Orders = {"o1", "o2", "o3", "o4"}
    NoOrder = NoOrder
    Students = {"s1", "s2", "admin"}
    Products = {"book", "course", "exam"}
    Kind <- MCKind
    Qty <- MCQty
    Buyer <- MCBuyer
    Participants <- MCParticipants
    Gifts = {"o3"}
    Stock <- MCStock
    Workers = {w1}
    InvoiceBound <- FewInvoices
    EventBound <- FewEvents
INVARIANTS
    ProcessedIsDelivered
    AccessNeedsMoney
PROPERTIES
    StockTakenOnce
CHECK_DEADLOCK FALSE

----------------------------- MODULE OrderPayment -----------------------------
(***************************************************************************)
(* The life of an order: cart, checkout, the payment gateway and its       *)
(* notifications, the administrator's confirm, reconcile, ship, complete   *)
(* and refund, the worker's sweep of stale payments, and the transactional *)
(* outbox that provisions what was paid for.                               *)
(*                                                                         *)
(* Only Checkout decides on a row it has locked.  Every other handler, and *)
(* the sweep, reads the order with no lock, returns early on what it sees  *)
(* and then writes the status in a transaction that looks at nothing: such *)
(* a handler is a worker whose req holds how far it has come, with BeginX  *)
(* its unlocked read and CommitX its transaction.                          *)
(*                                                                         *)
(* The contents of an order are fixed before it is minted: editing a cart  *)
(* is not modelled here, nor are the shipping and biodata gates of         *)
(* Checkout, which refuse and change nothing.  Every course and exam       *)
(* product has its course or exam linked.                                  *)
(*                                                                         *)
(* A definition named X_Slip, before X, is X with a plausible bug: nothing *)
(* uses it, and each property fails when one of them takes X's place.      *)
(***************************************************************************)
EXTENDS Integers, FiniteSets

CONSTANTS
    Orders,         \* orders, in the cart they start as
    NoOrder,        \* no order
    Students,       \* buyers and exam participants
    Products,       \* the products of the catalogue
    Kind,           \* "physical", "course" or "exam"
    Qty,            \* the units of each product in each order, 0 for none
    Buyer,          \* orders.student_id
    Participants,   \* order_participant rows, {} for a purchase for oneself
    Gifts,          \* orders whose total is 0
    Stock,          \* product.stock at the start
    Workers,        \* API requests that can be in flight at once
    InvoiceBound,   \* bound: payments opened at the gateway, of each order
    EventBound      \* bound: OrderPaid rows, of each order

ASSUME ConstantsOK ==
    /\ NoOrder \notin Orders
    /\ Kind \in [Products -> {"physical", "course", "exam"}]
    /\ Qty \in [Orders -> [Products -> Nat]]
    /\ Buyer \in [Orders -> Students]
    /\ Participants \in [Orders -> SUBSET Students]
    /\ Gifts \subseteq Orders
    /\ Stock \in [Products -> Nat]
    /\ InvoiceBound \in [Orders -> Nat] /\ EventBound \in [Orders -> Nat]

VARIABLES
    status,       \* orders.status, "none" before the row exists
    deadline,     \* orders.payment_expires_at: "none", still "running", or "past"
    stock,        \* product.stock
    invoices,     \* payments the gateway has opened for the order
    settled,      \* orders whose payment the gateway has settled
    notified,     \* orders whose notification Redis remembers
    vouched,      \* orders an administrator confirmed with a proof
    pending,      \* OrderPaid rows of the outbox with processed_at NULL
    processed,    \* OrderPaid rows of the outbox that were processed
    enrolment,    \* course_session.status, per order and course product
    registered,   \* exam_registration rows: <<student, exam product>>
    req,          \* the API requests in flight
    sweep         \* the worker's sweep of stale payments

gatewayVars == <<invoices, settled, notified>>
outboxVars  == <<pending, processed>>
accessVars  == <<enrolment, registered>>
vars == <<status, deadline, stock, gatewayVars, vouched, outboxVars, accessVars, req, sweep>>

-----------------------------------------------------------------------------
(* Types and helpers *)

Idle == [op |-> "idle", order |-> NoOrder]

Ops == {"checkout_pay", "checkout_ref", "checkout_refused",
        "retry_pay", "retry_ref", "retry_status",
        "webhook", "webhook_mark", "ship", "complete", "refund"}

Statuses == {"none", "cart", "payment_pending", "payment_expired", "paid",
             "processing", "shipped", "completed", "cancelled"}

TypeOK ==
    /\ status \in [Orders -> Statuses]
    /\ deadline \in [Orders -> {"none", "running", "past"}]
    /\ stock \in [Products -> Int]
    /\ invoices \in [Orders -> Nat]
    /\ settled \subseteq Orders
    /\ notified \subseteq Orders
    /\ vouched \subseteq Orders
    /\ pending \in [Orders -> Nat]
    /\ processed \in [Orders -> Nat]
    /\ enrolment \in [Orders -> [Products -> {"none", "active", "revoked"}]]
    /\ registered \subseteq Students \X Products
    /\ req \in [Workers -> {Idle} \cup [op : Ops, order : Orders]]
    /\ sweep \in [todo : SUBSET Orders, at : Orders \cup {NoOrder}]

Contents(o)   == {p \in Products : Qty[o][p] > 0}
OfKind(o, k)  == {p \in Contents(o) : Kind[p] = k}
Sitters(o)    == IF Participants[o] = {} THEN {Buyer[o]} ELSE Participants[o]

\* ValidateItemQty: a digital line holds one unit.
QtyOK(o) == \A p \in Contents(o) : Kind[p] # "physical" => Qty[o][p] = 1

InStock(o) == \A p \in OfKind(o, "physical") : stock[p] >= Qty[o][p]

Enrolled(st, p) == \E o \in Orders : Buyer[o] = st /\ enrolment[o][p] = "active"

Free(w)     == req[w] = Idle
Asks(w, op) == req[w].op = op
Goes(w, op, o) == req' = [req EXCEPT ![w] = [op |-> op, order |-> o]]
Reply(w)    == req' = [req EXCEPT ![w] = Idle]

Events(o) == pending[o] + processed[o]

Init ==
    /\ status = [o \in Orders |-> "none"]
    /\ deadline = [o \in Orders |-> "none"]
    /\ stock = Stock
    /\ invoices = [o \in Orders |-> 0]
    /\ settled = {} /\ notified = {} /\ vouched = {}
    /\ pending = [o \in Orders |-> 0]
    /\ processed = [o \in Orders |-> 0]
    /\ enrolment = [o \in Orders |-> [p \in Products |-> "none"]]
    /\ registered = {}
    /\ req = [w \in Workers |-> Idle]
    /\ sweep = [todo |-> {}, at |-> NoOrder]

MarkPaid_NoEvent(o) ==
    /\ Events(o) < EventBound[o]
    /\ status' = [status EXCEPT ![o] = "paid"]
    /\ UNCHANGED outboxVars

\* The order becomes paid and its OrderPaid row is inserted, in one transaction.
\* No caller looks at the status it overwrites. Bound: EventBound rows.
MarkPaid(o) ==
    /\ Events(o) < EventBound[o]
    /\ status' = [status EXCEPT ![o] = "paid"]
    /\ pending' = [pending EXCEPT ![o] = @ + 1]
    /\ UNCHANGED processed

-----------------------------------------------------------------------------
(* The student's requests *)

\* MintCart, or the one transaction of CreateBulkExamOrder: a buyer has one cart.
MintCart(o) ==
    /\ status[o] = "none"
    /\ \A other \in Orders : status[other] = "cart" => Buyer[other] # Buyer[o]
    /\ status' = [status EXCEPT ![o] = "cart"]
    /\ UNCHANGED <<deadline, stock, gatewayVars, vouched, outboxVars, accessVars, req, sweep>>

\* CheckoutOrder: take the physical units out of stock.
TakeStock(o) ==
    stock' = [p \in Products |->
                IF Kind[p] = "physical" THEN stock[p] - Qty[o][p] ELSE stock[p]]

CheckoutPayable_DecidesUnlocked(w, o) ==
    /\ Free(w)
    /\ o \notin Gifts
    /\ status[o] \in {"cart", "payment_pending"}
    /\ QtyOK(o) /\ InStock(o)
    /\ TakeStock(o)
    /\ status' = [status EXCEPT ![o] = "payment_pending"]
    /\ Goes(w, "checkout_pay", o)
    /\ UNCHANGED <<deadline, gatewayVars, vouched, outboxVars, accessVars, sweep>>

\* Checkout's transaction on an order with something to pay: under the order's
\* lock it is a cart, and each product's lock finds the units in stock.
CheckoutPayable(w, o) ==
    /\ Free(w)
    /\ o \notin Gifts
    /\ status[o] = "cart"
    /\ QtyOK(o) /\ InStock(o)
    /\ TakeStock(o)
    /\ status' = [status EXCEPT ![o] = "payment_pending"]
    /\ Goes(w, "checkout_pay", o)
    /\ UNCHANGED <<deadline, gatewayVars, vouched, outboxVars, accessVars, sweep>>

\* Checkout's transaction on an order with nothing to pay: paid at once.
CheckoutGift(o) ==
    /\ o \in Gifts
    /\ status[o] = "cart"
    /\ QtyOK(o) /\ InStock(o)
    /\ TakeStock(o)
    /\ MarkPaid(o)
    /\ UNCHANGED <<deadline, gatewayVars, vouched, accessVars, req, sweep>>

\* Checkout answers ErrDigitalQtyLimit.
CheckoutRefused(w, o) ==
    /\ Free(w)
    /\ status[o] = "cart"
    /\ ~QtyOK(o)
    /\ Goes(w, "checkout_refused", o)
    /\ UNCHANGED <<status, deadline, stock, gatewayVars, vouched, outboxVars, accessVars, sweep>>

\* RetryPayment up to its call of the gateway.
BeginRetry(w, o) ==
    /\ Free(w)
    /\ status[o] \in {"payment_pending", "payment_expired"}
    /\ Goes(w, "retry_pay", o)
    /\ UNCHANGED <<status, deadline, stock, gatewayVars, vouched, outboxVars, accessVars, sweep>>

\* CreatePayment answers. Bound: InvoiceBound payments.
OpenInvoice(w) ==
    LET o == req[w].order
    IN  /\ Asks(w, "checkout_pay") \/ Asks(w, "retry_pay")
        /\ invoices[o] < InvoiceBound[o]
        /\ invoices' = [invoices EXCEPT ![o] = @ + 1]
        /\ Goes(w, IF Asks(w, "checkout_pay") THEN "checkout_ref" ELSE "retry_ref", o)
        /\ UNCHANGED <<status, deadline, stock, settled, notified, vouched>>
        /\ UNCHANGED <<outboxVars, accessVars, sweep>>

\* SetPaymentRef, a statement of its own in both handlers: a new deadline,
\* whatever the order's status has become.
StoreRef(w) ==
    LET o == req[w].order
    IN  /\ Asks(w, "checkout_ref") \/ Asks(w, "retry_ref")
        /\ deadline' = [deadline EXCEPT ![o] = "running"]
        /\ IF Asks(w, "retry_ref") THEN Goes(w, "retry_status", o) ELSE Reply(w)
        /\ UNCHANGED <<status, stock, gatewayVars, vouched, outboxVars, accessVars, sweep>>

\* RetryPayment's transaction: the order is payment_pending again, whatever it
\* was. No stock is taken.
CommitRetry(w) ==
    /\ Asks(w, "retry_status")
    /\ status' = [status EXCEPT ![req[w].order] = "payment_pending"]
    /\ Reply(w)
    /\ UNCHANGED <<deadline, stock, gatewayVars, vouched, outboxVars, accessVars, sweep>>

\* A request dies: the client went away, the gateway or the database failed,
\* the API restarted. What it has committed stays.
Drop(w) ==
    /\ ~Free(w)
    /\ Reply(w)
    /\ UNCHANGED <<status, deadline, stock, gatewayVars, vouched, outboxVars, accessVars, sweep>>

-----------------------------------------------------------------------------
(* The payment gateway *)

\* The buyer pays one of the payments the gateway has opened.
Settle(o) ==
    /\ invoices[o] > 0
    /\ settled' = settled \cup {o}
    /\ UNCHANGED <<status, deadline, stock, invoices, notified, vouched>>
    /\ UNCHANGED <<outboxVars, accessVars, req, sweep>>

\* payment_expires_at passes.
LapseDeadline(o) ==
    /\ deadline[o] = "running"
    /\ deadline' = [deadline EXCEPT ![o] = "past"]
    /\ UNCHANGED <<status, stock, gatewayVars, vouched, outboxVars, accessVars, req, sweep>>

BeginWebhook_AnyNotification(w, o) ==
    /\ Free(w)
    /\ invoices[o] > 0 /\ o \notin notified
    /\ Goes(w, "webhook", o)
    /\ UNCHANGED <<status, deadline, stock, gatewayVars, vouched, outboxVars, accessVars, sweep>>

\* HandlePaymentWebhook up to its transaction. The gateway repeats a settlement
\* until it is answered, and again: only Redis tells a repetition.
BeginWebhook(w, o) ==
    /\ Free(w)
    /\ o \in settled \ notified
    /\ Goes(w, "webhook", o)
    /\ UNCHANGED <<status, deadline, stock, gatewayVars, vouched, outboxVars, accessVars, sweep>>

\* HandlePaymentWebhook's transaction.
CommitWebhook(w) ==
    /\ Asks(w, "webhook")
    /\ MarkPaid(req[w].order)
    /\ Goes(w, "webhook_mark", req[w].order)
    /\ UNCHANGED <<deadline, stock, gatewayVars, vouched, accessVars, sweep>>

\* The notification is remembered once its transaction has committed.
MarkNotified(w) ==
    /\ Asks(w, "webhook_mark")
    /\ notified' = notified \cup {req[w].order}
    /\ Reply(w)
    /\ UNCHANGED <<status, deadline, stock, invoices, settled, vouched>>
    /\ UNCHANGED <<outboxVars, accessVars, sweep>>

-----------------------------------------------------------------------------
(* The administrator's requests *)

\* AdminConfirmOrder: its transaction asks nothing of the status.
AdminConfirm(o) ==
    /\ status[o] # "none"
    /\ MarkPaid(o)
    /\ vouched' = vouched \cup {o}
    /\ UNCHANGED <<deadline, stock, gatewayVars, accessVars, req, sweep>>

\* AdminReconcileOrder of an order with a gateway_ref whose payment the gateway
\* reports as paid. Neither can become untrue before the transaction.
AdminReconcile(o) ==
    /\ deadline[o] # "none"
    /\ o \in settled
    /\ MarkPaid(o)
    /\ UNCHANGED <<deadline, stock, gatewayVars, vouched, accessVars, req, sweep>>

\* AdminShipOrder(Manual) up to its UPDATE.  An order shipped already may be shipped
\* again when its booking has died; that is left open, as bookings are not modelled.
BeginShip(w, o) ==
    /\ Free(w)
    /\ status[o] \in {"paid", "processing", "shipped"}
    /\ Goes(w, "ship", o)
    /\ UNCHANGED <<status, deadline, stock, gatewayVars, vouched, outboxVars, accessVars, sweep>>

\* AdminCompleteOrder up to its transaction.
BeginComplete(w, o) ==
    /\ Free(w)
    /\ \/ status[o] = "shipped"
       \/ status[o] = "processing" /\ OfKind(o, "physical") = {}
    /\ Goes(w, "complete", o)
    /\ UNCHANGED <<status, deadline, stock, gatewayVars, vouched, outboxVars, accessVars, sweep>>

\* SetShipped and AdminCompleteOrder's transaction.
CommitStatus(w) ==
    /\ Asks(w, "ship") \/ Asks(w, "complete")
    /\ status' = [status EXCEPT ![req[w].order] =
                     IF Asks(w, "ship") THEN "shipped" ELSE "completed"]
    /\ Reply(w)
    /\ UNCHANGED <<deadline, stock, gatewayVars, vouched, outboxVars, accessVars, sweep>>

\* AdminRefundOrder up to its transaction.
BeginRefund(w, o) ==
    /\ Free(w)
    /\ status[o] \in {"paid", "processing", "shipped", "completed"}
    /\ Goes(w, "refund", o)
    /\ UNCHANGED <<status, deadline, stock, gatewayVars, vouched, outboxVars, accessVars, sweep>>

\* AdminRefundOrder's transaction: cancel the order and revoke the enrolments
\* it brought. Exam registrations and stock stay as they are.
CommitRefund(w) ==
    LET o == req[w].order
    IN  /\ Asks(w, "refund")
        /\ status' = [status EXCEPT ![o] = "cancelled"]
        /\ enrolment' = [enrolment EXCEPT ![o] =
                            [p \in Products |-> IF @[p] = "none" THEN "none" ELSE "revoked"]]
        /\ Reply(w)
        /\ UNCHANGED <<deadline, stock, gatewayVars, vouched, outboxVars, registered, sweep>>

-----------------------------------------------------------------------------
(* The worker: the sweep of stale payments, then the outbox *)

Stale(o) == status[o] = "payment_pending" /\ deadline[o] = "past"

SweepList_FirstDeadlineOnly ==
    /\ sweep.todo = {} /\ sweep.at = NoOrder
    /\ sweep' = [sweep EXCEPT !.todo = {o \in Orders : Stale(o) /\ invoices[o] = 1}]
    /\ UNCHANGED <<status, deadline, stock, gatewayVars, vouched, outboxVars, accessVars, req>>

\* GetExpiredPaymentOrders. The rows it locks are released when it returns.
SweepList ==
    /\ sweep.todo = {} /\ sweep.at = NoOrder
    /\ \E o \in Orders : Stale(o)
    /\ sweep' = [sweep EXCEPT !.todo = {o \in Orders : Stale(o)}]
    /\ UNCHANGED <<status, deadline, stock, gatewayVars, vouched, outboxVars, accessVars, req>>

\* The recheck reads the order outside the transaction it has begun.
SweepRecheck(o) ==
    /\ sweep.at = NoOrder /\ o \in sweep.todo
    /\ status[o] = "payment_pending"
    /\ sweep' = [todo |-> sweep.todo \ {o}, at |-> o]
    /\ UNCHANGED <<status, deadline, stock, gatewayVars, vouched, outboxVars, accessVars, req>>

\* The transaction: expire the order and put every unit back, those of the
\* digital products too, whose stock checkout never takes.
SweepExpire(o) ==
    /\ sweep.at = o /\ o \in Orders
    /\ status' = [status EXCEPT ![o] = "payment_expired"]
    /\ stock' = [p \in Products |-> stock[p] + Qty[o][p]]
    /\ sweep' = [sweep EXCEPT !.at = NoOrder]
    /\ UNCHANGED <<deadline, gatewayVars, vouched, outboxVars, accessVars, req>>

\* An order that is pending no more, or one whose transaction failed.
SweepSkip ==
    /\ \/ sweep.at = NoOrder /\ \E o \in sweep.todo : sweep' = [sweep EXCEPT !.todo = @ \ {o}]
       \/ sweep.at # NoOrder /\ sweep' = [sweep EXCEPT !.at = NoOrder]
    /\ UNCHANGED <<status, deadline, stock, gatewayVars, vouched, outboxVars, accessVars, req>>

Claimable_Any(o) == Events(o) > 0

\* ClaimOutboxEvents: a row of the order is not processed yet.
Claimable(o) == pending[o] > 0

Provision_DigitalOrdersOnly(o) ==
    /\ enrolment' = [enrolment EXCEPT ![o] =
           [p \in Products |-> IF p \in OfKind(o, "course") /\ OfKind(o, "physical") = {}
                               THEN "active" ELSE @[p]]]
    /\ registered' = registered \cup (Sitters(o) \X OfKind(o, "exam"))

\* The inserts of handleOrderPaid: one that meets an active enrolment, or a
\* registration, does nothing.
Provision(o) ==
    /\ enrolment' = [enrolment EXCEPT ![o] =
           [p \in Products |-> IF p \in OfKind(o, "course") /\ ~Enrolled(Buyer[o], p)
                               THEN "active" ELSE @[p]]]
    /\ registered' = registered \cup (Sitters(o) \X OfKind(o, "exam"))

\* handleOrderPaid's transaction: provision what the order holds, set the
\* status, whatever it has become, and mark the row processed.
Fulfil(o) ==
    /\ Claimable(o)
    /\ Provision(o)
    /\ status' = [status EXCEPT ![o] =
                     IF OfKind(o, "physical") = {} THEN "completed" ELSE "processing"]
    /\ pending' = [pending EXCEPT ![o] = @ - 1]
    /\ processed' = [processed EXCEPT ![o] = @ + 1]
    /\ UNCHANGED <<deadline, stock, gatewayVars, vouched, req, sweep>>

-----------------------------------------------------------------------------

Handle(w) ==
    \/ \E o \in Orders :
         \/ CheckoutPayable(w, o) \/ CheckoutRefused(w, o)
         \/ BeginRetry(w, o)
         \/ BeginWebhook(w, o)
         \/ BeginShip(w, o) \/ BeginComplete(w, o) \/ BeginRefund(w, o)
    \/ OpenInvoice(w) \/ StoreRef(w) \/ CommitRetry(w)
    \/ CommitWebhook(w) \/ MarkNotified(w)
    \/ CommitStatus(w) \/ CommitRefund(w)
    \/ Drop(w)

Next ==
    \/ \E w \in Workers : Handle(w)
    \/ \E o \in Orders :
         \/ MintCart(o) \/ CheckoutGift(o)
         \/ Settle(o) \/ LapseDeadline(o)
         \/ AdminConfirm(o) \/ AdminReconcile(o)
         \/ SweepRecheck(o) \/ SweepExpire(o)
         \/ Fulfil(o)
    \/ SweepList \/ SweepSkip

Spec == Init /\ [][Next]_vars

\* The worker polls the outbox and sweeps on tickers for as long as it runs,
\* and a transaction it tries again and again succeeds in the end. Buyers,
\* administrators, the gateway and the handlers owe nothing.
FairSpec ==
    /\ Spec
    /\ WF_vars(SweepList)
    /\ \A o \in Orders : SF_vars(SweepRecheck(o)) /\ SF_vars(SweepExpire(o)) /\ WF_vars(Fulfil(o))
    /\ WF_vars(SweepSkip)

-----------------------------------------------------------------------------
(* What makes the store correct *)

\* Stock is taken once per order, when it is checked out: it falls only in the
\* step that moves one order out of the cart, by what that order holds and
\* never below zero, and no order ever returns to the cart.
StockTakenOnce ==
    [][/\ \A p \in Products : stock'[p] < stock[p] =>
            /\ stock'[p] >= 0
            /\ \E o \in Orders :
                 /\ status[o] = "cart" /\ status'[o] # "cart"
                 /\ stock'[p] = stock[p] - Qty[o][p]
       /\ \A o \in Orders : status'[o] = "cart" => status[o] \in {"none", "cart"}]_vars

\* Whatever a request, a retry, the sweep or a crash does between payment and
\* provisioning, an order that shows as paid for has an OrderPaid row, and one
\* past "paid" that nobody shipped by hand has been provisioned.
PaidIsQueued ==
    \A o \in Orders :
        /\ status[o] \in {"paid", "processing", "shipped", "completed", "cancelled"} => Events(o) > 0
        /\ status[o] = "processing" => processed[o] > 0

\* Money came in for the order: settled at the gateway, vouched for by an
\* administrator with a proof, or nothing to pay.
Funded(o) == o \in settled \cup vouched \cup Gifts

\* Nobody is enrolled or registered through an order that no money came in for.
AccessNeedsMoney ==
    /\ \A o \in Orders, p \in Products : enrolment[o][p] # "none" => Funded(o)
    /\ \A row \in registered :
         \E o \in Orders : row[1] \in Sitters(o) /\ row[2] \in Contents(o) /\ Funded(o)

\* An OrderPaid row is not processed until all it stands for is there: each
\* exam has its registrations, each course an enrolment of the buyer, which
\* only a refund may have revoked.
ProcessedIsDelivered ==
    \A o \in Orders : processed[o] > 0 =>
        /\ Sitters(o) \X OfKind(o, "exam") \subseteq registered
        /\ \A p \in OfKind(o, "course") :
             \E twin \in Orders : Buyer[twin] = Buyer[o] /\ enrolment[twin][p] # "none"

\* A payment nobody made in time does not hold its stock for ever: the sweep
\* expires the order, or it is paid or given a new deadline.
StalePaymentLapses == \A o \in Orders : Stale(o) ~> ~Stale(o)

\* The store keeps the promise of OrderFulfilment, its liveness included.
Promise == INSTANCE OrderFulfilment
             WITH money  <- settled \cup vouched \cup Gifts,
                  owed   <- {o \in Orders : Events(o) > 0},
                  served <- {o \in Orders : processed[o] > 0}

KeepsFulfilmentPromise == Promise!Spec

-----------------------------------------------------------------------------
(* What comments in the code say, and its behaviour contradicts *)

\* worker/outbox.go, sweepStalePayments: "Re-check status inside transaction".
\* The re-check reads through the pool and the UPDATE that follows has no
\* status in its WHERE.
SweepExpiresOnlyPending ==
    [][\A o \in Orders :
        status'[o] = "payment_expired" /\ status[o] # "payment_expired"
          => status[o] = "payment_pending"]_vars

\* service/shipping_order.go, shippable: the status "shipped" "is never walked
\* back". handleOrderPaid sets the status of an order it has not looked at.
ShippedIsNotWalkedBack ==
    [][\A o \in Orders :
        status[o] = "shipped" => status'[o] \in {"shipped", "completed", "cancelled"}]_vars

\* service/item_qty.go: "admin_school multi-seat purchases do not pass through
\* this path". Checkout applies ValidateItemQty to every line of every order.
SeatsPassQtyRule ==
    \A w \in Workers : Asks(w, "checkout_refused") => Participants[req[w].order] = {}

=============================================================================

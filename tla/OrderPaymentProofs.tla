-------------------------- MODULE OrderPaymentProofs --------------------------
(***************************************************************************)
(* Theorems about OrderPayment for every value of its constants.           *)
(***************************************************************************)
EXTENDS OrderPayment, TLAPS

-----------------------------------------------------------------------------
(* Types *)

Requests == {Idle} \cup [op : Ops, order : Orders]

\* A request that is being served has a name and is about an order.
LEMMA RequestFields ==
    ASSUME TypeOK, NEW w \in Workers, NEW op \in Ops, Asks(w, op)
    PROVE  req[w].order \in Orders
<1>1. req[w] \in Requests
  BY DEF TypeOK, Requests
<1>2. req[w] # Idle
  BY DEF Asks, Idle, Ops
<1>3. QED
  BY <1>1, <1>2 DEF Requests

\* Moving a request on keeps the requests typed.
LEMMA GoesType ==
    ASSUME TypeOK, NEW w \in Workers, NEW op \in Ops, NEW o \in Orders, Goes(w, op, o)
    PROVE  req' \in [Workers -> Requests]
BY DEF TypeOK, Goes, Requests

LEMMA ReplyType ==
    ASSUME TypeOK, NEW w \in Workers, Reply(w)
    PROVE  req' \in [Workers -> Requests]
BY DEF TypeOK, Reply, Requests

\* The names of the requests, one by one.
LEMMA OpNames ==
    /\ "checkout_pay" \in Ops /\ "checkout_ref" \in Ops /\ "checkout_refused" \in Ops
    /\ "retry_pay" \in Ops /\ "retry_ref" \in Ops /\ "retry_status" \in Ops
    /\ "webhook" \in Ops /\ "webhook_mark" \in Ops
    /\ "ship" \in Ops /\ "complete" \in Ops /\ "refund" \in Ops
BY DEF Ops

LEMMA MarkPaidType ==
    ASSUME TypeOK, NEW o \in Orders, MarkPaid(o)
    PROVE  /\ status' \in [Orders -> Statuses]
           /\ pending' \in [Orders -> Nat]
           /\ processed' \in [Orders -> Nat]
BY DEF TypeOK, MarkPaid, Statuses

LEMMA TakeStockType ==
    ASSUME TypeOK, NEW o \in Orders, TakeStock(o)
    PROVE  stock' \in [Products -> Int]
<1>1. \A p \in Products : stock[p] \in Int /\ Qty[o][p] \in Nat
  BY ConstantsOK DEF TypeOK, ConstantsOK
<1>2. QED
  BY <1>1 DEF TakeStock

\* A request's own step keeps the types.
LEMMA HandleType ==
    ASSUME TypeOK, NEW w \in Workers, Handle(w)
    PROVE  TypeOK'
<1> USE DEF Requests
<1>1. ASSUME NEW o \in Orders, CheckoutPayable(w, o) PROVE TypeOK'
  <2>1. req' \in [Workers -> Requests]
    BY <1>1, GoesType, OpNames DEF CheckoutPayable
  <2>2. stock' \in [Products -> Int]
    BY <1>1, TakeStockType DEF CheckoutPayable
  <2>3. status' \in [Orders -> Statuses]
    BY <1>1 DEF CheckoutPayable, TypeOK, Statuses
  <2>4. QED
    BY <1>1, <2>1, <2>2, <2>3 DEF CheckoutPayable, TypeOK, gatewayVars, outboxVars, accessVars
<1>2. ASSUME NEW o \in Orders,
             \/ CheckoutRefused(w, o) \/ BeginRetry(w, o) \/ BeginWebhook(w, o)
             \/ BeginShip(w, o) \/ BeginComplete(w, o) \/ BeginRefund(w, o)
      PROVE  TypeOK'
  <2>1. req' \in [Workers -> Requests]
    BY <1>2, GoesType, OpNames
       DEF CheckoutRefused, BeginRetry, BeginWebhook, BeginShip, BeginComplete, BeginRefund
  <2>2. UNCHANGED <<status, deadline, stock, gatewayVars, vouched, outboxVars, accessVars, sweep>>
    BY <1>2
       DEF CheckoutRefused, BeginRetry, BeginWebhook, BeginShip, BeginComplete, BeginRefund
  <2>3. QED
    BY <2>1, <2>2 DEF TypeOK, gatewayVars, outboxVars, accessVars
<1>3. CASE OpenInvoice(w)
  <2>1. req[w].order \in Orders
    BY <1>3, RequestFields, OpNames DEF OpenInvoice
  <2>2. req' \in [Workers -> Requests]
    BY <1>3, <2>1, GoesType, OpNames DEF OpenInvoice
  <2>3. invoices' \in [Orders -> Nat]
    BY <1>3, <2>1 DEF OpenInvoice, TypeOK
  <2>4. QED
    BY <1>3, <2>2, <2>3 DEF OpenInvoice, TypeOK, outboxVars, accessVars
<1>4. CASE StoreRef(w)
  <2>1. req[w].order \in Orders
    BY <1>4, RequestFields, OpNames DEF StoreRef
  <2>2. req' \in [Workers -> Requests]
    BY <1>4, <2>1, GoesType, ReplyType, OpNames DEF StoreRef
  <2>3. deadline' \in [Orders -> {"none", "running", "past"}]
    BY <1>4, <2>1 DEF StoreRef, TypeOK
  <2>4. QED
    BY <1>4, <2>2, <2>3 DEF StoreRef, TypeOK, gatewayVars, outboxVars, accessVars
<1>5. CASE CommitRetry(w) \/ CommitStatus(w)
  <2>1. req' \in [Workers -> Requests]
    BY <1>5, ReplyType DEF CommitRetry, CommitStatus
  <2>2. status' \in [Orders -> Statuses]
    BY <1>5 DEF CommitRetry, CommitStatus, TypeOK, Statuses
  <2>3. QED
    BY <1>5, <2>1, <2>2 DEF CommitRetry, CommitStatus, TypeOK, gatewayVars, outboxVars, accessVars
<1>6. CASE CommitWebhook(w)
  <2>1. req[w].order \in Orders
    BY <1>6, RequestFields, OpNames DEF CommitWebhook
  <2>2. req' \in [Workers -> Requests]
    BY <1>6, <2>1, GoesType, OpNames DEF CommitWebhook
  <2>3. QED
    BY <1>6, <2>1, <2>2, MarkPaidType DEF CommitWebhook, TypeOK, gatewayVars, accessVars
<1>7. CASE MarkNotified(w)
  <2>1. req[w].order \in Orders
    BY <1>7, RequestFields, OpNames DEF MarkNotified
  <2>2. req' \in [Workers -> Requests]
    BY <1>7, ReplyType DEF MarkNotified
  <2>3. QED
    BY <1>7, <2>1, <2>2 DEF MarkNotified, TypeOK, outboxVars, accessVars
<1>8. CASE CommitRefund(w)
  <2>1. req[w].order \in Orders
    BY <1>8, RequestFields, OpNames DEF CommitRefund
  <2>2. req' \in [Workers -> Requests]
    BY <1>8, ReplyType DEF CommitRefund
  <2>3. status' \in [Orders -> Statuses]
    BY <1>8 DEF CommitRefund, TypeOK, Statuses
  <2>4. enrolment' \in [Orders -> [Products -> {"none", "active", "revoked"}]]
    BY <1>8, <2>1 DEF CommitRefund, TypeOK
  <2>5. QED
    BY <1>8, <2>2, <2>3, <2>4 DEF CommitRefund, TypeOK, gatewayVars, outboxVars
<1>9. CASE Drop(w)
  BY <1>9, ReplyType DEF Drop, TypeOK, gatewayVars, outboxVars, accessVars
<1>10. QED
  BY <1>1, <1>2, <1>3, <1>4, <1>5, <1>6, <1>7, <1>8, <1>9 DEF Handle

\* So does a step of the worker.
LEMMA WorkerType ==
    ASSUME TypeOK,
           \/ \E o \in Orders : SweepRecheck(o) \/ SweepExpire(o) \/ Fulfil(o)
           \/ SweepList \/ SweepSkip
    PROVE  TypeOK'
<1>1. ASSUME NEW o \in Orders, SweepRecheck(o) PROVE TypeOK'
  BY <1>1 DEF SweepRecheck, TypeOK, gatewayVars, outboxVars, accessVars
<1>2. ASSUME NEW o \in Orders, SweepExpire(o) PROVE TypeOK'
  <2>1. \A p \in Products : stock[p] \in Int /\ Qty[o][p] \in Nat
    BY ConstantsOK DEF TypeOK, ConstantsOK
  <2>2. stock' \in [Products -> Int]
    BY <1>2, <2>1 DEF SweepExpire
  <2>3. status' \in [Orders -> Statuses]
    BY <1>2 DEF SweepExpire, TypeOK, Statuses
  <2>4. QED
    BY <1>2, <2>2, <2>3 DEF SweepExpire, TypeOK, gatewayVars, outboxVars, accessVars
<1>3. ASSUME NEW o \in Orders, Fulfil(o) PROVE TypeOK'
  <2>1. enrolment' \in [Orders -> [Products -> {"none", "active", "revoked"}]]
    BY <1>3 DEF Fulfil, Provision, TypeOK
  <2>2. registered' \subseteq Students \X Products
    <3>1. Sitters(o) \subseteq Students
      BY ConstantsOK DEF Sitters, ConstantsOK
    <3>2. OfKind(o, "exam") \subseteq Products
      BY DEF OfKind, Contents
    <3>3. QED
      BY <1>3, <3>1, <3>2 DEF Fulfil, Provision, TypeOK
  <2>3. status' \in [Orders -> Statuses]
    BY <1>3 DEF Fulfil, TypeOK, Statuses
  <2>4. pending' \in [Orders -> Nat] /\ processed' \in [Orders -> Nat]
    BY <1>3 DEF Fulfil, Claimable, TypeOK
  <2>5. QED
    BY <1>3, <2>1, <2>2, <2>3, <2>4 DEF Fulfil, TypeOK, gatewayVars
<1>4. CASE SweepList
  BY <1>4 DEF SweepList, TypeOK, gatewayVars, outboxVars, accessVars
<1>5. CASE SweepSkip
  BY <1>5 DEF SweepSkip, TypeOK, gatewayVars, outboxVars, accessVars
<1>6. QED
  BY <1>1, <1>2, <1>3, <1>4, <1>5

LEMMA TypeStep == TypeOK /\ [Next]_vars => TypeOK'
<1> SUFFICES ASSUME TypeOK, [Next]_vars PROVE TypeOK'
  OBVIOUS
<1>1. ASSUME NEW o \in Orders, MintCart(o) PROVE TypeOK'
  BY <1>1 DEF MintCart, TypeOK, Statuses, gatewayVars, outboxVars, accessVars
<1>2. ASSUME NEW o \in Orders, CheckoutGift(o) PROVE TypeOK'
  BY <1>2, MarkPaidType, TakeStockType DEF CheckoutGift, TypeOK, gatewayVars, accessVars
<1>3. ASSUME NEW o \in Orders, Settle(o) PROVE TypeOK'
  BY <1>3 DEF Settle, TypeOK, outboxVars, accessVars
<1>4. ASSUME NEW o \in Orders, LapseDeadline(o) PROVE TypeOK'
  BY <1>4 DEF LapseDeadline, TypeOK, gatewayVars, outboxVars, accessVars
<1>5. ASSUME NEW o \in Orders, AdminConfirm(o) PROVE TypeOK'
  BY <1>5, MarkPaidType DEF AdminConfirm, TypeOK, gatewayVars, accessVars
<1>6. ASSUME NEW o \in Orders, AdminReconcile(o) PROVE TypeOK'
  BY <1>6, MarkPaidType DEF AdminReconcile, TypeOK, gatewayVars, accessVars
<1>7. CASE UNCHANGED vars
  BY <1>7 DEF vars, TypeOK, gatewayVars, outboxVars, accessVars
<1>8. QED
  BY <1>1, <1>2, <1>3, <1>4, <1>5, <1>6, <1>7, HandleType, WorkerType DEF Next

LEMMA TypeInit == Init => TypeOK
BY ConstantsOK DEF ConstantsOK, Init, TypeOK, Statuses, Idle

\* Every variable keeps its type, for every set of orders and products and any
\* number of requests: no counter of OrderPaid rows goes below zero.
THEOREM TypeCorrect == Spec => []TypeOK
BY TypeInit, TypeStep, PTL DEF Spec

-----------------------------------------------------------------------------
(* What a step does to money, rows and access *)

\* Requests of an administrator are about an order with an OrderPaid row, and a
\* webhook under way is about money that arrived.
HandlersKnow ==
    \A w \in Workers :
        /\ req[w].op \in {"ship", "complete", "refund"} => Events(req[w].order) > 0
        /\ req[w].op = "webhook" => req[w].order \in settled

\* An OrderPaid row is inserted only for money that arrived or is vouched for.
OwedIsFunded == \A o \in Orders : Events(o) > 0 => Funded(o)

\* The order becomes paid, with its row, for a reason.
Paid(o) ==
    /\ MarkPaid(o)
    /\ settled \subseteq settled' /\ vouched \subseteq vouched'
    /\ Funded(o)'
    /\ UNCHANGED accessVars

\* The step neither queues nor provisions; a status it changes is one of those
\* that need no row.
Bookkeeping ==
    /\ settled \subseteq settled' /\ vouched \subseteq vouched'
    /\ UNCHANGED <<outboxVars, accessVars>>
    /\ \A o \in Orders :
         status'[o] = status[o] \/ status'[o] \in {"cart", "payment_pending", "payment_expired"}

\* Every step is one of five.
LEMMA StepShape ==
    ASSUME TypeOK, HandlersKnow, [Next]_vars
    PROVE  \/ Bookkeeping
           \/ \E o \in Orders : Paid(o) \/ Fulfil(o)
           \/ \E w \in Workers : CommitStatus(w) \/ CommitRefund(w)
<1>1. ASSUME NEW w \in Workers, Handle(w)
      PROVE  Bookkeeping \/ (\E o \in Orders : Paid(o)) \/ CommitStatus(w) \/ CommitRefund(w)
  <2>1. ASSUME NEW o \in Orders, CheckoutPayable(w, o) PROVE Bookkeeping
    BY <2>1 DEF CheckoutPayable, Bookkeeping, TypeOK, gatewayVars
  <2>2. ASSUME NEW o \in Orders,
               \/ CheckoutRefused(w, o) \/ BeginRetry(w, o) \/ BeginWebhook(w, o)
               \/ BeginShip(w, o) \/ BeginComplete(w, o) \/ BeginRefund(w, o)
        PROVE  Bookkeeping
    <3>1. UNCHANGED <<status, deadline, stock, gatewayVars, vouched, outboxVars, accessVars, sweep>>
      BY <2>2
         DEF CheckoutRefused, BeginRetry, BeginWebhook, BeginShip, BeginComplete, BeginRefund
    <3>2. QED
      BY <3>1 DEF Bookkeeping, gatewayVars
  <2>3. CASE OpenInvoice(w) \/ StoreRef(w) \/ MarkNotified(w) \/ Drop(w)
    BY <2>3 DEF OpenInvoice, StoreRef, MarkNotified, Drop, Bookkeeping, gatewayVars
  <2>4. CASE CommitRetry(w)
    BY <2>4 DEF CommitRetry, Bookkeeping, TypeOK, gatewayVars
  <2>5. CASE CommitWebhook(w)
    <3>1. PICK o \in Orders : o = req[w].order
      BY <2>5, RequestFields, OpNames DEF CommitWebhook
    <3>2. o \in settled
      BY <2>5, <3>1 DEF CommitWebhook, HandlersKnow, Asks
    <3>3. MarkPaid(o) /\ UNCHANGED <<gatewayVars, vouched, accessVars>>
      BY <2>5, <3>1 DEF CommitWebhook
    <3>4. Paid(o)
      BY <3>2, <3>3 DEF Paid, Funded, gatewayVars
    <3>5. QED
      BY <3>4
  <2>6. QED
    BY <1>1, <2>1, <2>2, <2>3, <2>4, <2>5 DEF Handle
<1>2. ASSUME NEW o \in Orders, CheckoutGift(o) \/ AdminConfirm(o) \/ AdminReconcile(o)
      PROVE  Paid(o)
  BY <1>2 DEF CheckoutGift, AdminConfirm, AdminReconcile, Paid, Funded, gatewayVars
<1>3. ASSUME NEW o \in Orders, MintCart(o) \/ SweepExpire(o) PROVE Bookkeeping
  BY <1>3 DEF MintCart, SweepExpire, Bookkeeping, TypeOK, gatewayVars
<1>4. ASSUME NEW o \in Orders, Settle(o) \/ LapseDeadline(o) \/ SweepRecheck(o) PROVE Bookkeeping
  BY <1>4 DEF Settle, LapseDeadline, SweepRecheck, Bookkeeping, gatewayVars
<1>5. CASE SweepList \/ SweepSkip \/ UNCHANGED vars
  BY <1>5 DEF SweepList, SweepSkip, vars, Bookkeeping, gatewayVars
<1>6. QED
  BY <1>1, <1>2, <1>3, <1>4, <1>5 DEF Next

\* Handling a row moves it from pending to processed.
LEMMA FulfilMovesRow ==
    ASSUME TypeOK, NEW o \in Orders, Fulfil(o), NEW q \in Orders
    PROVE  Events(q)' = Events(q) /\ processed'[q] >= processed[q]
<1>1. /\ pending[q] \in Nat /\ processed[q] \in Nat
      /\ q = o => pending'[q] = pending[q] - 1 /\ processed'[q] = processed[q] + 1
      /\ q # o => pending'[q] = pending[q] /\ processed'[q] = processed[q]
  BY DEF Fulfil, TypeOK
<1>2. Events(q)' = pending'[q] + processed'[q]
  BY DEF Events
<1>3. QED
  BY <1>1, <1>2 DEF Events

\* What is queued, paid for or provisioned stays so, whatever its status does.
LEMMA Grows ==
    ASSUME TypeOK, TypeOK', HandlersKnow, [Next]_vars
    PROVE  /\ settled \subseteq settled' /\ vouched \subseteq vouched'
           /\ registered \subseteq registered'
           /\ \A o \in Orders :
                /\ Events(o) > 0 => Events(o)' > 0
                /\ processed[o] > 0 => processed'[o] > 0
                /\ \A p \in Products : enrolment[o][p] # "none" => enrolment'[o][p] # "none"
<1> DEFINE Grown ==
           /\ settled \subseteq settled' /\ vouched \subseteq vouched'
           /\ registered \subseteq registered'
           /\ \A o \in Orders :
                /\ Events(o) > 0 => Events(o)' > 0
                /\ processed[o] > 0 => processed'[o] > 0
                /\ \A p \in Products : enrolment[o][p] # "none" => enrolment'[o][p] # "none"
<1>1. CASE Bookkeeping
  BY <1>1 DEF Bookkeeping, Events, outboxVars, accessVars
<1>2. ASSUME NEW o \in Orders, Paid(o) PROVE Grown
  BY <1>2 DEF Paid, MarkPaid, Events, TypeOK, accessVars
<1>3. ASSUME NEW o \in Orders, Fulfil(o) PROVE Grown
  <2>1. ASSUME NEW q \in Orders PROVE Events(q)' = Events(q) /\ processed'[q] >= processed[q]
    BY <1>3, FulfilMovesRow
  <2>2. \A q \in Orders, p \in Products : enrolment[q][p] # "none" => enrolment'[q][p] # "none"
    BY <1>3 DEF Fulfil, Provision, TypeOK
  <2>3. registered \subseteq registered' /\ UNCHANGED <<settled, vouched>>
    BY <1>3 DEF Fulfil, Provision, gatewayVars
  <2>4. QED
    BY <2>1, <2>2, <2>3 DEF TypeOK
<1>4. ASSUME NEW w \in Workers, CommitStatus(w) PROVE Grown
  BY <1>4 DEF CommitStatus, Events, gatewayVars, outboxVars, accessVars
<1>5. ASSUME NEW w \in Workers, CommitRefund(w) PROVE Grown
  <2>1. req[w].order \in Orders
    BY <1>5, RequestFields, OpNames DEF CommitRefund
  <2>2. \A q \in Orders, p \in Products : enrolment[q][p] # "none" => enrolment'[q][p] # "none"
    BY <1>5, <2>1 DEF CommitRefund, TypeOK
  <2>3. QED
    BY <1>5, <2>2 DEF CommitRefund, Events, gatewayVars, outboxVars
<1>6. QED
  BY <1>1, <1>2, <1>3, <1>4, <1>5, StepShape

-----------------------------------------------------------------------------
(* Rows, money and access agree *)

OrderInv == /\ TypeOK
            /\ HandlersKnow
            /\ PaidIsQueued
            /\ OwedIsFunded
            /\ AccessNeedsMoney
            /\ ProcessedIsDelivered

LEMMA OrderInit == Init => OrderInv
<1> SUFFICES ASSUME Init PROVE OrderInv
  OBVIOUS
<1>1. HandlersKnow
  BY DEF Init, HandlersKnow, Idle
<1>2. PaidIsQueued /\ OwedIsFunded
  BY DEF Init, PaidIsQueued, OwedIsFunded, Events
<1>3. AccessNeedsMoney /\ ProcessedIsDelivered
  BY DEF Init, AccessNeedsMoney, ProcessedIsDelivered
<1>4. QED
  BY <1>1, <1>2, <1>3, TypeInit DEF OrderInv

\* How a request's name and order come about.
LEMMA RequestMoves ==
    ASSUME TypeOK, [Next]_vars, NEW w \in Workers
    PROVE  \/ req'[w] = req[w]
           \/ req'[w].op \notin {"ship", "complete", "refund", "webhook"}
           \/ /\ req'[w].op \in {"ship", "complete", "refund"}
              /\ req'[w].order \in Orders
              /\ status[req'[w].order] \in {"paid", "processing", "shipped", "completed"}
           \/ req'[w].op = "webhook" /\ req'[w].order \in settled
<1> DEFINE Moved ==
           \/ req'[w] = req[w]
           \/ req'[w].op \notin {"ship", "complete", "refund", "webhook"}
           \/ /\ req'[w].op \in {"ship", "complete", "refund"}
              /\ req'[w].order \in Orders
              /\ status[req'[w].order] \in {"paid", "processing", "shipped", "completed"}
           \/ req'[w].op = "webhook" /\ req'[w].order \in settled
<1>1. ASSUME NEW op \in Ops, NEW o \in Orders, NEW v \in Workers, Goes(v, op, o),
             op \notin {"ship", "complete", "refund", "webhook"}
      PROVE  Moved
  BY <1>1 DEF Goes, TypeOK
<1>2. ASSUME NEW v \in Workers, Reply(v) PROVE Moved
  BY <1>2 DEF Reply, Idle, TypeOK
<1>3. ASSUME NEW v \in Workers, Handle(v) PROVE Moved
  <2>1. ASSUME NEW o \in Orders,
               CheckoutPayable(v, o) \/ CheckoutRefused(v, o) \/ BeginRetry(v, o)
        PROVE  Moved
    BY <1>1, <2>1, OpNames DEF CheckoutPayable, CheckoutRefused, BeginRetry
  <2>2. ASSUME NEW o \in Orders, BeginWebhook(v, o) PROVE Moved
    BY <2>2 DEF BeginWebhook, Goes, TypeOK
  <2>3. ASSUME NEW o \in Orders, BeginShip(v, o) \/ BeginComplete(v, o) \/ BeginRefund(v, o)
        PROVE  Moved
    BY <2>3 DEF BeginShip, BeginComplete, BeginRefund, Goes, TypeOK
  <2>4. CASE OpenInvoice(v)
    <3>1. req[v].order \in Orders
      BY <2>4, RequestFields, OpNames DEF OpenInvoice
    <3>2. QED
      BY <1>1, <2>4, <3>1, OpNames DEF OpenInvoice
  <2>5. CASE StoreRef(v)
    <3>1. req[v].order \in Orders
      BY <2>5, RequestFields, OpNames DEF StoreRef
    <3>2. QED
      BY <1>1, <1>2, <2>5, <3>1, OpNames DEF StoreRef
  <2>6. CASE CommitWebhook(v)
    <3>1. req[v].order \in Orders
      BY <2>6, RequestFields, OpNames DEF CommitWebhook
    <3>2. QED
      BY <1>1, <2>6, <3>1, OpNames DEF CommitWebhook
  <2>7. CASE CommitRetry(v) \/ MarkNotified(v) \/ CommitStatus(v) \/ CommitRefund(v) \/ Drop(v)
    BY <1>2, <2>7 DEF CommitRetry, MarkNotified, CommitStatus, CommitRefund, Drop
  <2>8. QED
    BY <1>3, <2>1, <2>2, <2>3, <2>4, <2>5, <2>6, <2>7 DEF Handle
<1>4. ASSUME NEW o \in Orders,
             \/ MintCart(o) \/ CheckoutGift(o) \/ Settle(o) \/ LapseDeadline(o)
             \/ AdminConfirm(o) \/ AdminReconcile(o)
             \/ SweepRecheck(o) \/ SweepExpire(o) \/ Fulfil(o)
      PROVE  req' = req
  BY <1>4 DEF MintCart, CheckoutGift, Settle, LapseDeadline, AdminConfirm, AdminReconcile,
              SweepRecheck, SweepExpire, Fulfil
<1>5. CASE SweepList \/ SweepSkip \/ UNCHANGED vars
  BY <1>5 DEF SweepList, SweepSkip, vars
<1>6. QED
  BY <1>3, <1>4, <1>5 DEF Next

LEMMA OrderStep == OrderInv /\ [Next]_vars => OrderInv'
<1> SUFFICES ASSUME OrderInv, [Next]_vars PROVE OrderInv'
  OBVIOUS
<1> USE DEF OrderInv
<1>1. TypeOK'
  BY TypeStep
<1>2. /\ settled \subseteq settled' /\ vouched \subseteq vouched'
      /\ registered \subseteq registered'
      /\ \A o \in Orders :
           /\ Events(o) > 0 => Events(o)' > 0
           /\ processed[o] > 0 => processed'[o] > 0
           /\ \A p \in Products : enrolment[o][p] # "none" => enrolment'[o][p] # "none"
  BY <1>1, Grows
<1>3. \A o \in Orders : Funded(o) => Funded(o)'
  BY <1>2 DEF Funded
<1>4. HandlersKnow'
  <2> SUFFICES ASSUME NEW w \in Workers
               PROVE  /\ req'[w].op \in {"ship", "complete", "refund"} => Events(req[w].order)' > 0
                      /\ req'[w].op = "webhook" => req'[w].order \in settled'
    BY DEF HandlersKnow
  <2>1. CASE req'[w] = req[w]
    <3>1. ASSUME req[w].op \in {"ship", "complete", "refund"} PROVE req[w].order \in Orders
      BY <3>1, RequestFields, OpNames DEF Asks
    <3>2. QED
      BY <1>2, <2>1, <3>1 DEF HandlersKnow, Events
  <2>2. CASE /\ req'[w].op \in {"ship", "complete", "refund"}
             /\ req'[w].order \in Orders
             /\ status[req'[w].order] \in {"paid", "processing", "shipped", "completed"}
    BY <1>2, <2>2 DEF PaidIsQueued, Events
  <2>3. CASE req'[w].op = "webhook" /\ req'[w].order \in settled
    BY <1>2, <2>3
  <2>4. QED
    BY <2>1, <2>2, <2>3, RequestMoves
<1>5. PaidIsQueued'
  <2>1. CASE Bookkeeping
    BY <1>2, <2>1 DEF Bookkeeping, PaidIsQueued
  <2>2. ASSUME NEW o \in Orders, Paid(o) PROVE PaidIsQueued'
    <3>1. Events(o)' > 0 /\ status' = [status EXCEPT ![o] = "paid"]
      BY <2>2 DEF Paid, MarkPaid, Events, TypeOK
    <3>2. QED
      BY <1>2, <3>1 DEF PaidIsQueued, TypeOK
  <2>3. ASSUME NEW o \in Orders, Fulfil(o) PROVE PaidIsQueued'
    <3>1. Events(o)' > 0 /\ processed'[o] > 0
      BY <2>3 DEF Fulfil, Claimable, Events, TypeOK
    <3>2. \A q \in Orders : q # o => status'[q] = status[q]
      BY <2>3 DEF Fulfil, TypeOK
    <3>3. QED
      BY <1>2, <3>1, <3>2 DEF PaidIsQueued
  <2>4. ASSUME NEW w \in Workers, CommitStatus(w) \/ CommitRefund(w) PROVE PaidIsQueued'
    <3> DEFINE o == req[w].order
    <3>1. o \in Orders /\ Events(o) > 0
      BY <2>4, RequestFields, OpNames DEF CommitStatus, CommitRefund, HandlersKnow, Asks
    <3>2. /\ status'[o] \in {"shipped", "completed", "cancelled"}
          /\ \A q \in Orders : q # o => status'[q] = status[q]
      BY <2>4, <3>1 DEF CommitStatus, CommitRefund, TypeOK
    <3>3. QED
      BY <1>2, <3>1, <3>2 DEF PaidIsQueued
  <2>5. QED
    BY <2>1, <2>2, <2>3, <2>4, StepShape
<1>6. OwedIsFunded'
  <2>1. CASE UNCHANGED outboxVars
    BY <1>3, <2>1 DEF OwedIsFunded, Events, outboxVars
  <2>2. ASSUME NEW o \in Orders, Paid(o) PROVE OwedIsFunded'
    <3>1. Funded(o)' /\ \A q \in Orders : q # o => Events(q)' = Events(q)
      BY <2>2 DEF Paid, MarkPaid, Events, TypeOK
    <3>2. QED
      BY <1>3, <3>1 DEF OwedIsFunded
  <2>3. ASSUME NEW o \in Orders, Fulfil(o) PROVE OwedIsFunded'
    <3>1. \A q \in Orders : Events(q)' = Events(q)
      BY <2>3, FulfilMovesRow
    <3>2. QED
      BY <1>3, <3>1 DEF OwedIsFunded
  <2>4. QED
    BY <2>1, <2>2, <2>3, StepShape DEF Bookkeeping, CommitStatus, CommitRefund
<1>7. AccessNeedsMoney'
  <2>1. CASE UNCHANGED accessVars
    BY <1>3, <2>1 DEF AccessNeedsMoney, accessVars
  <2>2. ASSUME NEW o \in Orders, Fulfil(o) PROVE AccessNeedsMoney'
    <3>1. Funded(o)
      BY <2>2 DEF Fulfil, Claimable, OwedIsFunded, Events, TypeOK
    <3>2. \A q \in Orders, p \in Products : enrolment'[q][p] # "none" => Funded(q)
      BY <2>2, <3>1 DEF Fulfil, Provision, AccessNeedsMoney, TypeOK
    <3>3. registered' = registered \cup (Sitters(o) \X OfKind(o, "exam"))
      BY <2>2 DEF Fulfil, Provision
    <3>4. \A row \in registered' :
            \E q \in Orders : row[1] \in Sitters(q) /\ row[2] \in Contents(q) /\ Funded(q)
      BY <3>1, <3>3 DEF AccessNeedsMoney, OfKind
    <3>5. QED
      BY <1>3, <3>2, <3>4 DEF AccessNeedsMoney, Sitters, Contents
  <2>3. ASSUME NEW w \in Workers, CommitRefund(w) PROVE AccessNeedsMoney'
    <3>1. req[w].order \in Orders
      BY <2>3, RequestFields, OpNames DEF CommitRefund
    <3>2. \A q \in Orders, p \in Products : enrolment'[q][p] # "none" => enrolment[q][p] # "none"
      BY <2>3, <3>1 DEF CommitRefund, TypeOK
    <3>3. registered' = registered
      BY <2>3 DEF CommitRefund
    <3>4. QED
      BY <1>3, <3>2, <3>3 DEF AccessNeedsMoney
  <2>4. QED
    BY <2>1, <2>2, <2>3, StepShape DEF Bookkeeping, Paid, CommitStatus
<1>8. ProcessedIsDelivered'
  <2> DEFINE Delivered(o) ==
               /\ Sitters(o) \X OfKind(o, "exam") \subseteq registered
               /\ \A p \in OfKind(o, "course") :
                    \E twin \in Orders : Buyer[twin] = Buyer[o] /\ enrolment[twin][p] # "none"
  <2>1. \A o \in Orders : Delivered(o) => Delivered(o)'
    BY <1>2 DEF OfKind, Contents
  <2>2. ASSUME NEW o \in Orders, Fulfil(o) PROVE Delivered(o)'
    <3>1. Sitters(o) \X OfKind(o, "exam") \subseteq registered'
      BY <2>2 DEF Fulfil, Provision
    <3>2. ASSUME NEW p \in OfKind(o, "course")
          PROVE  \E twin \in Orders : Buyer[twin] = Buyer[o] /\ enrolment'[twin][p] # "none"
      <4>1. p \in Products
        BY DEF OfKind, Contents
      <4>2. CASE Enrolled(Buyer[o], p)
        BY <1>2, <4>1, <4>2 DEF Enrolled
      <4>3. CASE ~Enrolled(Buyer[o], p)
        <5>1. enrolment'[o][p] = "active"
          BY <2>2, <4>1, <4>3 DEF Fulfil, Provision, TypeOK
        <5>2. QED
          BY <5>1
      <4>4. QED
        BY <4>2, <4>3
    <3>3. QED
      BY <3>1, <3>2 DEF Sitters, OfKind, Contents
  <2>3. ASSUME NEW o \in Orders, processed'[o] > 0 PROVE processed[o] > 0 \/ Delivered(o)'
    <3>1. CASE processed' = processed
      BY <2>3, <3>1
    <3>2. ASSUME NEW q \in Orders, Fulfil(q) PROVE processed[o] > 0 \/ Delivered(o)'
      BY <2>2, <2>3, <3>2 DEF Fulfil, TypeOK
    <3>3. QED
      BY <3>1, <3>2, StepShape
         DEF Bookkeeping, Paid, MarkPaid, CommitStatus, CommitRefund, outboxVars
  <2> HIDE DEF Delivered
  <2>4. \A o \in Orders : processed[o] > 0 => Delivered(o)
    BY DEF ProcessedIsDelivered, Delivered
  <2>5. \A o \in Orders : processed'[o] > 0 => Delivered(o)'
    BY <2>1, <2>3, <2>4
  <2>6. QED
    BY <2>5 DEF ProcessedIsDelivered, Delivered
<1>9. QED
  BY <1>1, <1>4, <1>5, <1>6, <1>7, <1>8

\* An order that shows as paid for has its OrderPaid row, and one being
\* processed has been provisioned, whatever requests, retries, sweeps and
\* crashes did in between.
THEOREM PaymentsQueued == Spec => []PaidIsQueued
<1>1. OrderInv => PaidIsQueued
  BY DEF OrderInv
<1>2. QED
  BY <1>1, OrderInit, OrderStep, PTL DEF Spec

\* Nobody is enrolled or registered through an order that no money came in for.
THEOREM AccessIsFunded == Spec => []AccessNeedsMoney
<1>1. OrderInv => AccessNeedsMoney
  BY DEF OrderInv
<1>2. QED
  BY <1>1, OrderInit, OrderStep, PTL DEF Spec

\* A processed row has delivered everything it stands for.
THEOREM ProcessedDelivers == Spec => []ProcessedIsDelivered
<1>1. OrderInv => ProcessedIsDelivered
  BY DEF OrderInv
<1>2. QED
  BY <1>1, OrderInit, OrderStep, PTL DEF Spec

-----------------------------------------------------------------------------
(* Stock *)

\* Checkout takes from a cart what it holds and finds in stock.
LEMMA CheckoutTakes ==
    ASSUME TypeOK, NEW o \in Orders,
           status[o] = "cart", status' = [status EXCEPT ![o] = "payment_pending"]
                                \/ status' = [status EXCEPT ![o] = "paid"],
           InStock(o), TakeStock(o), NEW p \in Products, stock'[p] < stock[p]
    PROVE  /\ stock'[p] >= 0
           /\ status[o] = "cart" /\ status'[o] # "cart"
           /\ stock'[p] = stock[p] - Qty[o][p]
<1>1. stock[p] \in Int /\ Qty[o][p] \in Nat
  BY ConstantsOK DEF TypeOK, ConstantsOK
<1>2. Kind[p] = "physical" /\ stock'[p] = stock[p] - Qty[o][p]
  <2>1. stock'[p] = IF Kind[p] = "physical" THEN stock[p] - Qty[o][p] ELSE stock[p]
    BY DEF TakeStock
  <2>2. QED
    BY <1>1, <2>1
<1>3. Qty[o][p] > 0
  BY <1>1, <1>2
<1>4. stock[p] >= Qty[o][p]
  BY <1>2, <1>3 DEF InStock, OfKind, Contents
<1>5. status'[o] # "cart"
  BY DEF TypeOK
<1>6. QED
  BY <1>1, <1>2, <1>4, <1>5

\* A step that takes no stock and turns no order back into a cart.
StockKept ==
    /\ \A p \in Products : stock'[p] >= stock[p]
    /\ \A o \in Orders : status'[o] = "cart" => status[o] \in {"none", "cart"}

LEMMA StockShape ==
    ASSUME TypeOK, [Next]_vars
    PROVE  \/ StockKept
           \/ \E o \in Orders :
                /\ status[o] = "cart" /\ InStock(o) /\ TakeStock(o)
                /\ \/ status' = [status EXCEPT ![o] = "payment_pending"]
                   \/ status' = [status EXCEPT ![o] = "paid"]
<1> DEFINE Taken(o) ==
             /\ status[o] = "cart" /\ InStock(o) /\ TakeStock(o)
             /\ \/ status' = [status EXCEPT ![o] = "payment_pending"]
                \/ status' = [status EXCEPT ![o] = "paid"]
<1>1. \A p \in Products : stock[p] \in Int
  BY DEF TypeOK
<1>2. ASSUME stock' = stock, status' = status PROVE StockKept
  BY <1>1, <1>2 DEF StockKept
<1>3. ASSUME stock' = stock, NEW o, NEW st, st # "cart", status' = [status EXCEPT ![o] = st]
      PROVE  StockKept
  BY <1>1, <1>3 DEF StockKept, TypeOK
<1>4. ASSUME NEW w \in Workers, Handle(w) PROVE StockKept \/ \E o \in Orders : Taken(o)
  <2>1. ASSUME NEW o \in Orders, CheckoutPayable(w, o) PROVE Taken(o)
    BY <2>1 DEF CheckoutPayable
  <2>2. ASSUME NEW o \in Orders,
               \/ CheckoutRefused(w, o) \/ BeginRetry(w, o) \/ BeginWebhook(w, o)
               \/ BeginShip(w, o) \/ BeginComplete(w, o) \/ BeginRefund(w, o)
        PROVE  StockKept
    BY <1>2, <2>2
       DEF CheckoutRefused, BeginRetry, BeginWebhook, BeginShip, BeginComplete, BeginRefund
  <2>3. CASE OpenInvoice(w) \/ StoreRef(w) \/ MarkNotified(w) \/ Drop(w)
    BY <1>2, <2>3 DEF OpenInvoice, StoreRef, MarkNotified, Drop
  <2>4. CASE CommitRetry(w) \/ CommitWebhook(w) \/ CommitStatus(w) \/ CommitRefund(w)
    BY <1>3, <2>4 DEF CommitRetry, CommitWebhook, MarkPaid, CommitStatus, CommitRefund
  <2>5. QED
    BY <1>4, <2>1, <2>2, <2>3, <2>4 DEF Handle
<1>5. ASSUME NEW o \in Orders, CheckoutGift(o) PROVE Taken(o)
  BY <1>5 DEF CheckoutGift, MarkPaid
<1>6. ASSUME NEW o \in Orders, AdminConfirm(o) \/ AdminReconcile(o) \/ Fulfil(o) PROVE StockKept
  BY <1>3, <1>6 DEF AdminConfirm, AdminReconcile, MarkPaid, Fulfil
<1>7. ASSUME NEW o \in Orders, Settle(o) \/ LapseDeadline(o) \/ SweepRecheck(o) PROVE StockKept
  BY <1>2, <1>7 DEF Settle, LapseDeadline, SweepRecheck
<1>8. ASSUME NEW o \in Orders, MintCart(o) PROVE StockKept
  BY <1>1, <1>8 DEF MintCart, StockKept, TypeOK
<1>9. ASSUME NEW o \in Orders, SweepExpire(o) PROVE StockKept
  <2>1. \A p \in Products : Qty[o][p] \in Nat
    BY ConstantsOK DEF ConstantsOK
  <2>2. \A p \in Products : stock'[p] >= stock[p]
    BY <1>1, <1>9, <2>1 DEF SweepExpire
  <2>3. QED
    BY <1>9, <2>2 DEF SweepExpire, StockKept, TypeOK
<1>10. CASE SweepList \/ SweepSkip \/ UNCHANGED vars
  BY <1>2, <1>10 DEF SweepList, SweepSkip, vars
<1>11. QED
  BY <1>4, <1>5, <1>6, <1>7, <1>8, <1>9, <1>10 DEF Next

LEMMA StockStep ==
    ASSUME TypeOK, [Next]_vars
    PROVE  /\ \A p \in Products : stock'[p] < stock[p] =>
                /\ stock'[p] >= 0
                /\ \E o \in Orders :
                     /\ status[o] = "cart" /\ status'[o] # "cart"
                     /\ stock'[p] = stock[p] - Qty[o][p]
           /\ \A o \in Orders : status'[o] = "cart" => status[o] \in {"none", "cart"}
<1>1. CASE StockKept
  <2>1. TypeOK'
    BY TypeStep
  <2>2. \A p \in Products : stock[p] \in Int /\ stock'[p] \in Int
    BY <2>1 DEF TypeOK
  <2>3. QED
    BY <1>1, <2>2 DEF StockKept
<1>2. ASSUME NEW o \in Orders, status[o] = "cart", InStock(o), TakeStock(o),
             \/ status' = [status EXCEPT ![o] = "payment_pending"]
             \/ status' = [status EXCEPT ![o] = "paid"]
      PROVE  /\ \A p \in Products : stock'[p] < stock[p] =>
                  /\ stock'[p] >= 0
                  /\ status[o] = "cart" /\ status'[o] # "cart"
                  /\ stock'[p] = stock[p] - Qty[o][p]
             /\ \A q \in Orders : status'[q] = "cart" => status[q] \in {"none", "cart"}
  <2>1. \A q \in Orders : status'[q] = "cart" => status[q] \in {"none", "cart"}
    BY <1>2 DEF TypeOK
  <2>2. QED
    BY <1>2, <2>1, CheckoutTakes
<1>3. QED
  BY <1>1, <1>2, StockShape

\* Stock falls only when one order leaves the cart, by what it holds and never
\* below zero; no order is checked out twice.
THEOREM StockOnce == Spec => StockTakenOnce
<1>1. TypeOK /\ [Next]_vars
        => [/\ \A p \in Products : stock'[p] < stock[p] =>
                 /\ stock'[p] >= 0
                 /\ \E o \in Orders :
                      /\ status[o] = "cart" /\ status'[o] # "cart"
                      /\ stock'[p] = stock[p] - Qty[o][p]
            /\ \A o \in Orders : status'[o] = "cart" => status[o] \in {"none", "cart"}]_vars
  BY StockStep
<1>2. QED
  BY <1>1, TypeCorrect, PTL DEF Spec, StockTakenOnce

-----------------------------------------------------------------------------
(* The store keeps the promise of OrderFulfilment *)

LEMMA PromiseInit == Init => Promise!Init
BY DEF Init, Promise!Init, Events

\* Money that arrives is Receive, a confirmation is Vouch, any other OrderPaid
\* row is Owe, handling one is Serve, and everything else stutters.
LEMMA PromiseStep ==
    ASSUME OrderInv, [Next]_vars
    PROVE  [Promise!Next]_(Promise!vars)
<1> USE DEF OrderInv
<1> DEFINE money  == settled \cup vouched \cup Gifts
           owed   == {o \in Orders : Events(o) > 0}
           served == {o \in Orders : processed[o] > 0}
<1>1. ASSUME NEW o \in Orders, MarkPaid(o)
      PROVE  owed' = owed \cup {o} /\ served' = served
  <2>1. \A q \in Orders : Events(q)' > 0 <=> Events(q) > 0 \/ q = o
    BY <1>1 DEF MarkPaid, Events, TypeOK
  <2>2. processed' = processed
    BY <1>1 DEF MarkPaid
  <2>3. QED
    BY <2>1, <2>2
<1>2. ASSUME UNCHANGED <<settled, vouched, outboxVars>> PROVE UNCHANGED Promise!vars
  BY <1>2 DEF Promise!vars, Events, outboxVars
<1>3. ASSUME NEW o \in Orders, MarkPaid(o), UNCHANGED <<settled, vouched>>, o \in money
      PROVE  Promise!Owe(o)
  BY <1>1, <1>3 DEF Promise!Owe
<1>4. ASSUME NEW w \in Workers, Handle(w)
      PROVE  (\E o \in Orders : Promise!Owe(o)) \/ UNCHANGED Promise!vars
  <2>1. CASE CommitWebhook(w)
    <3>1. PICK o \in Orders : o = req[w].order
      BY <2>1, RequestFields, OpNames DEF CommitWebhook
    <3>2. o \in settled
      BY <2>1, <3>1 DEF CommitWebhook, HandlersKnow, Asks
    <3>3. MarkPaid(o) /\ UNCHANGED <<settled, vouched>>
      BY <2>1, <3>1 DEF CommitWebhook, gatewayVars
    <3>4. QED
      BY <1>3, <3>2, <3>3
  <2>2. CASE ~CommitWebhook(w)
    <3>1. UNCHANGED <<settled, vouched, outboxVars>>
      BY <1>4, <2>2
         DEF Handle, CheckoutPayable, CheckoutRefused, BeginRetry, BeginWebhook, BeginShip,
             BeginComplete, BeginRefund, OpenInvoice, StoreRef, CommitRetry, MarkNotified,
             CommitStatus, CommitRefund, Drop, gatewayVars
    <3>2. QED
      BY <1>2, <3>1
  <2>3. QED
    BY <2>1, <2>2
<1>5. ASSUME NEW o \in Orders, CheckoutGift(o) \/ AdminReconcile(o) PROVE Promise!Owe(o)
  BY <1>3, <1>5 DEF CheckoutGift, AdminReconcile, gatewayVars
<1>6. ASSUME NEW o \in Orders, AdminConfirm(o) PROVE Promise!Vouch(o)
  BY <1>1, <1>6 DEF AdminConfirm, Promise!Vouch, gatewayVars
<1>7. ASSUME NEW o \in Orders, Settle(o) PROVE Promise!Receive(o)
  <2>1. owed' = owed /\ served' = served
    BY <1>7 DEF Settle, Events, outboxVars
  <2>2. money' = money \cup {o}
    BY <1>7 DEF Settle
  <2>3. QED
    BY <2>1, <2>2 DEF Promise!Receive
<1>8. ASSUME NEW o \in Orders, Fulfil(o) PROVE Promise!Serve(o)
  <2>1. o \in owed
    BY <1>8 DEF Fulfil, Claimable, Events, TypeOK
  <2>2. owed' = owed
    BY <1>8, FulfilMovesRow
  <2>3. served' = served \cup {o}
    BY <1>8 DEF Fulfil, TypeOK
  <2>4. money' = money
    BY <1>8 DEF Fulfil, gatewayVars
  <2>5. QED
    BY <2>1, <2>2, <2>3, <2>4 DEF Promise!Serve
<1>9. ASSUME NEW o \in Orders, MintCart(o) \/ LapseDeadline(o) \/ SweepRecheck(o) \/ SweepExpire(o)
      PROVE  UNCHANGED Promise!vars
  BY <1>2, <1>9 DEF MintCart, LapseDeadline, SweepRecheck, SweepExpire, gatewayVars
<1>10. CASE SweepList \/ SweepSkip \/ UNCHANGED vars
  BY <1>2, <1>10 DEF SweepList, SweepSkip, vars, gatewayVars
<1>11. QED
  BY <1>4, <1>5, <1>6, <1>7, <1>8, <1>9, <1>10 DEF Next, Promise!Next

\* Orders implement the safety of OrderFulfilment: nothing is owed without
\* money and nothing is served that is not owed.
THEOREM PromiseKept == Spec => Promise!Safe
BY OrderInit, OrderStep, PromiseInit, PromiseStep, PTL DEF Spec, Promise!Safe

=============================================================================

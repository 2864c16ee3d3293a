------------------------------ MODULE OrdersPage ------------------------------
(***************************************************************************)
(* The administrator's list of orders: the dialogs that confirm, ship,     *)
(* complete, refund or cancel the order of a row, and the toolbar that     *)
(* filters the list.  A dialog shows the row it was opened from, uploads   *)
(* the receipt it asks for, and can be closed with its upload or its       *)
(* request under way; another order's dialog may be open when they end.    *)
(*                                                                         *)
(* Bound: one of the two parts is looked at at a time (ordersPart).        *)
(***************************************************************************)
EXTENDS Naturals, FiniteSets

CONSTANTS
    ShopOrders,     \* orders listed
    Parcels,        \* those of them with a physical item
    Files,          \* receipts chosen, in all dialogs
    OrderMoves,     \* bound: changes the server takes
    RequestsOpen,   \* bound: requests under way together
    Days            \* dates that can be chosen; "" is none

ASSUME OrdersConstants ==
    /\ Parcels \subseteq ShopOrders /\ "none" \notin ShopOrders /\ {OrderMoves, RequestsOpen} \subseteq Nat

VARIABLES
    ordersPart,
    placed, rows, rowsDue,      \* the orders; as listed; to be listed again
    orderDialog,                \* the dialog open and the row it shows
    uploads,                    \* receipts on their way to the storage
    actions,                    \* requests under way, one of a kind
    orderMoves,
    ordersQuery, searchTyped, searchTimer, dateMode     \* the toolbar

orderActionVars == <<placed, rows, rowsDue, orderDialog, uploads, actions, orderMoves>>
toolbarVars     == <<ordersQuery, searchTyped, searchTimer, dateMode>>
ordersVars      == <<ordersPart, orderActionVars, toolbarVars>>

\* A mutation of its own for each; ship and manual share a dialog.
Dialogs == {"confirm", "ship", "complete", "refund", "cancel"}
Direct  == {"reconcile", "refresh"}
DialogOf(kind) == IF kind = "manual" THEN "ship" ELSE kind
NeedsReceipt   == {"confirm", "refund"}

OrderStatuses == {"payment_pending", "paid", "processing", "shipped", "completed", "cancelled"}
Receipt       == ShopOrders \cup {"none"}      \* the order it was chosen for
Rows          == [status : OrderStatuses, booked : BOOLEAN, failed : BOOLEAN]
NoRow         == [status |-> "payment_pending", booked |-> FALSE, failed |-> FALSE]
Opened(kind, o) == [kind |-> kind, order |-> o, row |-> NoRow, receipt |-> "none", error |-> FALSE]
NoDialog      == Opened("none", "none")
ActionRecords == [kind : Dialogs \cup Direct \cup {"manual"}, order : ShopOrders,
                  receipt : Receipt, answer : {"none", "done", "refused"}]
NotUploading  == [kind |-> "none", of |-> "none", live |-> FALSE, chosen |-> FALSE]
ToolbarQueries == [status : {"all", "paid"}, queue : {"", "ready_to_ship"}, q : {"", "a", "b"},
                   from : Days, to : Days]

\* The toolbar shows the query that is asked: what is typed but not yet asked has
\* its timer, one day is one day, and a queue is never narrowed by a status.
ToolbarShowsTheQuery ==
    /\ searchTyped # ordersQuery.q => searchTimer
    /\ dateMode = "single" => ordersQuery.from = ordersQuery.to
    /\ ordersQuery.queue # "" => ordersQuery.status = "all"

OrdersTypeOK ==
    /\ ordersPart \in {"dialogs", "toolbar"}
    /\ placed \in [ShopOrders -> [row : Rows, confirmed : Receipt, refunded : Receipt]]
    /\ rows \in [ShopOrders -> Rows] /\ rowsDue \in BOOLEAN
    /\ orderDialog \in [kind : Dialogs \cup {"none", "detail"}, order : Receipt, row : Rows,
                        receipt : Receipt, error : BOOLEAN]
    /\ uploads \in [Files -> [kind : NeedsReceipt \cup {"none"}, of : Receipt,
                           live : BOOLEAN, chosen : BOOLEAN]]
    /\ actions \subseteq ActionRecords
    /\ orderMoves \in 0..OrderMoves
    /\ ordersQuery \in ToolbarQueries /\ searchTyped \in {"", "a", "b"} /\ searchTimer \in BOOLEAN
    /\ dateMode \in {"single", "range"} /\ ToolbarShowsTheQuery

OrdersInit ==
    /\ ordersPart \in {"dialogs", "toolbar"}
    /\ placed \in [ShopOrders -> [row : {NoRow, [status |-> "shipped", booked |-> TRUE, failed |-> FALSE]},
                                  confirmed : {"none"}, refunded : {"none"}]]
    /\ \A o \in ShopOrders \ Parcels : placed[o].row = NoRow
    /\ rows = [o \in ShopOrders |-> placed[o].row] /\ rowsDue = FALSE
    /\ orderDialog = NoDialog /\ uploads = [f \in Files |-> NotUploading]
    /\ actions = {} /\ orderMoves = 0
    /\ ordersQuery \in {q \in ToolbarQueries : q.q = "" /\ q.from = "" /\ q.to = ""
                                             /\ (q.queue = "" \/ q.status = "all")}   \* ?queue=, ?status=
    /\ searchTyped = "" /\ searchTimer = FALSE /\ dateMode = "single"

-----------------------------------------------------------------------------
(* What a row offers *)

dialogsShown == ordersPart = "dialogs" /\ UNCHANGED <<ordersPart, toolbarVars>>

Sending(kind)  == \E a \in actions : a.kind = kind

\* actionAllowed, shipAllowed and refundAllowed.
Allowed(kind, o, row) ==
    CASE kind \in {"confirm", "reconcile"} -> row.status = "payment_pending"
      [] kind \in {"ship", "manual"} ->
             row.status \in {"paid", "processing"} \/ (row.status = "shipped" /\ row.failed)
      [] kind = "complete" -> row.status = "shipped" \/ (row.status = "processing" /\ o \notin Parcels)
      [] kind = "refund" -> row.status \in {"paid", "processing", "shipped"} \/ row.failed
      [] kind \in {"cancel", "refresh"} -> row.booked

\* The row's button: the first step that is allowed, greyed while one of its kind
\* is under way.  The manual one does not count.
Primary(o) ==
    LET may(kind) == Allowed(kind, o, rows[o])
    IN  CASE may("confirm") -> "confirm"
          [] ~may("confirm") /\ may("ship") /\ o \in Parcels -> "ship"
          [] ~may("confirm") /\ ~(may("ship") /\ o \in Parcels) /\ may("complete") -> "complete"
          [] OTHER -> "none"

OpenDialog(o) ==
    /\ dialogsShown /\ orderDialog = NoDialog
    /\ Primary(o) # "none" /\ ~Sending(Primary(o))
    /\ orderDialog' = Opened(Primary(o), o)
    /\ UNCHANGED <<placed, rows, rowsDue, uploads, actions, orderMoves>>

\* Refund and cancel of the row's menu, whether one is under way or not.
OpenFromMenu(o) ==
    /\ dialogsShown /\ orderDialog = NoDialog
    /\ \E kind \in {"refund", "cancel"} :
           Allowed(kind, o, rows[o]) /\ orderDialog' = Opened(kind, o)
    /\ UNCHANGED <<placed, rows, rowsDue, uploads, actions, orderMoves>>

OpenDetail(o) ==
    /\ dialogsShown /\ orderDialog = NoDialog
    /\ orderDialog' = [Opened("detail", o) EXCEPT !.row = rows[o]]
    /\ UNCHANGED <<placed, rows, rowsDue, uploads, actions, orderMoves>>

\* The detail, which shows the row as it was, hands its order over.
HandOver ==
    /\ dialogsShown /\ orderDialog.kind = "detail"
    /\ \E kind \in {"ship", "refund", "cancel"} :
           /\ Allowed(kind, orderDialog.order, orderDialog.row)
           /\ kind = "ship" => orderDialog.order \in Parcels
           /\ kind = "refund" => orderDialog.row.status \in {"paid", "processing", "shipped"}
           /\ orderDialog' = Opened(kind, orderDialog.order)
    /\ UNCHANGED <<placed, rows, rowsDue, uploads, actions, orderMoves>>

CloseDialog_StaysMounted ==
    /\ dialogsShown /\ orderDialog # NoDialog /\ orderDialog' = NoDialog
    /\ UNCHANGED <<placed, rows, rowsDue, uploads, actions, orderMoves>>

\* An upload goes on when the dialog that asked for it is unmounted, for nobody.
Unmounted == [f \in Files |-> [uploads[f] EXCEPT !.live = FALSE]]

\* By its buttons, or by Escape at any moment.
CloseDialog ==
    /\ dialogsShown /\ orderDialog # NoDialog /\ orderDialog' = NoDialog
    /\ uploads' = Unmounted
    /\ UNCHANGED <<placed, rows, rowsDue, actions, orderMoves>>

-----------------------------------------------------------------------------
(* The steps *)

\* handleFileSelected: the button waits for the URL of the file before, not for
\* the file itself.
ChooseReceipt(f) ==
    /\ dialogsShown /\ orderDialog.kind \in NeedsReceipt /\ ~Sending(orderDialog.kind)
    /\ ~uploads[f].chosen
    /\ uploads' = [uploads EXCEPT ![f] = [kind |-> orderDialog.kind, of |-> orderDialog.order,
                                          live |-> TRUE, chosen |-> TRUE]]
    /\ UNCHANGED <<placed, rows, rowsDue, orderDialog, actions, orderMoves>>

\* The file is stored: setProofKey, if the dialog is still there.  Or it is not.
ReceiptStored(f) ==
    /\ dialogsShown /\ uploads[f].of # "none"
    /\ uploads' = [uploads EXCEPT ![f] = [NotUploading EXCEPT !.chosen = TRUE]]
    /\ \/ /\ uploads[f].live /\ orderDialog.kind = uploads[f].kind
          /\ orderDialog' = [orderDialog EXCEPT !.receipt = uploads[f].of]
       \/ UNCHANGED orderDialog
    /\ UNCHANGED <<placed, rows, rowsDue, actions, orderMoves>>

Sends(kind, o, receipt) ==
    /\ Cardinality(actions) < RequestsOpen
    /\ actions' = actions \cup {[kind |-> kind, order |-> o, receipt |-> receipt, answer |-> "none"]}

SubmitDialog(kind) ==
    /\ dialogsShown /\ orderDialog.kind = DialogOf(kind)
    /\ ~\E a \in actions : DialogOf(a.kind) = DialogOf(kind)
    /\ kind \in NeedsReceipt => orderDialog.receipt # "none"
    /\ Sends(kind, orderDialog.order, orderDialog.receipt)
    /\ orderDialog' = [orderDialog EXCEPT !.error = FALSE]
    /\ UNCHANGED <<placed, rows, rowsDue, uploads, orderMoves>>

\* Reconcile and refresh ask nothing.
SendDirect(kind, o) ==
    /\ dialogsShown
    /\ \/ orderDialog = NoDialog /\ Allowed(kind, o, rows[o])
       \/ kind = "refresh" /\ orderDialog.kind = "detail" /\ orderDialog.order = o /\ orderDialog.row.booked
    /\ ~Sending(kind)
    /\ Sends(kind, o, "none")
    /\ UNCHANGED <<placed, rows, rowsDue, orderDialog, uploads, orderMoves>>

\* What the handlers make of an order, by what it is by then.
After(a, order) ==
    LET becomes(s) == [order EXCEPT !.row.status = s]
        courier    == {[order EXCEPT !.row.failed = x] : x \in BOOLEAN}   \* what it reports
    IN  CASE a.kind = "confirm"   -> {[becomes("paid") EXCEPT !.confirmed = a.receipt]}
          [] a.kind = "reconcile" -> {becomes("paid"), order}      \* as the gateway says
          [] a.kind = "ship"      -> {[becomes("shipped") EXCEPT !.row.booked = TRUE, !.row.failed = FALSE]}
          [] a.kind = "manual"    -> {[becomes("shipped") EXCEPT !.row.booked = FALSE, !.row.failed = FALSE]}
          [] a.kind = "complete"  -> {becomes("completed")}
          [] a.kind = "refund"    -> {[becomes("cancelled") EXCEPT !.refunded = a.receipt]}
          [] OTHER -> courier

\* Confirm and reconcile ask nothing of the status; refund takes a completed order as well.
Accepted(a, order) ==
    CASE a.kind = "confirm"   -> TRUE
      [] a.kind = "reconcile" -> TRUE
      [] a.kind = "refund"    -> order.row.status \in {"paid", "processing", "shipped", "completed"}
      [] OTHER -> Allowed(a.kind, a.order, order.row)

ServerActs(a) ==
    /\ dialogsShown /\ a.answer = "none" /\ orderMoves < OrderMoves /\ Accepted(a, placed[a.order])
    /\ \E order \in After(a, placed[a.order]) : placed' = [placed EXCEPT ![a.order] = order]
    /\ orderMoves' = orderMoves + 1
    /\ actions' = (actions \ {a}) \cup {[a EXCEPT !.answer = "done"]}
    /\ UNCHANGED <<rows, rowsDue, orderDialog, uploads>>

ServerRefuses(a) ==
    /\ dialogsShown /\ a.answer = "none"
    /\ actions' = (actions \ {a}) \cup {[a EXCEPT !.answer = "refused"]}
    /\ UNCHANGED <<placed, rows, rowsDue, orderDialog, uploads, orderMoves>>

\* onSuccess, and the handler's next line: the dialog of its kind closes, also
\* another order's.
ActionDone(a) ==
    /\ dialogsShown /\ a.answer = "done"
    /\ actions' = actions \ {a} /\ rowsDue' = TRUE
    /\ IF orderDialog.kind = DialogOf(a.kind)
       THEN orderDialog' = NoDialog /\ uploads' = Unmounted
       ELSE UNCHANGED <<orderDialog, uploads>>
    /\ UNCHANGED <<placed, rows, orderMoves>>

\* Refused, or its answer lost: the message is shown in the dialog of its kind,
\* the complete one excepted, which has a toast.
ActionFails(a) ==
    /\ dialogsShown /\ actions' = actions \ {a}
    /\ orderDialog' = IF orderDialog.kind = DialogOf(a.kind) /\ a.kind # "complete"
                      THEN [orderDialog EXCEPT !.error = TRUE] ELSE orderDialog
    /\ UNCHANGED <<placed, rows, rowsDue, uploads, orderMoves>>

\* The list is read again.
RowsArrive ==
    /\ dialogsShown /\ rowsDue /\ rowsDue' = FALSE
    /\ rows' = [o \in ShopOrders |-> placed[o].row]
    /\ UNCHANGED <<placed, orderDialog, uploads, actions, orderMoves>>

\* It is paid; the worker fulfils it; the courier reports.
OrderMovesOn(o) ==
    /\ dialogsShown /\ orderMoves < OrderMoves /\ orderMoves' = orderMoves + 1
    /\ \/ /\ placed[o].row.status = "payment_pending"
          /\ placed' = [placed EXCEPT ![o].row.status = "paid"]
       \/ /\ placed[o].row.status = "paid"
          /\ placed' = [placed EXCEPT ![o].row.status =
                            IF o \in Parcels THEN "processing" ELSE "completed"]
       \/ /\ placed[o].row.booked /\ ~placed[o].row.failed
          /\ placed' = [placed EXCEPT ![o].row.failed = TRUE]
    /\ UNCHANGED <<rows, rowsDue, orderDialog, uploads, actions>>

-----------------------------------------------------------------------------
(* The toolbar.  Each control writes the whole query, from the one shown. *)

toolbarShown == ordersPart = "toolbar" /\ UNCHANGED <<ordersPart, orderActionVars>>

\* Every keystroke starts the 300 ms again, unless it is what is asked already.
TypeSearch(text) ==
    /\ toolbarShown /\ searchTyped # text /\ searchTyped' = text
    /\ searchTimer' = (text # ordersQuery.q)
    /\ UNCHANGED <<ordersQuery, dateMode>>

\* The timer writes into the latest query: a filter set while it ran stays.
SearchFires ==
    /\ toolbarShown /\ searchTimer /\ searchTimer' = FALSE
    /\ ordersQuery' = [ordersQuery EXCEPT !.q = searchTyped]
    /\ UNCHANGED <<searchTyped, dateMode>>

\* A queue is a filter of its own, not one more status.
SelectFilter(option) ==
    /\ toolbarShown
    /\ ordersQuery' = IF option = "ready_to_ship"
                      THEN [ordersQuery EXCEPT !.status = "all", !.queue = option]
                      ELSE [ordersQuery EXCEPT !.status = option, !.queue = ""]
    /\ UNCHANGED <<searchTyped, searchTimer, dateMode>>

\* One day is a range from it to it.
SetSingleDate(day) ==
    /\ toolbarShown /\ dateMode = "single"
    /\ ordersQuery' = [ordersQuery EXCEPT !.from = day, !.to = day]
    /\ UNCHANGED <<searchTyped, searchTimer, dateMode>>

SetRange(end, day) ==
    /\ toolbarShown /\ dateMode = "range"
    /\ ordersQuery' = [ordersQuery EXCEPT ![end] = day]
    /\ UNCHANGED <<searchTyped, searchTimer, dateMode>>

\* Back to one day: the day the range began.
SwitchMode(mode) ==
    /\ toolbarShown /\ dateMode # mode /\ dateMode' = mode
    /\ ordersQuery' = IF mode = "single" THEN [ordersQuery EXCEPT !.to = ordersQuery.from] ELSE ordersQuery
    /\ UNCHANGED <<searchTyped, searchTimer>>

-----------------------------------------------------------------------------

OrdersNext ==
    \/ \E o \in ShopOrders :
         \/ OpenDialog(o) \/ OpenFromMenu(o) \/ OpenDetail(o) \/ OrderMovesOn(o)
         \/ \E kind \in Direct : SendDirect(kind, o)
    \/ HandOver \/ CloseDialog \/ RowsArrive
    \/ \E f \in Files : ChooseReceipt(f) \/ ReceiptStored(f)
    \/ \E kind \in Dialogs \cup {"manual"} : SubmitDialog(kind)
    \/ \E a \in actions : ServerActs(a) \/ ServerRefuses(a) \/ ActionDone(a) \/ ActionFails(a)
    \/ \E text \in {"", "a", "b"} : TypeSearch(text)
    \/ SearchFires
    \/ \E option \in {"all", "paid", "ready_to_ship"} : SelectFilter(option)
    \/ \E day \in Days : SetSingleDate(day) \/ \E end \in {"from", "to"} : SetRange(end, day)
    \/ \E mode \in {"single", "range"} : SwitchMode(mode)

OrdersSpec == OrdersInit /\ [][OrdersNext]_ordersVars

\* A receipt kept with an order is one that was uploaded for it, though a dialog
\* can be closed, and the next order's opened, with the file still on its way.
ReceiptIsOfItsOrder ==
    \A o \in ShopOrders : {placed[o].confirmed, placed[o].refunded} \subseteq {"none", o}

===============================================================================

------------------------------ MODULE CartPage -------------------------------
(***************************************************************************)
(* A cart with one physical product: the cart page, whose quantity,        *)
(* address, courier and promo changes overlap, and the server, which       *)
(* prices a courier outside the transaction and writes only if the order   *)
(* has not changed since it was read.                                      *)
(*                                                                         *)
(* A destination stands for province, city, district and postal code; a    *)
(* rate depends on it and on the weight, which is the quantity.            *)
(***************************************************************************)
EXTENDS Naturals

CONSTANTS
    Places,          \* complete destinations, as positive numbers
    MaxQty,          \* the stepper's limit
    Patches,         \* PATCH requests of the cart under way together, by number
    CartChanges      \* bound: changes of the order the server takes

ASSUME CartConstants ==
    /\ 1 \in Places
    /\ Places \subseteq Nat \ {0} /\ MaxQty \in Nat \ {0} /\ CartChanges \in Nat

VARIABLES
    order,           \* server: the order
    cart, cartDue,   \* the page's copy, and whether it is to be read again
    profilePlace,    \* the address in the student's profile (0: none)
    address, addressOpen, addressSeeded,
    ratesShown,      \* the couriers' quotes are on the page
    patch,           \* the PATCH requests
    qtySent,         \* the quantity (0: remove) of the change under way
    checkingOut

cartVars == <<order, cart, cartDue, profilePlace, address, addressOpen, addressSeeded, ratesShown,
              patch, qtySent, checkingOut>>
addressUnchanged == UNCHANGED <<profilePlace, address, addressOpen, addressSeeded, ratesShown>>

NoQuote   == <<0, 0>>
Quotes    == (Places \cup {0}) \X (0..MaxQty)
NotAsked  == MaxQty + 1                       \* of qtySent
NoOrder   == [version |-> 0]
IdlePatch == [step |-> "idle", place |-> 0, courier |-> FALSE, promo |-> "keep",
              tries |-> 0, next |-> NoOrder]

\* A request that has left the page; tries: how often it was priced anew.
Asked(place, courier, promo, tries) ==
    [step |-> "sent", place |-> place, courier |-> courier, promo |-> promo,
     tries |-> tries, next |-> NoOrder]

Price(qty)   == 10 * qty
Discount     == 3                             \* of the promo: an amount, below one's price
Rate(quote)  == quote[1] + quote[2]

Orders == [qty : 0..MaxQty, place : Places \cup {0}, courier : BOOLEAN, quote : Quotes,
           shipping : Nat, promo : BOOLEAN, discount : {0, Discount}, total : Nat,
           version : 0..CartChanges, status : {"cart", "payment_pending"}]

CartTypeOK ==
    /\ order \in Orders
    /\ cart \in [qty : 0..MaxQty, place : Places \cup {0}, promo : BOOLEAN,
                 status : {"cart", "payment_pending"}]
    /\ {cartDue, addressOpen, addressSeeded, ratesShown, checkingOut} \subseteq BOOLEAN
    /\ {profilePlace, address} \subseteq Places \cup {0}
    /\ \A p \in Patches : /\ patch[p].step \in {"idle", "sent", "priced"}
                          /\ patch[p].place \in Places \cup {0}
                          /\ patch[p].promo \in {"keep", "apply", "clear"} /\ patch[p].tries \in 0..1
    /\ qtySent \in 0..NotAsked

-----------------------------------------------------------------------------
(* The server *)

\* Counted from minus Discount: a cart that is emptied keeps its discount, and its
\* total is below nothing.
Total(qty, discount, shipping) == Price(qty) + shipping + (Discount - discount)

\* UpdateItemQty and RemoveItem, in one transaction: a physical product's change
\* voids the quote.  An item that is removed stays so, whatever its quantity is
\* set to from a page that still shows it.
WithQty(o, asked) ==
    LET qty == IF o.qty = 0 THEN 0 ELSE asked
    IN  [o EXCEPT !.qty = qty, !.courier = FALSE, !.quote = NoQuote, !.shipping = 0,
                  !.total = Total(qty, o.discount, 0), !.version = o.version + 1]

\* buildCartPatch for the order as it was read.  A courier is priced anew, if
\* there is anything to ship; a patch without one that moves the destination
\* voids the quote.  A promo takes no more than the goods cost.
BuildPatch(o, p) ==
    LET place == IF p.place = 0 THEN o.place ELSE p.place
        quote == IF p.courier /\ o.qty > 0 THEN <<place, o.qty>>
                 ELSE IF p.courier \/ place = o.place THEN o.quote ELSE NoQuote
        promo == IF p.promo = "keep" THEN o.promo ELSE p.promo = "apply"
        less  == IF p.promo = "keep" THEN o.discount
                 ELSE IF p.promo = "apply" /\ o.qty > 0 THEN Discount ELSE 0
        cost  == IF quote = NoQuote THEN 0 ELSE Rate(quote)
    IN  [qty |-> o.qty, place |-> place, courier |-> (quote # NoQuote), quote |-> quote,
         shipping |-> cost, promo |-> promo, discount |-> less, total |-> Total(o.qty, less, cost),
         version |-> o.version + 1, status |-> o.status]

\* PatchCart reads the order and prices the patch, in no transaction: what it
\* will write is remembered with the version it was computed from.
PricePatch(p) ==
    /\ patch[p].step = "sent" /\ order.status = "cart" /\ order.version < CartChanges
    /\ patch[p].courier /\ order.qty > 0 => patch[p].place # 0
    /\ patch' = [patch EXCEPT ![p].step = "priced", ![p].next = BuildPatch(order, patch[p])]
    /\ UNCHANGED <<order, cart, cartDue, qtySent, checkingOut>> /\ addressUnchanged

Unmoved(p) == order.version + 1 = patch[p].next.version

\* The columns of the patch; the quantity is a row of its own.
Patched(o, next) == [next EXCEPT !.qty = o.qty, !.version = o.version + 1]

\* The write, without the condition on updated_at.
PatchWritten_AnyVersion(p) ==
    /\ patch[p].step = "priced" /\ order.status = "cart" /\ order.version < CartChanges
    /\ order' = Patched(order, patch[p].next)
    /\ patch' = [patch EXCEPT ![p] = IdlePatch] /\ cartDue' = TRUE
    /\ UNCHANGED <<cart, qtySent, checkingOut>> /\ addressUnchanged

\* The write, when the order is still what was read; the page reads it again.
PatchWritten(p) ==
    /\ patch[p].step = "priced" /\ order.status = "cart" /\ Unmoved(p)
    /\ order' = Patched(order, patch[p].next)
    /\ patch' = [patch EXCEPT ![p] = IdlePatch] /\ cartDue' = TRUE
    /\ UNCHANGED <<cart, qtySent, checkingOut>> /\ addressUnchanged

\* The order changed meanwhile: priced once more.
PatchAgain(p) ==
    /\ patch[p].step = "priced" /\ order.status = "cart" /\ ~Unmoved(p) /\ patch[p].tries = 0
    /\ patch' = [patch EXCEPT ![p] = Asked(patch[p].place, patch[p].courier, patch[p].promo, 1)]
    /\ UNCHANGED <<order, cart, cartDue, qtySent, checkingOut>> /\ addressUnchanged

\* It changed twice (order_changed: the page reads the cart again), is checked
\* out, or the patch is refused.
PatchFails(p) ==
    /\ patch[p].step # "idle"
    /\ patch' = [patch EXCEPT ![p] = IdlePatch]
    /\ cartDue' = (cartDue \/ (patch[p].step = "priced" /\ ~Unmoved(p)))
    /\ UNCHANGED <<order, cart, qtySent, checkingOut>> /\ addressUnchanged

-----------------------------------------------------------------------------
(* The page *)

Editable == cart.status = "cart" /\ cart.qty > 0
Patching == \E p \in Patches : patch[p].step # "idle"

CartOf(o) == [qty |-> o.qty, place |-> o.place, promo |-> o.promo, status |-> o.status]

\* useCart's answer.
CartArrives ==
    /\ cartDue /\ cartDue' = FALSE /\ cart' = CartOf(order)
    /\ UNCHANGED <<order, patch, qtySent, checkingOut>> /\ addressUnchanged

\* The effect that seeds the address, once: the cart's, else the profile's.  A
\* complete one closes the form.
SeedAddress ==
    /\ ~addressSeeded /\ (cart.place # 0 \/ profilePlace # 0)
    /\ addressSeeded' = TRUE /\ addressOpen' = FALSE
    /\ address' = IF cart.place # 0 THEN cart.place ELSE profilePlace
    /\ UNCHANGED <<order, cart, cartDue, profilePlace, ratesShown, patch, qtySent, checkingOut>>

\* The form hands every change to the page; it need not be complete (0).
EditAddress(place) ==
    /\ Editable /\ addressOpen /\ address # place /\ address' = place
    /\ UNCHANGED <<order, cart, cartDue, profilePlace, addressOpen, addressSeeded, ratesShown, patch,
                   qtySent, checkingOut>>

OpenAddress ==
    /\ Editable /\ ~addressOpen /\ addressOpen' = TRUE
    /\ UNCHANGED <<order, cart, cartDue, profilePlace, address, addressSeeded, ratesShown, patch,
                   qtySent, checkingOut>>

\* A PATCH of the form's destination leaves the page.
SendPatch(courier, promo) ==
    \E p \in Patches :
        /\ patch[p] = IdlePatch /\ \A q \in Patches : q < p => patch[q] # IdlePatch
        /\ order.version < CartChanges
        /\ patch' = [patch EXCEPT ![p] = Asked(address, courier, promo, 0)]

\* handleSaveAddress: quotes for another destination than the cart had are
\* dropped.
SaveAddress ==
    /\ Editable /\ addressOpen /\ address # 0 /\ ~Patching
    /\ SendPatch(FALSE, "keep") /\ addressOpen' = FALSE
    /\ ratesShown' = (ratesShown /\ cart.place \in {0, address})
    /\ UNCHANGED <<order, cart, cartDue, profilePlace, address, addressSeeded, qtySent,
                   checkingOut>>

\* handleCheckShipping, with its answer.
CheckShipping ==
    /\ Editable /\ address # 0 /\ ~ratesShown /\ ratesShown' = TRUE
    /\ UNCHANGED <<order, cart, cartDue, profilePlace, address, addressOpen, addressSeeded,
                   patch, qtySent, checkingOut>>

\* handleSelectCourier, and handleNoteBlur, which sends the selection again.  A
\* change of quantity leaves the quotes on the page.
SelectCourier ==
    /\ Editable /\ ratesShown /\ SendPatch(TRUE, "keep")
    /\ UNCHANGED <<order, cart, cartDue, qtySent, checkingOut>> /\ addressUnchanged

\* The stepper and the remove button; both wait for the change under way.
ChangeQty(qty) ==
    /\ Editable /\ qtySent = NotAsked /\ qty \in {0, cart.qty - 1, cart.qty + 1} /\ qty <= MaxQty
    /\ qtySent' = qty
    /\ UNCHANGED <<order, cart, cartDue, patch, checkingOut>> /\ addressUnchanged

QtyAnswered ==
    /\ qtySent # NotAsked /\ qtySent' = NotAsked
    /\ \/ /\ order.status = "cart" /\ order.version < CartChanges
          /\ order' = WithQty(order, qtySent) /\ cartDue' = TRUE
       \/ UNCHANGED <<order, cartDue>>                      \* refused
    /\ UNCHANGED <<cart, patch, checkingOut>> /\ addressUnchanged

\* handleApplyPromo: validated first, then applied with a PATCH (the two calls
\* are one step: only the second has an effect, with the address of its moment).
ApplyPromo ==
    /\ Editable /\ ~Patching /\ ~cart.promo /\ SendPatch(FALSE, "apply")
    /\ UNCHANGED <<order, cart, cartDue, qtySent, checkingOut>> /\ addressUnchanged

ClearPromo ==
    /\ Editable /\ cart.promo /\ SendPatch(FALSE, "clear")
    /\ UNCHANGED <<order, cart, cartDue, qtySent, checkingOut>> /\ addressUnchanged

\* SnapCheckout's button waits for the changes of this page.
PressCheckout ==
    /\ Editable /\ ~checkingOut /\ ~Patching /\ qtySent = NotAsked
    /\ checkingOut' = TRUE
    /\ UNCHANGED <<order, cart, cartDue, patch, qtySent>> /\ addressUnchanged

\* Checkout, under the order's lock: goods that are shipped need a courier.
CheckedOut ==
    /\ checkingOut /\ checkingOut' = FALSE
    /\ \/ /\ order.status = "cart" /\ order.qty > 0 /\ order.courier /\ order.shipping > 0
          /\ order' = [order EXCEPT !.status = "payment_pending"] /\ cartDue' = TRUE
       \/ UNCHANGED <<order, cartDue>>                      \* refused
    /\ UNCHANGED <<cart, patch, qtySent>> /\ addressUnchanged

-----------------------------------------------------------------------------
CartInit ==
    /\ order = [qty |-> 1, place |-> 0, courier |-> FALSE, quote |-> NoQuote, shipping |-> 0,
                promo |-> FALSE, discount |-> 0, total |-> Total(1, 0, 0), version |-> 0, status |-> "cart"]
    /\ cart = CartOf(order) /\ cartDue = FALSE
    /\ profilePlace = 1
    /\ address = 0 /\ addressOpen = TRUE /\ addressSeeded = FALSE /\ ratesShown = FALSE
    /\ patch = [p \in Patches |-> IdlePatch] /\ qtySent = NotAsked
    /\ checkingOut = FALSE

CartNext ==
    \/ \E p \in Patches : PricePatch(p) \/ PatchWritten(p) \/ PatchAgain(p) \/ PatchFails(p)
    \/ CartArrives \/ SeedAddress \/ OpenAddress \/ SaveAddress
    \/ \E place \in Places \cup {0} : EditAddress(place)
    \/ CheckShipping \/ SelectCourier \/ QtyAnswered
    \/ \E qty \in 0..MaxQty : ChangeQty(qty)
    \/ ApplyPromo \/ ClearPromo \/ PressCheckout \/ CheckedOut

CartSpec == CartInit /\ [][CartNext]_cartVars

-----------------------------------------------------------------------------
\* What is charged is right for what is sent: a courier's price on the order was
\* quoted for the destination and the quantity the order has now, the total adds
\* up, and nothing is checked out without a courier - whatever changes of
\* quantity, address, courier and promo overlapped.
ChargedForThisCart ==
    /\ order.courier => order.quote = <<order.place, order.qty>>
    /\ order.shipping = (IF order.courier THEN Rate(order.quote) ELSE 0)
    /\ order.total = Total(order.qty, order.discount, order.shipping)
    /\ order.status = "payment_pending" => order.courier /\ order.qty > 0

=============================================================================

----------------------------- MODULE ProductsPage -----------------------------
(***************************************************************************)
(* The administrator's list of products and the one dialog that creates    *)
(* or edits any of them.  The dialog stays mounted while it is closed: its  *)
(* form is filled by an effect when it opens, and an image may still be on *)
(* its way from an earlier opening.  Buyers take stock meanwhile.          *)
(***************************************************************************)
EXTENDS Integers, FiniteSets

CONSTANTS
    Goods,          \* products there may be, positive numbers
    Physical,       \* those of a type with a stock
    MaxStock,       \* bound: units on the shelf
    GoodsWrites     \* bound: requests, sales, changes of the form and images chosen

ASSUME ProductConstants ==
    /\ Goods \subseteq Nat \ {0} /\ IsFiniteSet(Goods) /\ Physical \subseteq Goods
    /\ {MaxStock, GoodsWrites} \subseteq Nat

VARIABLES
    goods, goodsSeen, goodsDue,     \* the products; as listed; to be listed again
    productDialog,                  \* modalOpen and editingProduct; of 0 is a new one
    productForm, changedFields,     \* the form; the fields changed since it opened
    productImage,                   \* whose image is on its way; NoImage is none
    productCalls,                   \* the requests under way, one of a kind
    goodsWrites

productVars == <<goods, goodsSeen, goodsDue, productDialog, productForm, changedFields,
                 productImage, productCalls, goodsWrites>>

Blank        == -1          \* an emptied number field
NoImage      == -1
GoodNames    == {"", "a", "b"}
GoodStatuses == {"draft", "published", "hidden", "archived"}
ImageOf      == Goods \cup {0, NoImage}            \* whom it was chosen for
Good         == [state : {"unused", "listed", "deleted"}, name : GoodNames, stock : 0..MaxStock,
                 status : GoodStatuses, image : ImageOf]
Form         == [name : GoodNames, stock : 0..MaxStock \cup {Blank}, status : GoodStatuses,
                 image : ImageOf]
Unused       == [state |-> "unused", name |-> "", stock |-> 0, status |-> "draft", image |-> NoImage]
EmptyForm    == [name |-> "", stock |-> Blank, status |-> "draft", image |-> NoImage]
NoCall       == [stage |-> "idle", of |-> 0, input |-> EmptyForm]
CallKinds    == {"create", "update", "publish", "remove"}

ProductTypeOK ==
    /\ goods \in [Goods -> Good] /\ goodsSeen \in [Goods -> Good] /\ goodsDue \in BOOLEAN
    /\ productDialog \in [open : BOOLEAN, of : Goods \cup {0}, row : Good]
    /\ productForm \in Form /\ changedFields \subseteq {"name", "stock", "status"}
    /\ productImage \in ImageOf
    /\ productCalls \in [CallKinds -> [stage : {"idle", "sent", "done"}, of : Goods \cup {0},
                                       input : Form]]
    /\ goodsWrites \in 0..GoodsWrites

ProductInit ==
    /\ \E there \in SUBSET Goods, status \in {"draft", "published"} :
           goods = [g \in Goods |-> IF g \in there
                        THEN [Unused EXCEPT !.state = "listed", !.name = "a", !.status = status,
                                            !.stock = IF g \in Physical THEN MaxStock ELSE 0]
                        ELSE Unused]
    /\ goodsSeen = goods /\ goodsDue = FALSE
    /\ productDialog = [open |-> FALSE, of |-> 0, row |-> Unused]
    /\ productForm = EmptyForm /\ changedFields = {} /\ productImage = NoImage
    /\ productCalls = [k \in CallKinds |-> NoCall] /\ goodsWrites = 0

GoodsCounted == goodsWrites < GoodsWrites /\ goodsWrites' = goodsWrites + 1

\* isPending of the dialog: either save disables it, whosever dialog it is now.
SavePending == \E k \in {"create", "update"} : productCalls[k].stage # "idle"

-----------------------------------------------------------------------------
(* The page *)

FormOf(row) == IF row = Unused THEN EmptyForm
               ELSE [name |-> row.name, stock |-> row.stock, status |-> row.status, image |-> row.image]

FilledFrom_ProductOnly(row) == IF row = productDialog.row THEN productForm ELSE FormOf(row)

\* The effect on [open, product] sets every field when the dialog opens, also
\* on the product it was closed on.
FilledFrom(row) == FormOf(row)

\* openCreate and openEdit; the dialog covers the list.
OpenProduct(of, row) ==
    /\ ~productDialog.open
    /\ productDialog' = [open |-> TRUE, of |-> of, row |-> row]
    /\ productForm' = FilledFrom(row) /\ changedFields' = {}
    /\ UNCHANGED <<goods, goodsSeen, goodsDue, productImage, productCalls, goodsWrites>>

OpenCreateProduct == OpenProduct(0, Unused)
OpenEditProduct(g) == goodsSeen[g].state = "listed" /\ OpenProduct(g, goodsSeen[g])

\* By Escape also with a save under way; editingProduct stays.
CloseProduct ==
    /\ productDialog.open /\ productDialog' = [productDialog EXCEPT !.open = FALSE]
    /\ UNCHANGED <<goods, goodsSeen, goodsDue, productForm, changedFields, productImage,
                   productCalls, goodsWrites>>

\* The status is offered for a product there is, the stock for a physical one (of
\* a new product the type is settled when it is created).
ChangeField ==
    /\ productDialog.open /\ ~SavePending /\ GoodsCounted
    /\ \/ /\ \E n \in GoodNames : productForm' = [productForm EXCEPT !.name = n]
          /\ changedFields' = changedFields \cup {"name"}
       \/ /\ productDialog.of \in Physical \cup {0}
          /\ \E n \in {Blank, MaxStock} : productForm' = [productForm EXCEPT !.stock = n]
          /\ changedFields' = changedFields \cup {"stock"}
       \/ /\ productDialog.of # 0
          /\ \E s \in GoodStatuses : productForm' = [productForm EXCEPT !.status = s]
          /\ changedFields' = changedFields \cup {"status"}
    /\ productForm' # productForm
    /\ UNCHANGED <<goods, goodsSeen, goodsDue, productDialog, productImage, productCalls>>

\* handleImageSelect: one at a time, and the save does not wait for it.
ChooseProductImage ==
    /\ productDialog.open /\ ~SavePending /\ productImage = NoImage /\ GoodsCounted
    /\ productImage' = productDialog.of
    /\ UNCHANGED <<goods, goodsSeen, goodsDue, productDialog, productForm, changedFields, productCalls>>

\* setImageUrl, into whatever the form holds by now; or the upload fails.
ImageStored ==
    /\ productImage # NoImage /\ productImage' = NoImage
    /\ productForm' \in {productForm, [productForm EXCEPT !.image = productImage]}
    /\ UNCHANGED <<goods, goodsSeen, goodsDue, productDialog, changedFields, productCalls, goodsWrites>>

Call(kind, of, input) ==
    /\ productCalls[kind].stage = "idle" /\ GoodsCounted
    /\ productCalls' = [productCalls EXCEPT ![kind] = [stage |-> "sent", of |-> of, input |-> input]]
    /\ UNCHANGED <<goods, goodsSeen, goodsDue, productDialog, productForm, changedFields, productImage>>

SaveProduct ==
    /\ productDialog.open /\ ~SavePending /\ productForm.name # ""
    /\ Call(IF productDialog.of = 0 THEN "create" ELSE "update", productDialog.of, productForm)

PressPublish(g) ==
    /\ ~productDialog.open /\ goodsSeen[g].state = "listed" /\ goodsSeen[g].status # "published"
    /\ Call("publish", g, EmptyForm)

PressDelete(g) ==
    /\ ~productDialog.open /\ goodsSeen[g].state = "listed"
    /\ Call("remove", g, EmptyForm)

\* The list is read again, and a save closes the dialog, whosever it is.
CallDone(kind) ==
    /\ productCalls[kind].stage = "done"
    /\ productCalls' = [productCalls EXCEPT ![kind] = NoCall] /\ goodsDue' = TRUE
    /\ productDialog' = CASE kind = "create" -> [productDialog EXCEPT !.open = FALSE]
                          [] kind = "update" -> [open |-> FALSE, of |-> 0, row |-> Unused]
                          [] OTHER -> productDialog
    /\ UNCHANGED <<goods, goodsSeen, productForm, changedFields, productImage, goodsWrites>>

\* Refused (a section gate, an ordered product that cannot be deleted), or the
\* answer is lost: the list is not read again.
CallFails(kind) ==
    /\ productCalls[kind].stage # "idle"
    /\ productCalls' = [productCalls EXCEPT ![kind] = NoCall]
    /\ UNCHANGED <<goods, goodsSeen, goodsDue, productDialog, productForm, changedFields,
                   productImage, goodsWrites>>

\* Every page of the list, one after the other.
GoodsArrive ==
    /\ goodsDue /\ goodsDue' = FALSE /\ goodsSeen' = goods
    /\ UNCHANGED <<goods, productDialog, productForm, changedFields, productImage, productCalls, goodsWrites>>

-----------------------------------------------------------------------------
(* The server *)

CallServed(kind) == productCalls[kind].stage = "sent"
             /\ productCalls' = [productCalls EXCEPT ![kind].stage = "done"]
pageStays == UNCHANGED <<goodsSeen, goodsDue, productDialog, productForm, changedFields,
                         productImage, goodsWrites>>

\* An emptied stock is sent as 0, and so is that of a product without one.
StockSent(g, input) == IF g \in Physical /\ input.stock # Blank THEN input.stock ELSE 0

\* AdminCreateProduct: a draft.
CreateProduct ==
    /\ CallServed("create")
    /\ \E g \in Goods :
           /\ goods[g].state = "unused"
           /\ goods' = [goods EXCEPT ![g] = LET input == productCalls["create"].input IN
                  [state |-> "listed", name |-> input.name, stock |-> StockSent(g, input),
                   status |-> "draft", image |-> input.image]]
    /\ pageStays

\* UpdateProduct: every column as the form has it, the image only if it has one.
\* Of a product just deleted it updates no row and reports no error.
UpdateProduct ==
    LET call  == productCalls["update"]
        g     == call.of
        image == IF call.input.image = NoImage THEN goods[g].image ELSE call.input.image
    IN  /\ CallServed("update")
        /\ goods' = IF goods[g].state # "listed" THEN goods
                    ELSE [goods EXCEPT ![g] = [state |-> "listed", name |-> call.input.name,
                             stock |-> StockSent(g, call.input), status |-> call.input.status,
                             image |-> image]]
        /\ pageStays

\* PublishProduct: WHERE status = 'draft', and success either way.
PublishProduct ==
    LET g == productCalls["publish"].of
    IN  /\ CallServed("publish")
        /\ goods' = IF goods[g].state = "listed" /\ goods[g].status = "draft"
                    THEN [goods EXCEPT ![g].status = "published"] ELSE goods
        /\ pageStays

\* DeleteProduct: a physical product's row goes, another is archived.
DeleteProduct ==
    LET g == productCalls["remove"].of
    IN  /\ CallServed("remove") /\ goods[g].state = "listed"
        /\ goods' = IF g \in Physical THEN [goods EXCEPT ![g] = [Unused EXCEPT !.state = "deleted"]]
                    ELSE [goods EXCEPT ![g].status = "archived"]
        /\ pageStays

\* A checkout takes a unit.
Sale(g) ==
    /\ GoodsCounted /\ g \in Physical /\ goods[g].status = "published" /\ goods[g].stock > 0
    /\ goods' = [goods EXCEPT ![g].stock = @ - 1]
    /\ UNCHANGED <<goodsSeen, goodsDue, productDialog, productForm, changedFields, productImage,
                   productCalls>>

-----------------------------------------------------------------------------

ProductNext ==
    \/ OpenCreateProduct \/ CloseProduct \/ ChangeField \/ ChooseProductImage \/ ImageStored \/ SaveProduct
    \/ \E g \in Goods : OpenEditProduct(g) \/ PressPublish(g) \/ PressDelete(g) \/ Sale(g)
    \/ \E kind \in CallKinds : CallDone(kind) \/ CallFails(kind)
    \/ GoodsArrive \/ CreateProduct \/ UpdateProduct \/ PublishProduct \/ DeleteProduct

ProductSpec == ProductInit /\ [][ProductNext]_productVars

\* What an administrator typed and gave up, closing the dialog, is never part of
\* a later save: but for its image, an open form differs from the product it was
\* opened on only where it was changed since, and a save sends the form whole.
AbandonedEditsStayOut ==
    productDialog.open =>
        \A f \in {"name", "stock", "status"} \ changedFields :
            productForm[f] = FormOf(productDialog.row)[f]

===============================================================================

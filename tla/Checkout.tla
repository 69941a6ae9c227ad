------------------------------ MODULE Checkout ------------------------------
(***************************************************************************)
(* Turning carts into orders.  POST /orders runs one transaction,          *)
(* orderRepository.createAtomic, which locks the resident's row, then the  *)
(* row of the chosen delivery slot, and only then reads: whether the       *)
(* request was answered before, and all that calculateCheckout validates.  *)
(* It goes on to take each product from its row, and ends by writing the   *)
(* order and deleting the cart.  Cart changes, catalog edits and closing   *)
(* orders take none of the first two locks and happen in between.          *)
(*                                                                         *)
(*   Calls   concurrent executions of orderService.create.  A resident     *)
(*           whose request got no answer sends it again, so several calls  *)
(*           may bear one request id.                                      *)
(*                                                                         *)
(* The rows a call has updated stay locked until it ends, and a rollback   *)
(* restores them: `product' is what a current read sees, Committed what a  *)
(* snapshot sees.  Addresses, the store and its areas, opening hours, and  *)
(* one slot on other dates validate like the conditions kept here, and     *)
(* are left out.  The order in which a cart's products are taken is any.   *)
(***************************************************************************)
EXTENDS Integers, FiniteSets, Functions

CONSTANTS Residents, Products, Requests, Calls,
          Prices,
          InitialStock,  \* of every product
          InitialPrice,
          MaxCapacity,   \* bound: of the delivery slot
          MaxQuantity,   \* bound: of a product in a cart
          MaxCarts,      \* bound: carts a resident starts
          MaxEdits       \* bound: edits in the back office

ASSUME BoundsAreNumbers ==
  /\ InitialStock \in Nat /\ MaxCapacity \in Nat /\ InitialPrice \in Prices
  /\ MaxQuantity \in Nat \ {0} /\ MaxCarts \in Nat \ {0} /\ MaxEdits \in Nat

ASSUME SetsAreFinite ==
  IsFiniteSet(Residents) /\ IsFiniteSet(Requests) /\ IsFiniteSet(Calls)

VARIABLES
  product,   \* rows of products: stock, price, is it ON_SALE?
  supplied,  \* how much of each product the shop ever had
  capacity,  \* maxOrders of the delivery slot (0: DISABLED)
  cart,      \* rows of carts with their items
  orders,    \* rows of orders by (userId, requestId)
  edits,     \* how many edits the back office has made
  at,        \* where each call is in createAtomic
  call       \* what each call was asked, has read, and has taken

vars == <<product, supplied, capacity, cart, orders, edits, at, call>>
calls == <<at, call>>

Labels == {"idle", "lock", "read", "deduct", "created", "replayed", "refused"}

\* Some products, and how many of each.
ItemSets == UNION {[S -> 1..MaxQuantity] : S \in SUBSET Products}
NoItems == <<>>

\* What the resident confirmed, of which previewVersion is the digest: how many of
\* which product at which price, and whether delivery is scheduled.
Previews == [items : UNION {[S -> (1..MaxQuantity) \X Prices] : S \in SUBSET Products},
             scheduled : BOOLEAN]
NoPreview == [items |-> NoItems, scheduled |-> FALSE]

NoOrder == [preview |-> NoPreview, cart |-> 0, live |-> FALSE]

NoCall == [user |-> "none", request |-> "none", preview |-> NoPreview,
           plan |-> NoPreview, cart |-> 0, taken |-> {}]

Init ==
  /\ product = [p \in Products |->
                  [stock |-> InitialStock, price |-> InitialPrice, onSale |-> TRUE]]
  /\ supplied = [p \in Products |-> InitialStock]
  /\ capacity = MaxCapacity
  /\ cart = [u \in Residents |-> [id |-> 0, items |-> NoItems]]
  /\ orders = [k \in Residents \X Requests |-> NoOrder]
  /\ edits = 0
  /\ at = [c \in Calls |-> "idle"]
  /\ call = [c \in Calls |-> NoCall]

Goto(c, label) == at' = [at EXCEPT ![c] = label]

Working(c) == at[c] \in {"read", "deduct"}

Quantity(plan, p) == plan.items[p][1]

\* The row locks on products: a call holds those it has updated.
Holds(c, p) == p \in call[c].taken
Free(p) == ~\E c \in Calls : Holds(c, p)

Committed(p) ==
  product[p].stock + (IF Free(p) THEN 0
                      ELSE Quantity(call[CHOOSE c \in Calls : Holds(c, p)].plan, p))

-----------------------------------------------------------------------------
(* The cart.  What a request may put in was checked against a product read     *)
(* before the write, so the write itself is bounded by no current stock.       *)

PutInCart(u, p, quantity) ==
  LET items == cart[u].items IN
  /\ items = NoItems => cart[u].id < MaxCarts
  /\ cart' = [cart EXCEPT ![u] =
       [id    |-> IF items = NoItems THEN cart[u].id + 1 ELSE cart[u].id,
        items |-> [q \in DOMAIN items \cup {p} |-> IF q = p THEN quantity ELSE items[q]]]]
  /\ UNCHANGED <<product, supplied, capacity, orders, edits, calls>>

\* Without its last item the cart goes, too.
RemoveFromCart(u, p) ==
  /\ p \in DOMAIN cart[u].items
  /\ cart' = [cart EXCEPT ![u].items = Restrict(@, DOMAIN @ \ {p})]
  /\ UNCHANGED <<product, supplied, capacity, orders, edits, calls>>

ClearCart(u) ==
  /\ cart[u].items # NoItems
  /\ cart' = [cart EXCEPT ![u].items = NoItems]
  /\ UNCHANGED <<product, supplied, capacity, orders, edits, calls>>

-----------------------------------------------------------------------------
(* orderService.create *)

\* orderService.preview, as of now.
Preview(u, scheduled) ==
  [items |-> [p \in DOMAIN cart[u].items |-> <<cart[u].items[p], product[p].price>>],
   scheduled |-> scheduled]

\* A resident submits what was previewed, or repeats a request that is being or was
\* answered.
Submittable(u, r) ==
  {Preview(u, s) : s \in {s \in BOOLEAN : cart[u].items # NoItems}}
    \cup ({orders[<<u, r>>].preview} \ {NoPreview})
    \cup {call[d].preview : d \in {d \in Calls : /\ at[d] # "idle" /\ call[d].user = u
                                                 /\ call[d].request = r}}

Submit(c, u, r) ==
  /\ at[c] = "idle"
  /\ \E preview \in Submittable(u, r) :
       call' = [call EXCEPT ![c] = [NoCall EXCEPT !.user = u, !.request = r,
                                                 !.preview = preview]]
  /\ Goto(c, "lock")
  /\ UNCHANGED <<product, supplied, capacity, cart, orders, edits>>

\* The definitions named Mutant... are wrong on purpose: each is a bug that the
\* property it is paired with in PROJECT.json has to notice.
MutantUserFree(c) == TRUE

\* lockUser and lockDeliverySlot, taken in this order by every call, so that waiting
\* for both at once is no different.
UserFree(c) == ~\E d \in Calls : Working(d) /\ call[d].user = call[c].user

MutantSlotFree == TRUE

SlotFree == ~\E d \in Calls : Working(d) /\ call[d].preview.scheduled

Lock(c) ==
  /\ at[c] = "lock"
  /\ UserFree(c)
  /\ call[c].preview.scheduled => SlotFree
  /\ Goto(c, "read")
  /\ UNCHANGED <<product, supplied, capacity, cart, orders, edits, call>>

Existing(c) == orders[<<call[c].user, call[c].request>>]

Booked == {k \in Residents \X Requests : orders[k].live /\ orders[k].preview.scheduled}

\* What calculateCheckout validates, on what the transaction's snapshot shows.
Sellable(u) ==
  /\ cart[u].items # NoItems
  /\ \A p \in DOMAIN cart[u].items :
       product[p].onSale /\ cart[u].items[p] <= Committed(p)

HasCapacity == Cardinality(Booked) < capacity

\* The request's fingerprint.
SameRequest(c) == Existing(c).preview = call[c].preview

MutantConfirmed(c, plan) == TRUE

\* The plan's version and total are those that the resident confirmed.
Confirmed(c, plan) == plan = call[c].preview

Read(c) ==
  LET u == call[c].user
      scheduled == call[c].preview.scheduled
      plan == Preview(u, scheduled)
      accepted == /\ Sellable(u)
                  /\ scheduled => HasCapacity
                  /\ Confirmed(c, plan)
  IN
  /\ at[c] = "read"
  /\ IF Existing(c) # NoOrder
     THEN Goto(c, IF SameRequest(c) THEN "replayed" ELSE "refused") /\ UNCHANGED call
     ELSE IF accepted
     THEN /\ Goto(c, "deduct")
          /\ call' = [call EXCEPT ![c].plan = plan, ![c].cart = cart[u].id]
     ELSE Goto(c, "refused") /\ UNCHANGED call
  /\ UNCHANGED <<product, supplied, capacity, cart, orders, edits>>

MutantRestored(c) == product

\* The transaction fails: whatever it has taken goes back.
Restored(c) ==
  [p \in Products |->
     IF Holds(c, p)
     THEN [product[p] EXCEPT !.stock = @ + Quantity(call[c].plan, p)]
     ELSE product[p]]

Fail(c) ==
  /\ product' = Restored(c)
  /\ Goto(c, "refused")
  /\ call' = [call EXCEPT ![c].taken = {}]
  /\ UNCHANGED <<supplied, capacity, cart, orders, edits>>

\* updateMany with its conditions, which are evaluated on the current row once its
\* lock is had.
MutantDeductible(c, p) == product[p].onSale

MutantStillEnough(c, p) == product[p].stock >= Quantity(call[c].plan, p)

Deductible(c, p) ==
  product[p].onSale /\ product[p].stock >= Quantity(call[c].plan, p)

Deduct(c, p) ==
  /\ at[c] = "deduct"
  /\ p \in DOMAIN call[c].plan.items \ call[c].taken
  /\ Free(p)
  /\ IF Deductible(c, p)
     THEN /\ product' = [product EXCEPT ![p].stock = @ - Quantity(call[c].plan, p)]
          /\ call' = [call EXCEPT ![c].taken = @ \cup {p}]
          /\ UNCHANGED <<supplied, capacity, cart, orders, edits, at>>
     ELSE Fail(c)

\* The cart that was read is deleted with whatever was added to it since.  If it is
\* gone, the client library may report that or not, depending on its version.
CartExists(c) ==
  LET u == call[c].user IN cart[u].items # NoItems /\ cart[u].id = call[c].cart

MutantWithoutCart(u) == cart

WithoutCart(u) == [cart EXCEPT ![u].items = NoItems]

Commit(c) ==
  LET u == call[c].user IN
  /\ at[c] = "deduct"
  /\ call[c].taken = DOMAIN call[c].plan.items
  /\ \/ /\ Existing(c) = NoOrder
        /\ orders' = [orders EXCEPT ![<<u, call[c].request>>] =
                        [preview |-> call[c].plan, cart |-> call[c].cart,
                         live |-> TRUE]]
        /\ cart' = IF CartExists(c) THEN WithoutCart(u) ELSE cart
        /\ Goto(c, "created")
        /\ call' = [call EXCEPT ![c].taken = {}]
        /\ UNCHANGED <<product, supplied, capacity, edits>>
     \/ /\ ~CartExists(c) \/ Existing(c) # NoOrder
        /\ Fail(c)

\* The process dies, a lock is waited for too long, or the database breaks a
\* deadlock of calls that wait for each other's products.
Abort(c) ==
  /\ at[c] \in {"lock", "read", "deduct"}
  /\ product' = Restored(c)
  /\ Goto(c, "idle")
  /\ call' = [call EXCEPT ![c] = NoCall]
  /\ UNCHANGED <<supplied, capacity, cart, orders, edits>>

\* The answer is sent, and may be lost.
Answer(c) ==
  /\ at[c] \in {"created", "replayed", "refused"}
  /\ Goto(c, "idle")
  /\ call' = [call EXCEPT ![c] = NoCall]
  /\ UNCHANGED <<product, supplied, capacity, cart, orders, edits>>

-----------------------------------------------------------------------------
(* What else changes the rows. *)

\* finalizeClose, and a successful refund: the order ends and its stock comes back.
EndOrder(k) ==
  /\ orders[k].live
  /\ \A p \in DOMAIN orders[k].preview.items : Free(p)
  /\ orders' = [orders EXCEPT ![k].live = FALSE]
  /\ product' = [p \in Products |->
       IF p \in DOMAIN orders[k].preview.items
       THEN [product[p] EXCEPT !.stock = @ + Quantity(orders[k].preview, p)]
       ELSE product[p]]
  /\ UNCHANGED <<supplied, capacity, cart, edits, calls>>

Edit == edits < MaxEdits /\ edits' = edits + 1

\* catalogRepository.updateProduct writes the form's stock whatever the row's was: the
\* shop says it has that many left.  Only products with stock are put on sale.
EditProduct(p, stock, price, onSale) ==
  /\ Edit
  /\ Free(p)
  /\ onSale => stock > 0
  /\ product' = [product EXCEPT ![p] = [stock |-> stock, price |-> price,
                                        onSale |-> onSale]]
  /\ supplied' = [supplied EXCEPT ![p] = @ + stock - product[p].stock]
  /\ UNCHANGED <<capacity, cart, orders, calls>>

\* deliveryRepository.updateSlot and updateSlotStatus.
EditSlot(n) ==
  /\ Edit
  /\ ~\E d \in Calls : Working(d) /\ call[d].preview.scheduled
  /\ capacity' = n
  /\ UNCHANGED <<product, supplied, cart, orders, calls>>

-----------------------------------------------------------------------------
Create(c) == \/ Lock(c) \/ Read(c) \/ Commit(c) \/ Answer(c)
             \/ \E p \in Products : Deduct(c, p)

Next ==
  \/ \E u \in Residents, p \in Products :
       \/ \E n \in 1..MaxQuantity : PutInCart(u, p, n)
       \/ RemoveFromCart(u, p)
  \/ \E u \in Residents : ClearCart(u)
  \/ \E c \in Calls : \/ Create(c) \/ Abort(c)
                      \/ \E u \in Residents, r \in Requests : Submit(c, u, r)
  \/ \E k \in Residents \X Requests : EndOrder(k)
  \/ \E p \in Products, n \in 0..InitialStock, price \in Prices, onSale \in BOOLEAN :
       EditProduct(p, n, price, onSale)
  \/ \E n \in 0..MaxCapacity : EditSlot(n)

Spec == Init /\ [][Next]_vars

-----------------------------------------------------------------------------
TypeOK ==
  /\ product \in [Products -> [stock : Nat, price : Prices, onSale : BOOLEAN]]
  /\ supplied \in [Products -> Nat]
  /\ capacity \in 0..MaxCapacity
  /\ cart \in [Residents -> [id : 0..MaxCarts, items : ItemSets]]
  /\ orders \in [Residents \X Requests ->
                   [preview : Previews, cart : 0..MaxCarts, live : BOOLEAN]]
  /\ edits \in 0..MaxEdits
  /\ at \in [Calls -> Labels]
  /\ call \in [Calls -> [user : Residents, request : Requests, preview : Previews,
                         plan : Previews, cart : 0..MaxCarts, taken : SUBSET Products] \cup {NoCall}]

\* How much of a product each live order holds, and each unfinished call has taken.
Ordered(p) ==
  [k \in Residents \X Requests |->
     IF orders[k].live /\ p \in DOMAIN orders[k].preview.items
     THEN Quantity(orders[k].preview, p) ELSE 0]
Taken(p) == [c \in Calls |-> IF Holds(c, p) THEN Quantity(call[c].plan, p) ELSE 0]

\* Nothing is sold twice, and nothing is lost: what is on the shelf, what live orders
\* hold and what unfinished calls have taken is what the shop ever had of a product.
StockConserved ==
  \A p \in Products :
    supplied[p] = product[p].stock + SumFunction(Ordered(p)) + SumFunction(Taken(p))

\* One cart becomes one order at most, under whatever request ids it is submitted.
OneOrderPerCart ==
  \A u \in Residents, q, r \in Requests :
    orders[<<u, q>>] # NoOrder /\ orders[<<u, q>>].cart = orders[<<u, r>>].cart => q = r

\* A call that reports an order reports one of exactly the contents, the prices and
\* the delivery that this call's resident confirmed.
ConfirmedIsOrdered ==
  \A c \in Calls : at[c] \in {"created", "replayed"} =>
    Existing(c).preview = call[c].preview

\* No order gets the slot above its capacity.
CapacityKept ==
  [][Cardinality(Booked') > Cardinality(Booked) => Cardinality(Booked') <= capacity']_vars

\* Whatever the back office takes off sale in time is not sold: a new order holds
\* products only that are on sale when it is committed.
SoldOnlyOnSale ==
  [][\A k \in Residents \X Requests : orders[k] = NoOrder /\ orders'[k] # NoOrder =>
       \A p \in DOMAIN orders'[k].preview.items : product'[p].onSale]_vars

\* A request sent again while the first is being worked on, or later, gets the order
\* that the first one made; it is not refused for what the first one did, like
\* emptying the cart.
RetriesReplay ==
  [][\A c \in Calls : Working(c) /\ at'[c] = "refused" /\ Existing(c) # NoOrder =>
       ~SameRequest(c)]_vars

-----------------------------------------------------------------------------
(* What the locks protect, and each step relies on: the inductive invariant.  *)

\* A call is idle, or it is one of a resident and a request.
CallsAreOfResidents ==
  \A c \in Calls : IF at[c] = "idle" THEN call[c] = NoCall
                   ELSE call[c].user \in Residents /\ call[c].request \in Requests

\* lockUser and lockDeliverySlot.
LocksExclude ==
  \A c, d \in Calls : Working(c) /\ Working(d) /\ c # d =>
    /\ call[c].user # call[d].user
    /\ ~(call[c].preview.scheduled /\ call[d].preview.scheduled)

\* The rows a call has updated are of its plan, its own, and still on sale.
RowsAreHeld ==
  \A c \in Calls, p \in Products : Holds(c, p) =>
    /\ at[c] = "deduct" /\ p \in DOMAIN call[c].plan.items
    /\ \A d \in Calls : Holds(d, p) => d = c
    /\ product[p].onSale

IsOrdered(k) == orders[k] # NoOrder

\* An order is of a cart that was started, and that is gone.
CartsAreSpent ==
  \A u \in Residents :
    /\ cart[u].items # NoItems => cart[u].id > 0
    /\ \A r \in Requests : IsOrdered(<<u, r>>) =>
         /\ orders[<<u, r>>].cart \in 1..cart[u].id
         /\ orders[<<u, r>>].cart = cart[u].id => cart[u].items = NoItems

\* What a call has read stays true of the rows until it ends: the answer to its
\* request, the room in its slot, and that nothing was ordered from its cart.
ReadsHold ==
  \A c \in Calls : at[c] = "deduct" =>
    /\ call[c].plan = call[c].preview
    /\ Existing(c) = NoOrder
    /\ call[c].preview.scheduled => HasCapacity
    /\ call[c].cart \in 1..cart[call[c].user].id
    /\ \A r \in Requests : orders[<<call[c].user, r>>].cart # call[c].cart

\* An answer is about an order that was made.
AnswersHold ==
  \A c \in Calls : at[c] \in {"created", "replayed"} => Existing(c) # NoOrder

IInv == /\ TypeOK /\ StockConserved /\ OneOrderPerCart /\ ConfirmedIsOrdered
        /\ CallsAreOfResidents /\ LocksExclude /\ RowsAreHeld /\ CartsAreSpent
        /\ ReadsHold /\ AnswersHold
=============================================================================

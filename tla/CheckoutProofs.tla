--------------------------- MODULE CheckoutProofs ---------------------------
(***************************************************************************)
(* Proofs about Checkout, for any residents, products, requests and calls. *)
(* IInv says what a transaction's locks protect: what it has read under    *)
(* them stays true until it ends.  Conservation of stock is an equation of *)
(* sums over all orders and calls, of which a step changes one term or two *)
(* (SumLemmas).                                                            *)
(***************************************************************************)
EXTENDS Checkout, SumLemmas, TLAPS

CallRecords ==
  [user : Residents, request : Requests, preview : Previews, plan : Previews,
   cart : 0..MaxCarts, taken : SUBSET Products]

\* The empty cart and the empty plan are a cart and a plan.
LEMMA NothingIsAFunction ==
  /\ NoItems \in ItemSets
  /\ NoPreview \in Previews
  /\ DOMAIN NoItems = {}
<1>1. NoItems = [x \in {} |-> x]
  BY DEF NoItems
<1>2. DOMAIN NoItems = {}
  BY DEF NoItems
<1>3. \A S : NoItems \in [{} -> S]
  BY <1>1
<1>4. {} \in SUBSET Products
  OBVIOUS
<1>5. NoItems \in ItemSets
  BY <1>3, <1>4 DEF ItemSets
<1>6. NoItems \in UNION {[S -> (1..MaxQuantity) \X Prices] : S \in SUBSET Products}
  BY <1>3, <1>4
<1> QED
  BY <1>2, <1>5, <1>6 DEF NoPreview, Previews

\* A cart has some products, each in some quantity.
LEMMA ItemSetsAre ==
  ASSUME NEW f
  PROVE  f \in ItemSets <=> DOMAIN f \in SUBSET Products /\ f \in [DOMAIN f -> 1..MaxQuantity]
<1>1. ASSUME f \in ItemSets
      PROVE  DOMAIN f \in SUBSET Products /\ f \in [DOMAIN f -> 1..MaxQuantity]
  BY <1>1 DEF ItemSets
<1>2. ASSUME DOMAIN f \in SUBSET Products, f \in [DOMAIN f -> 1..MaxQuantity]
      PROVE  f \in ItemSets
  BY <1>2 DEF ItemSets
<1> QED BY <1>1, <1>2

\* A plan orders some products, each in some quantity.
LEMMA PreviewsAre ==
  ASSUME NEW v \in Previews
  PROVE  /\ DOMAIN v.items \in SUBSET Products /\ v.scheduled \in BOOLEAN
         /\ v.items \in [DOMAIN v.items -> (1..MaxQuantity) \X Prices]
         /\ \A p \in DOMAIN v.items : Quantity(v, p) \in 1..MaxQuantity
<1>1. v.items \in UNION {[S -> (1..MaxQuantity) \X Prices] : S \in SUBSET Products}
  BY DEF Previews
<1>2. PICK S \in SUBSET Products : v.items \in [S -> (1..MaxQuantity) \X Prices]
  BY <1>1
<1>3. \A p \in S : v.items[p] \in (1..MaxQuantity) \X Prices
  BY <1>2
<1> QED
  BY <1>2, <1>3 DEF Previews, Quantity

\* calculateCheckout makes a plan of a cart.
LEMMA PreviewIsOne ==
  ASSUME TypeOK, NEW u \in Residents, NEW s \in BOOLEAN
  PROVE  Preview(u, s) \in Previews
<1> DEFINE items == cart[u].items
           plan == [p \in DOMAIN items |-> <<items[p], product[p].price>>]
<1>1. items \in ItemSets
  BY DEF TypeOK
<1>2. DOMAIN items \in SUBSET Products /\ items \in [DOMAIN items -> 1..MaxQuantity]
  BY <1>1, ItemSetsAre
<1>3. \A p \in DOMAIN items : product[p].price \in Prices
  BY <1>2 DEF TypeOK
<1>4. plan \in [DOMAIN items -> (1..MaxQuantity) \X Prices]
  BY <1>2, <1>3
<1>5. plan \in UNION {[S -> (1..MaxQuantity) \X Prices] : S \in SUBSET Products}
  <2> HIDE DEF plan
  <2> QED BY <1>2, <1>4
<1>6. Preview(u, s) = [items |-> plan, scheduled |-> s]
  BY DEF Preview
<1> QED
  <2> HIDE DEF plan
  <2> QED BY <1>5, <1>6 DEF Previews

\* Idle or not, a call is a record of what it was asked, has read and has taken.
LEMMA CallFields ==
  ASSUME TypeOK, NEW c \in Calls
  PROVE  /\ call[c].preview \in Previews /\ call[c].plan \in Previews
         /\ call[c].cart \in 0..MaxCarts /\ call[c].taken \in SUBSET Products
         /\ call[c] = [user |-> call[c].user, request |-> call[c].request,
                       preview |-> call[c].preview, plan |-> call[c].plan,
                       cart |-> call[c].cart, taken |-> call[c].taken]
         /\ call[c].user \in Residents /\ call[c].request \in Requests
              => call[c] \in CallRecords
<1>1. call[c] \in CallRecords \/ call[c] = NoCall
  BY DEF TypeOK, CallRecords
<1>2. CASE call[c] \in CallRecords
  BY <1>2 DEF CallRecords
<1>3. CASE call[c] = NoCall
  BY <1>3, NothingIsAFunction, BoundsAreNumbers DEF CallRecords, NoCall
<1> QED
  BY <1>1, <1>2, <1>3

\* An empty shop: nothing in carts, nothing ordered, nothing under way.
LEMMA InitIInv == Init => IInv
<1> SUFFICES ASSUME Init PROVE IInv
  OBVIOUS
<1> USE NothingIsAFunction, BoundsAreNumbers DEF Init
<1>1. TypeOK
  BY DEF TypeOK, Labels, NoOrder
<1>2. \A c \in Calls, p \in Products : ~Holds(c, p)
  BY DEF Holds, NoCall
<1>3. StockConserved
  <2> SUFFICES ASSUME NEW p \in Products
               PROVE  supplied[p] = product[p].stock + SumFunction(Ordered(p)) + SumFunction(Taken(p))
    BY DEF StockConserved
  <2>1. IsFiniteSet(Residents \X Requests) /\ IsFiniteSet(Calls)
    BY SetsAreFinite, FS_Product
  <2>2. Ordered(p) = [k \in Residents \X Requests |-> 0]
    BY DEF Ordered, NoOrder
  <2>3. Taken(p) = [c \in Calls |-> 0]
    BY <1>2 DEF Taken
  <2>4. SumFunction(Ordered(p)) = 0 /\ SumFunction(Taken(p)) = 0
    BY <2>1, <2>2, <2>3, SumOfZeros
  <2> QED
    BY <2>4
<1>4. OneOrderPerCart /\ ConfirmedIsOrdered
  BY DEF OneOrderPerCart, ConfirmedIsOrdered
<1>5. CallsAreOfResidents /\ LocksExclude
  BY DEF CallsAreOfResidents, LocksExclude, Working
<1>6. RowsAreHeld /\ CartsAreSpent
  BY <1>2 DEF RowsAreHeld, CartsAreSpent, IsOrdered
<1>7. ReadsHold /\ AnswersHold
  BY DEF ReadsHold, AnswersHold
<1> QED
  BY <1>1, <1>3, <1>4, <1>5, <1>6, <1>7 DEF IInv

-----------------------------------------------------------------------------
(* Steps on carts. *)

CartMoves(v) ==
  \/ cart'[v] = cart[v]
  \/ cart'[v].id = cart[v].id + 1 /\ cart[v].items = NoItems
  \/ cart'[v].id = cart[v].id /\ cart[v].items # NoItems

\* A step that leaves alone everything but the carts keeps what is not about them.
LEMMA CartStep ==
  ASSUME IInv, UNCHANGED <<product, supplied, capacity, orders, edits, calls>>,
         cart' \in [Residents -> [id : 0..MaxCarts, items : ItemSets]],
         \A v \in Residents : CartMoves(v)
  PROVE  IInv'
<1> USE DEF calls, CartMoves
<1>1. TypeOK'
  BY DEF IInv, TypeOK
<1>2. StockConserved'
  BY DEF IInv, StockConserved, Ordered, Taken, Holds, Quantity
<1>3. OneOrderPerCart' /\ ConfirmedIsOrdered' /\ AnswersHold'
  BY DEF IInv, OneOrderPerCart, ConfirmedIsOrdered, AnswersHold, Existing
<1>4. CallsAreOfResidents' /\ LocksExclude' /\ RowsAreHeld'
  BY DEF IInv, CallsAreOfResidents, LocksExclude, Working, RowsAreHeld, Holds
<1>5. CartsAreSpent'
  BY DEF IInv, CartsAreSpent, IsOrdered, TypeOK
<1>6. ReadsHold'
  <2> SUFFICES ASSUME NEW c \in Calls, at[c] = "deduct"
               PROVE  call[c].cart \in 1..cart'[call[c].user].id
    BY DEF IInv, ReadsHold, HasCapacity, Booked, Existing
  <2>1. call[c].user \in Residents /\ call[c].cart \in 1..cart[call[c].user].id
    BY DEF IInv, ReadsHold, CallsAreOfResidents
  <2>2. cart[call[c].user].id \in Nat /\ cart'[call[c].user].id \in Nat
    BY <2>1 DEF IInv, TypeOK
  <2> QED BY <2>1, <2>2
<1> QED
  BY <1>1, <1>2, <1>3, <1>4, <1>5, <1>6 DEF IInv

\* A cart that was spent gets a new id before it has items again.
LEMMA PutInCartIInv ==
  ASSUME IInv, NEW u \in Residents, NEW p \in Products, NEW n \in 1..MaxQuantity,
         PutInCart(u, p, n)
  PROVE  IInv'
<1> DEFINE items == cart[u].items
           id == IF items = NoItems THEN cart[u].id + 1 ELSE cart[u].id
           filled == [q \in DOMAIN items \cup {p} |-> IF q = p THEN n ELSE items[q]]
<1>1. cart[u] \in [id : 0..MaxCarts, items : ItemSets]
  BY DEF IInv, TypeOK
<1>2. filled \in ItemSets
  <2>1. DOMAIN items \in SUBSET Products /\ items \in [DOMAIN items -> 1..MaxQuantity]
    BY <1>1, ItemSetsAre
  <2>2. DOMAIN filled \in SUBSET Products /\ filled \in [DOMAIN filled -> 1..MaxQuantity]
    BY <2>1
  <2> HIDE DEF filled
  <2> QED BY <2>2, ItemSetsAre
<1>3. id \in 0..MaxCarts
  BY <1>1, BoundsAreNumbers DEF PutInCart
<1>4. cart' = [cart EXCEPT ![u] = [id |-> id, items |-> filled]]
  BY DEF PutInCart
<1> HIDE DEF filled
<1>5. cart' \in [Residents -> [id : 0..MaxCarts, items : ItemSets]]
  BY <1>2, <1>3, <1>4 DEF IInv, TypeOK
<1>6. \A v \in Residents : CartMoves(v)
  BY <1>4 DEF IInv, TypeOK, CartMoves
<1>7. UNCHANGED <<product, supplied, capacity, orders, edits, calls>>
  BY DEF PutInCart
<1> QED
  BY <1>5, <1>6, <1>7, CartStep

\* What is left of a cart is a cart.
LEMMA RemoveFromCartIInv ==
  ASSUME IInv, NEW u \in Residents, NEW p \in Products, RemoveFromCart(u, p)
  PROVE  IInv'
<1> DEFINE items == cart[u].items
           rest == Restrict(items, DOMAIN items \ {p})
<1>1. cart[u] \in [id : 0..MaxCarts, items : ItemSets] /\ items # NoItems
  BY NothingIsAFunction DEF IInv, TypeOK, RemoveFromCart
<1>2. rest \in ItemSets
  <2>1. DOMAIN items \in SUBSET Products /\ items \in [DOMAIN items -> 1..MaxQuantity]
    BY <1>1, ItemSetsAre
  <2>2. DOMAIN rest \in SUBSET Products /\ rest \in [DOMAIN rest -> 1..MaxQuantity]
    BY <2>1 DEF Restrict
  <2> HIDE DEF rest
  <2> QED BY <2>2, ItemSetsAre
<1>3. cart' = [cart EXCEPT ![u].items = rest]
  BY DEF RemoveFromCart
<1> HIDE DEF rest
<1>4. cart' \in [Residents -> [id : 0..MaxCarts, items : ItemSets]]
  BY <1>2, <1>3 DEF IInv, TypeOK
<1>5. \A v \in Residents : CartMoves(v)
  BY <1>1, <1>3 DEF IInv, TypeOK, CartMoves
<1>6. UNCHANGED <<product, supplied, capacity, orders, edits, calls>>
  BY DEF RemoveFromCart
<1> QED
  BY <1>4, <1>5, <1>6, CartStep

\* Clearing a cart leaves its id, which no order has.
LEMMA ClearCartIInv ==
  ASSUME IInv, NEW u \in Residents, ClearCart(u)
  PROVE  IInv'
<1>1. cart' = [cart EXCEPT ![u].items = NoItems] /\ cart[u].items # NoItems
  BY DEF ClearCart
<1>2. cart' \in [Residents -> [id : 0..MaxCarts, items : ItemSets]]
  BY <1>1, NothingIsAFunction DEF IInv, TypeOK
<1>3. \A v \in Residents : CartMoves(v)
  BY <1>1 DEF IInv, TypeOK, CartMoves
<1>4. UNCHANGED <<product, supplied, capacity, orders, edits, calls>>
  BY DEF ClearCart
<1> QED
  BY <1>2, <1>3, <1>4, CartStep

-----------------------------------------------------------------------------
(* Steps of one call that leave the rows alone. *)

\* Who holds no row before and after a step keeps what is about the rows.
LEMMA CallStep ==
  ASSUME IInv, NEW c \in Calls,
         UNCHANGED <<product, supplied, capacity, cart, orders, edits>>,
         \A d \in Calls : d # c => at'[d] = at[d] /\ call'[d] = call[d],
         call[c].taken = {}, call'[c].taken = {}
  PROVE  /\ StockConserved' /\ OneOrderPerCart' /\ RowsAreHeld' /\ CartsAreSpent'
         /\ \A d \in Calls : d # c =>
              /\ at'[d] = "idle" => call'[d] = NoCall
              /\ at'[d] # "idle" => call'[d].user \in Residents /\ call'[d].request \in Requests
<1>1. \A d \in Calls, p \in Products :
        (Holds(d, p)' <=> Holds(d, p)) /\ (Holds(d, p) => d # c)
  BY DEF Holds
<1>2. StockConserved'
  <2> SUFFICES ASSUME NEW p \in Products
               PROVE  Ordered(p)' = Ordered(p) /\ Taken(p)' = Taken(p)
    BY DEF IInv, StockConserved
  <2>1. Ordered(p)' = Ordered(p)
    BY DEF Ordered, Quantity
  <2>2. \A d \in Calls : (IF Holds(d, p) THEN Quantity(call[d].plan, p) ELSE 0)'
                         = (IF Holds(d, p) THEN Quantity(call[d].plan, p) ELSE 0)
    BY <1>1 DEF Quantity
  <2> QED BY <2>1, <2>2 DEF Taken
<1>3. OneOrderPerCart' /\ CartsAreSpent'
  BY DEF IInv, OneOrderPerCart, CartsAreSpent, IsOrdered
<1>4. RowsAreHeld'
  BY <1>1 DEF IInv, RowsAreHeld
<1> QED
  BY <1>2, <1>3, <1>4 DEF IInv, CallsAreOfResidents

\* A request arrives, new or repeated.
LEMMA SubmitIInv ==
  ASSUME IInv, NEW c \in Calls, NEW u \in Residents, NEW r \in Requests, Submit(c, u, r)
  PROVE  IInv'
<1>1. PICK preview \in Submittable(u, r) :
        call' = [call EXCEPT ![c] = [NoCall EXCEPT !.user = u, !.request = r, !.preview = preview]]
  BY DEF Submit
<1>2. preview \in Previews
  <2>1. \A s \in BOOLEAN : Preview(u, s) \in Previews
    BY PreviewIsOne DEF IInv
  <2>2. orders[<<u, r>>].preview \in Previews
    BY DEF IInv, TypeOK
  <2>3. \A d \in Calls : call[d].preview \in Previews
    BY CallFields DEF IInv
  <2> QED BY <2>1, <2>2, <2>3 DEF Submittable
<1> DEFINE new == [NoCall EXCEPT !.user = u, !.request = r, !.preview = preview]
<1>3. /\ new.user = u /\ new.request = r /\ new.taken = {}
      /\ new \in [user : Residents, request : Requests, preview : Previews,
                  plan : Previews, cart : 0..MaxCarts, taken : SUBSET Products]
  <2>1. 0 \in 0..MaxCarts /\ NoPreview \in Previews /\ {} \in SUBSET Products
    BY NothingIsAFunction, BoundsAreNumbers
  <2>2. new.user = u /\ new.request = r /\ new.taken = {}
    BY DEF NoCall
  <2>3. new \in [user : Residents, request : Requests, preview : Previews,
                plan : Previews, cart : 0..MaxCarts, taken : SUBSET Products]
    BY <1>2, <2>1 DEF NoCall
  <2> QED BY <2>2, <2>3
<1>4. call' = [call EXCEPT ![c] = new] /\ at' = [at EXCEPT ![c] = "lock"]
  BY <1>1 DEF Submit, Goto
<1> HIDE DEF new
<1>5. call[c].taken = {}
  BY DEF IInv, CallsAreOfResidents, NoCall, Submit
<1>6. at[c] = "idle" /\ UNCHANGED <<product, supplied, capacity, cart, orders, edits>>
  BY DEF Submit
<1>7. TypeOK'
  BY <1>3, <1>4, <1>6 DEF IInv, TypeOK, Labels
<1>8. \A d \in Calls : d # c => at'[d] = at[d] /\ call'[d] = call[d]
  BY <1>4 DEF IInv, TypeOK
<1>9. at'[c] = "lock" /\ call'[c] = new
  BY <1>4 DEF IInv, TypeOK
<1>10. /\ StockConserved' /\ OneOrderPerCart' /\ RowsAreHeld' /\ CartsAreSpent'
       /\ CallsAreOfResidents'
  BY <1>3, <1>5, <1>6, <1>8, <1>9, CallStep DEF CallsAreOfResidents
<1>11. LocksExclude'
  BY <1>8, <1>9 DEF IInv, LocksExclude, Working
<1>12. ConfirmedIsOrdered' /\ AnswersHold'
  BY <1>6, <1>8, <1>9 DEF IInv, ConfirmedIsOrdered, AnswersHold, Existing
<1>13. ReadsHold'
  <2> SUFFICES ASSUME NEW d \in Calls, at'[d] = "deduct"
               PROVE  d # c
    BY <1>6, <1>8 DEF IInv, ReadsHold, Existing, HasCapacity, Booked
  <2> QED BY <1>9
<1> QED
  BY <1>7, <1>10, <1>11, <1>12, <1>13 DEF IInv

\* lockUser and lockDeliverySlot let one call in at a time.
LEMMA LockIInv ==
  ASSUME IInv, NEW c \in Calls, Lock(c)
  PROVE  IInv'
<1>1. at' = [at EXCEPT ![c] = "read"] /\ at[c] = "lock"
  BY DEF Lock, Goto
<1>2. UNCHANGED <<product, supplied, capacity, cart, orders, edits, call>>
  BY DEF Lock
<1>3. TypeOK'
  BY <1>1, <1>2 DEF IInv, TypeOK, Labels
<1>4. at'[c] = "read" /\ \A d \in Calls : d # c => at'[d] = at[d] /\ call'[d] = call[d]
  BY <1>1, <1>2 DEF IInv, TypeOK
<1>5. call[c].taken = {}
  BY <1>1, CallFields DEF IInv, RowsAreHeld, Holds
<1>6. /\ StockConserved' /\ OneOrderPerCart' /\ RowsAreHeld' /\ CartsAreSpent'
      /\ CallsAreOfResidents'
  <2>1. call'[c].user \in Residents /\ call'[c].request \in Requests
    BY <1>1, <1>2 DEF IInv, CallsAreOfResidents
  <2> QED BY <2>1, <1>2, <1>4, <1>5, CallStep DEF CallsAreOfResidents
<1>7. LocksExclude'
  BY <1>1, <1>2, <1>4 DEF IInv, LocksExclude, Working, Lock, UserFree, SlotFree
<1>8. ConfirmedIsOrdered' /\ AnswersHold'
  BY <1>2, <1>4 DEF IInv, ConfirmedIsOrdered, AnswersHold, Existing
<1>9. ReadsHold'
  BY <1>2, <1>4 DEF IInv, ReadsHold, Existing, HasCapacity, Booked
<1> QED
  BY <1>3, <1>6, <1>7, <1>8, <1>9 DEF IInv

\* An answer ends a call that holds nothing.
LEMMA AnswerIInv ==
  ASSUME IInv, NEW c \in Calls, Answer(c)
  PROVE  IInv'
<1>1. at' = [at EXCEPT ![c] = "idle"] /\ call' = [call EXCEPT ![c] = NoCall]
  BY DEF Answer, Goto
<1>2. UNCHANGED <<product, supplied, capacity, cart, orders, edits>>
  BY DEF Answer
<1>3. TypeOK'
  BY <1>1, <1>2 DEF IInv, TypeOK, Labels
<1>4. /\ at'[c] = "idle" /\ call'[c] = NoCall
      /\ \A d \in Calls : d # c => at'[d] = at[d] /\ call'[d] = call[d]
  BY <1>1 DEF IInv, TypeOK
<1>5. call[c].taken = {} /\ call'[c].taken = {}
  <2>1. at[c] # "deduct"
    BY DEF Answer
  <2>2. call[c].taken = {}
    BY <2>1, CallFields DEF IInv, RowsAreHeld, Holds
  <2> QED BY <2>2, <1>4 DEF NoCall
<1>6. /\ StockConserved' /\ OneOrderPerCart' /\ RowsAreHeld' /\ CartsAreSpent'
      /\ CallsAreOfResidents'
  BY <1>2, <1>4, <1>5, CallStep DEF CallsAreOfResidents
<1>7. LocksExclude'
  BY <1>4 DEF IInv, LocksExclude, Working
<1>8. ConfirmedIsOrdered' /\ AnswersHold'
  BY <1>2, <1>4 DEF IInv, ConfirmedIsOrdered, AnswersHold, Existing
<1>9. ReadsHold'
  BY <1>2, <1>4 DEF IInv, ReadsHold, Existing, HasCapacity, Booked
<1> QED
  BY <1>3, <1>6, <1>7, <1>8, <1>9 DEF IInv

\* What Read finds is what ReadsHold and AnswersHold say of the rows.
LEMMA ReadIInv ==
  ASSUME IInv, NEW c \in Calls, Read(c)
  PROVE  IInv'
<1> DEFINE u == call[c].user
           plan == Preview(u, call[c].preview.scheduled)
<1>1. at[c] = "read" /\ UNCHANGED <<product, supplied, capacity, cart, orders, edits>>
  BY DEF Read
<1>2. u \in Residents /\ call[c].request \in Requests
  BY <1>1 DEF IInv, CallsAreOfResidents
<1>3. call[c].taken = {}
  BY <1>1, CallFields DEF IInv, RowsAreHeld, Holds
<1>4. CASE Existing(c) # NoOrder \/ at' = [at EXCEPT ![c] = "refused"]
  <2>1. PICK l \in {"replayed", "refused"} :
          at' = [at EXCEPT ![c] = l] /\ call' = call
            /\ (l = "replayed" => SameRequest(c) /\ Existing(c) # NoOrder)
    BY <1>1, <1>4 DEF Read, Goto, IInv, TypeOK
  <2>2. /\ at'[c] = l /\ call'[c] = call[c]
        /\ \A d \in Calls : d # c => at'[d] = at[d] /\ call'[d] = call[d]
    BY <2>1 DEF IInv, TypeOK
  <2>3. TypeOK'
    BY <1>1, <2>1 DEF IInv, TypeOK, Labels
  <2>4. /\ StockConserved' /\ OneOrderPerCart' /\ RowsAreHeld' /\ CartsAreSpent'
        /\ CallsAreOfResidents'
    BY <1>1, <1>2, <1>3, <2>1, <2>2, CallStep DEF CallsAreOfResidents
  <2>5. LocksExclude'
    BY <2>1, <2>2 DEF IInv, LocksExclude, Working
  <2>6. ConfirmedIsOrdered' /\ AnswersHold'
    BY <1>1, <2>1, <2>2 DEF IInv, ConfirmedIsOrdered, AnswersHold, Existing, SameRequest
  <2>7. ReadsHold'
    BY <1>1, <2>1, <2>2 DEF IInv, ReadsHold, Existing, HasCapacity, Booked
  <2> QED
    BY <2>3, <2>4, <2>5, <2>6, <2>7 DEF IInv
<1>5. CASE Existing(c) = NoOrder /\ at' # [at EXCEPT ![c] = "refused"]
  <2>1. /\ at' = [at EXCEPT ![c] = "deduct"]
        /\ call' = [call EXCEPT ![c].plan = plan, ![c].cart = cart[u].id]
        /\ Sellable(u) /\ (call[c].preview.scheduled => HasCapacity) /\ plan = call[c].preview
    BY <1>1, <1>5 DEF Read, Goto, Confirmed
  <2> HIDE DEF plan
  <2>2. plan \in Previews /\ cart[u].id \in 0..MaxCarts
    BY <1>2, <2>1, CallFields DEF IInv, TypeOK
  <2>3. call[c] \in CallRecords
    BY <1>2, CallFields DEF IInv
  <2>4. /\ at'[c] = "deduct" /\ call'[c].user = u /\ call'[c].request = call[c].request
        /\ call'[c].preview = call[c].preview /\ call'[c].plan = plan
        /\ call'[c].cart = cart[u].id /\ call'[c].taken = {}
        /\ call'[c] \in CallRecords
        /\ \A d \in Calls : d # c => at'[d] = at[d] /\ call'[d] = call[d]
    BY <1>3, <2>1, <2>2, <2>3 DEF IInv, TypeOK, CallRecords
  <2>5. TypeOK'
    <3>1. call' \in [Calls -> CallRecords \cup {NoCall}]
      BY <2>1, <2>4 DEF IInv, TypeOK, CallRecords
    <3> QED BY <1>1, <2>1, <3>1 DEF IInv, TypeOK, Labels, CallRecords
  <2>6. /\ StockConserved' /\ OneOrderPerCart' /\ RowsAreHeld' /\ CartsAreSpent'
        /\ CallsAreOfResidents'
    BY <1>1, <1>2, <1>3, <2>4, CallStep DEF CallsAreOfResidents
  <2>7. LocksExclude'
    BY <1>1, <2>4 DEF IInv, LocksExclude, Working
  <2>8. ConfirmedIsOrdered' /\ AnswersHold'
    BY <1>1, <2>4 DEF IInv, ConfirmedIsOrdered, AnswersHold, Existing
  <2>9. \A r \in Requests : orders[<<u, r>>].cart # cart[u].id
    <3>1. cart[u].items # NoItems /\ cart[u].id > 0
      BY <1>2, <2>1 DEF IInv, Sellable, CartsAreSpent
    <3> QED BY <1>2, <3>1 DEF IInv, CartsAreSpent, IsOrdered, NoOrder
  <2>10. cart[u].id \in 1..cart[u].id
    BY <1>2, <2>1, <2>2 DEF IInv, Sellable, CartsAreSpent
  <2>11. ReadsHold'
    <3> SUFFICES ASSUME NEW d \in Calls, at'[d] = "deduct"
                 PROVE  /\ call'[d].plan = call'[d].preview
                        /\ Existing(d)' = NoOrder
                        /\ call'[d].preview.scheduled => HasCapacity'
                        /\ call'[d].cart \in 1..cart'[call'[d].user].id
                        /\ \A r \in Requests : orders'[<<call'[d].user, r>>].cart # call'[d].cart
      BY DEF ReadsHold
    <3>1. HasCapacity' = HasCapacity
      BY <1>1 DEF HasCapacity, Booked
    <3>2. CASE d = c
      <4>1. orders'[<<call'[c].user, call'[c].request>>] = NoOrder
        BY <1>1, <1>5, <2>4 DEF Existing
      <4>2. call'[c].preview.scheduled => HasCapacity'
        BY <2>1, <2>4, <3>1
      <4>3. /\ call'[c].plan = call'[c].preview
            /\ call'[c].cart \in 1..cart'[call'[c].user].id
            /\ \A r \in Requests : orders'[<<call'[c].user, r>>].cart # call'[c].cart
        BY <1>1, <2>1, <2>4, <2>9, <2>10
      <4> QED BY <3>2, <4>1, <4>2, <4>3 DEF Existing
    <3>3. CASE d # c
      BY <1>1, <2>4, <3>1, <3>3 DEF IInv, ReadsHold, Existing
    <3> QED BY <3>2, <3>3
  <2> QED
    BY <2>5, <2>6, <2>7, <2>8, <2>11 DEF IInv
<1> QED
  BY <1>4, <1>5

-----------------------------------------------------------------------------
(* Steps that move stock. *)

\* Both sums of StockConserved are finite sums of numbers.
LEMMA SumsAreOfNumbers ==
  ASSUME IInv, NEW p \in Products
  PROVE  /\ IsFiniteSet(Residents \X Requests) /\ IsFiniteSet(Calls)
         /\ Ordered(p) \in [Residents \X Requests -> Nat] /\ Taken(p) \in [Calls -> Nat]
         /\ SumFunction(Ordered(p)) \in Nat /\ SumFunction(Taken(p)) \in Nat
<1>1. IsFiniteSet(Residents \X Requests) /\ IsFiniteSet(Calls)
  BY SetsAreFinite, FS_Product
<1>2. ASSUME NEW k \in Residents \X Requests
      PROVE  (IF orders[k].live /\ p \in DOMAIN orders[k].preview.items
              THEN Quantity(orders[k].preview, p) ELSE 0) \in Nat
  <2>1. orders[k].preview \in Previews
    BY DEF IInv, TypeOK
  <2> QED BY <2>1, PreviewsAre, BoundsAreNumbers
<1>3. ASSUME NEW c \in Calls
      PROVE  (IF Holds(c, p) THEN Quantity(call[c].plan, p) ELSE 0) \in Nat
  <2>1. call[c].plan \in Previews /\ (Holds(c, p) => p \in DOMAIN call[c].plan.items)
    BY CallFields DEF IInv, RowsAreHeld
  <2> QED BY <2>1, PreviewsAre, BoundsAreNumbers
<1>4. Ordered(p) \in [Residents \X Requests -> Nat] /\ Taken(p) \in [Calls -> Nat]
  BY <1>2, <1>3 DEF Ordered, Taken
<1> QED
  BY <1>1, <1>4, SumIsNat

\* updateMany took its quantity from the row, which had that much.
LEMMA DeductIInv ==
  ASSUME IInv, NEW c \in Calls, NEW p \in Products, Deduct(c, p), Deductible(c, p)
  PROVE  IInv'
<1> DEFINE n == Quantity(call[c].plan, p)
<1>1. /\ at[c] = "deduct" /\ p \in DOMAIN call[c].plan.items /\ Free(p)
      /\ product' = [product EXCEPT ![p].stock = @ - n]
      /\ call' = [call EXCEPT ![c].taken = @ \cup {p}]
      /\ UNCHANGED <<supplied, capacity, cart, orders, edits, at>>
  BY DEF Deduct
<1>2. call[c] \in CallRecords
  BY <1>1, CallFields DEF IInv, CallsAreOfResidents
<1>3. n \in Nat /\ product[p].stock \in Nat /\ n <= product[p].stock /\ product[p].onSale
  <2>1. n \in 1..MaxQuantity
    BY <1>1, <1>2, PreviewsAre DEF CallRecords
  <2> QED BY <2>1, BoundsAreNumbers DEF IInv, TypeOK, Deductible
<1> HIDE DEF n
<1>4. /\ call'[c] \in CallRecords /\ call'[c].taken = call[c].taken \cup {p}
      /\ call'[c].user = call[c].user /\ call'[c].request = call[c].request
      /\ call'[c].preview = call[c].preview /\ call'[c].plan = call[c].plan
      /\ call'[c].cart = call[c].cart
  BY <1>1, <1>2 DEF IInv, TypeOK, CallRecords
<1>5. \A d \in Calls : d # c => call'[d] = call[d]
  BY <1>1 DEF IInv, TypeOK
<1>6. /\ product'[p].stock = product[p].stock - n
      /\ \A q \in Products : /\ product'[q].onSale = product[q].onSale
                             /\ q # p => product'[q] = product[q]
  BY <1>1 DEF IInv, TypeOK
<1>7. TypeOK'
  <2>1. product' \in [Products -> [stock : Nat, price : Prices, onSale : BOOLEAN]]
    BY <1>1, <1>3 DEF IInv, TypeOK
  <2>2. call' \in [Calls -> CallRecords \cup {NoCall}]
    BY <1>1, <1>4, <1>5 DEF IInv, TypeOK, CallRecords
  <2> QED BY <1>1, <2>1, <2>2 DEF IInv, TypeOK, CallRecords
<1>8. \A d \in Calls, q \in Products : Holds(d, q)' <=> Holds(d, q) \/ (d = c /\ q = p)
  BY <1>4, <1>5 DEF Holds
<1>9. ~Holds(c, p) /\ \A d \in Calls : ~Holds(d, p)
  BY <1>1 DEF Free
<1>10. StockConserved'
  <2> SUFFICES ASSUME NEW q \in Products
               PROVE  supplied[q] = product'[q].stock + SumFunction(Ordered(q)') + SumFunction(Taken(q)')
    BY <1>1 DEF StockConserved
  <2>0. supplied[q] = product[q].stock + SumFunction(Ordered(q)) + SumFunction(Taken(q))
    BY DEF IInv, StockConserved
  <2>1. Ordered(q)' = Ordered(q)
    BY <1>1 DEF Ordered, Quantity
  <2>2. CASE q # p
    <3>1. Taken(q)' = Taken(q)
      BY <1>4, <1>5, <1>8, <2>2 DEF Taken, Quantity
    <3>2. product'[q].stock = product[q].stock
      BY <1>6, <2>2
    <3> QED BY <2>0, <2>1, <3>1, <3>2, Zenon
  <2>3. CASE q = p
    <3>1. Taken(p)' = [Taken(p) EXCEPT ![c] = n] /\ Taken(p)[c] = 0
      BY <1>4, <1>5, <1>8, <1>9 DEF Taken, Quantity, n
    <3>2. SumFunction([Taken(p) EXCEPT ![c] = n]) = SumFunction(Taken(p)) - Taken(p)[c] + n
      BY <1>3, SumsAreOfNumbers, SumExcept
    <3>3. SumFunction(Taken(p)') = SumFunction(Taken(p)) + n
      BY <1>3, <3>1, <3>2, SumsAreOfNumbers
    <3> QED BY <1>3, <1>6, <2>0, <2>1, <2>3, <3>3, SumsAreOfNumbers
  <2> QED BY <2>2, <2>3
<1>11. OneOrderPerCart' /\ CartsAreSpent'
  BY <1>1 DEF IInv, OneOrderPerCart, CartsAreSpent, IsOrdered
<1>12. ConfirmedIsOrdered' /\ AnswersHold'
  BY <1>1, <1>5 DEF IInv, ConfirmedIsOrdered, AnswersHold, Existing
<1>13. CallsAreOfResidents' /\ LocksExclude'
  BY <1>1, <1>4, <1>5 DEF IInv, CallsAreOfResidents, LocksExclude, Working
<1>14. RowsAreHeld'
  BY <1>1, <1>3, <1>4, <1>5, <1>6, <1>8, <1>9 DEF IInv, RowsAreHeld
<1>15. ReadsHold'
  <2>1. HasCapacity' = HasCapacity
    BY <1>1 DEF HasCapacity, Booked
  <2> QED BY <1>1, <1>4, <1>5, <2>1 DEF IInv, ReadsHold, Existing
<1> QED
  BY <1>7, <1>10, <1>11, <1>12, <1>13, <1>14, <1>15 DEF IInv

\* A rollback gives back what the call has taken, and its locks.
LEMMA Rollback ==
  ASSUME IInv, NEW c \in Calls, product' = Restored(c),
         UNCHANGED <<supplied, capacity, cart, orders, edits>>,
         at'[c] \in {"idle", "refused"}, call'[c].taken = {},
         \A d \in Calls : d # c => at'[d] = at[d] /\ call'[d] = call[d]
  PROVE  /\ product' \in [Products -> [stock : Nat, price : Prices, onSale : BOOLEAN]]
         /\ StockConserved' /\ OneOrderPerCart' /\ ConfirmedIsOrdered' /\ LocksExclude'
         /\ RowsAreHeld' /\ CartsAreSpent' /\ ReadsHold' /\ AnswersHold'
<1>1. \A p \in Products : Holds(c, p) => Quantity(call[c].plan, p) \in Nat
  <2>1. \A p \in Products : Holds(c, p) => p \in DOMAIN call[c].plan.items
    BY DEF IInv, RowsAreHeld
  <2>2. call[c].plan \in Previews
    BY CallFields DEF IInv
  <2> QED BY <2>1, <2>2, PreviewsAre, BoundsAreNumbers
<1>2. product' \in [Products -> [stock : Nat, price : Prices, onSale : BOOLEAN]]
  BY <1>1 DEF IInv, TypeOK, Restored
<1>3. \A p \in Products :
        /\ product'[p].onSale = product[p].onSale
        /\ ~Holds(c, p) => product'[p].stock = product[p].stock
        /\ Holds(c, p) => product'[p].stock = product[p].stock + Quantity(call[c].plan, p)
  BY DEF IInv, TypeOK, Restored
<1>4. \A d \in Calls, p \in Products : Holds(d, p)' <=> Holds(d, p) /\ d # c
  BY DEF Holds
<1>5. StockConserved'
  <2> SUFFICES ASSUME NEW p \in Products
               PROVE  supplied[p] = product'[p].stock + SumFunction(Ordered(p)') + SumFunction(Taken(p)')
    BY DEF StockConserved
  <2>1. supplied[p] = product[p].stock + SumFunction(Ordered(p)) + SumFunction(Taken(p))
    BY DEF IInv, StockConserved
  <2>2. Ordered(p)' = Ordered(p)
    BY DEF Ordered, Quantity
  <2>3. CASE ~Holds(c, p)
    <3>1. Taken(p)' = Taken(p)
      BY <1>4, <2>3 DEF Taken, Quantity
    <3> QED BY <1>3, <2>1, <2>2, <2>3, <3>1
  <2>4. CASE Holds(c, p)
    <3>1. Taken(p)' = [Taken(p) EXCEPT ![c] = 0] /\ Taken(p)[c] = Quantity(call[c].plan, p)
      BY <1>4, <2>4 DEF Taken, Quantity
    <3>2. SumFunction([Taken(p) EXCEPT ![c] = 0]) = SumFunction(Taken(p)) - Taken(p)[c] + 0
      BY SumsAreOfNumbers, SumExcept
    <3>3. SumFunction(Taken(p)') = SumFunction(Taken(p)) - Quantity(call[c].plan, p)
      BY <1>1, <2>4, <3>1, <3>2, SumsAreOfNumbers
    <3>4. product[p].stock \in Nat
      BY DEF IInv, TypeOK
    <3> QED BY <1>1, <1>3, <2>1, <2>2, <2>4, <3>3, <3>4, SumsAreOfNumbers
  <2> QED BY <2>3, <2>4
<1>6. OneOrderPerCart' /\ CartsAreSpent'
  BY DEF IInv, OneOrderPerCart, CartsAreSpent, IsOrdered
<1>7. ConfirmedIsOrdered' /\ AnswersHold'
  BY DEF IInv, ConfirmedIsOrdered, AnswersHold, Existing
<1>8. LocksExclude'
  BY DEF IInv, LocksExclude, Working
<1>9. RowsAreHeld'
  BY <1>3, <1>4 DEF IInv, RowsAreHeld
<1>10. ReadsHold'
  <2>1. HasCapacity' = HasCapacity
    BY DEF HasCapacity, Booked
  <2> QED BY <2>1 DEF IInv, ReadsHold, Existing
<1> QED
  BY <1>2, <1>5, <1>6, <1>7, <1>8, <1>9, <1>10

\* A product that cannot be taken, or a commit that fails, rolls back.
LEMMA FailIInv ==
  ASSUME IInv, NEW c \in Calls, at[c] = "deduct", Fail(c)
  PROVE  IInv'
<1>1. /\ product' = Restored(c) /\ at' = [at EXCEPT ![c] = "refused"]
      /\ call' = [call EXCEPT ![c].taken = {}]
      /\ UNCHANGED <<supplied, capacity, cart, orders, edits>>
  BY DEF Fail, Goto
<1>2. call[c] \in CallRecords
  BY CallFields DEF IInv, CallsAreOfResidents
<1>3. /\ call'[c] \in CallRecords /\ call'[c].taken = {} /\ at'[c] = "refused"
      /\ \A d \in Calls : d # c => at'[d] = at[d] /\ call'[d] = call[d]
  BY <1>1, <1>2 DEF IInv, TypeOK, CallRecords
<1>4. /\ product' \in [Products -> [stock : Nat, price : Prices, onSale : BOOLEAN]]
      /\ StockConserved' /\ OneOrderPerCart' /\ ConfirmedIsOrdered' /\ LocksExclude'
      /\ RowsAreHeld' /\ CartsAreSpent' /\ ReadsHold' /\ AnswersHold'
  BY <1>1, <1>3, Rollback
<1>5. call' \in [Calls -> CallRecords \cup {NoCall}]
  BY <1>1, <1>3 DEF IInv, TypeOK, CallRecords
<1>6. TypeOK'
  BY <1>1, <1>4, <1>5 DEF IInv, TypeOK, Labels, CallRecords
<1>7. CallsAreOfResidents'
  BY <1>3 DEF IInv, CallsAreOfResidents, CallRecords
<1> QED
  BY <1>4, <1>6, <1>7 DEF IInv

\* A crash or a broken deadlock rolls back.
LEMMA AbortIInv ==
  ASSUME IInv, NEW c \in Calls, Abort(c)
  PROVE  IInv'
<1>1. /\ product' = Restored(c) /\ at' = [at EXCEPT ![c] = "idle"]
      /\ call' = [call EXCEPT ![c] = NoCall]
      /\ UNCHANGED <<supplied, capacity, cart, orders, edits>>
  BY DEF Abort, Goto
<1>2. /\ call'[c] = NoCall /\ call'[c].taken = {} /\ at'[c] = "idle"
      /\ \A d \in Calls : d # c => at'[d] = at[d] /\ call'[d] = call[d]
  BY <1>1 DEF IInv, TypeOK, NoCall
<1>3. /\ product' \in [Products -> [stock : Nat, price : Prices, onSale : BOOLEAN]]
      /\ StockConserved' /\ OneOrderPerCart' /\ ConfirmedIsOrdered' /\ LocksExclude'
      /\ RowsAreHeld' /\ CartsAreSpent' /\ ReadsHold' /\ AnswersHold'
  BY <1>1, <1>2, Rollback
<1>4. TypeOK'
  BY <1>1, <1>3 DEF IInv, TypeOK, Labels
<1>5. CallsAreOfResidents'
  BY <1>2 DEF IInv, CallsAreOfResidents
<1> QED
  BY <1>3, <1>4, <1>5 DEF IInv

\* The order takes over what the call had taken; its cart is gone.
LEMMA CommitIInv ==
  ASSUME IInv, NEW c \in Calls, Commit(c), at' # [at EXCEPT ![c] = "refused"]
  PROVE  IInv'
<1> DEFINE u == call[c].user
           r == call[c].request
           new == [preview |-> call[c].plan, cart |-> call[c].cart, live |-> TRUE]
<1>1. /\ at[c] = "deduct" /\ call[c].taken = DOMAIN call[c].plan.items
      /\ Existing(c) = NoOrder
      /\ orders' = [orders EXCEPT ![<<u, r>>] = new]
      /\ cart' = IF CartExists(c) THEN WithoutCart(u) ELSE cart
      /\ at' = [at EXCEPT ![c] = "created"]
      /\ call' = [call EXCEPT ![c].taken = {}]
      /\ UNCHANGED <<product, supplied, capacity, edits>>
  BY DEF Commit, Fail, Goto
<1>2. /\ u \in Residents /\ r \in Requests /\ <<u, r>> \in Residents \X Requests
      /\ call[c] \in CallRecords /\ orders[<<u, r>>] = NoOrder
  BY <1>1, CallFields DEF IInv, CallsAreOfResidents, Existing
<1>3. /\ call[c].plan = call[c].preview /\ call[c].cart \in 1..cart[u].id
      /\ call[c].preview.scheduled => HasCapacity
      /\ \A q \in Requests : orders[<<u, q>>].cart # call[c].cart
  BY <1>1 DEF IInv, ReadsHold
<1>4. /\ call'[c] \in CallRecords /\ call'[c].taken = {} /\ at'[c] = "created"
      /\ call'[c].user = u /\ call'[c].request = r /\ call'[c].preview = call[c].preview
      /\ \A d \in Calls : d # c => at'[d] = at[d] /\ call'[d] = call[d]
  BY <1>1, <1>2 DEF IInv, TypeOK, CallRecords
<1>5. /\ orders'[<<u, r>>] = new /\ new # NoOrder
      /\ \A k \in Residents \X Requests : k # <<u, r>> => orders'[k] = orders[k]
  BY <1>1, <1>2 DEF IInv, TypeOK, NoOrder
<1>6. /\ cart' \in [Residents -> [id : 0..MaxCarts, items : ItemSets]]
      /\ \A v \in Residents :
           /\ cart'[v].id = cart[v].id
           /\ cart'[v].items = cart[v].items \/ cart'[v].items = NoItems
           /\ v = u /\ cart[v].id = call[c].cart => cart'[v].items = NoItems
  <2>1. CASE CartExists(c)
    <3>1. cart' = [cart EXCEPT ![u].items = NoItems]
      BY <1>1, <2>1 DEF WithoutCart
    <3> QED BY <1>2, <3>1, NothingIsAFunction DEF IInv, TypeOK
  <2>2. CASE ~CartExists(c)
    <3>1. cart' = cart
      BY <1>1, <2>2
    <3> QED BY <2>2, <3>1 DEF IInv, TypeOK, CartExists
  <2> QED BY <2>1, <2>2
<1>7. TypeOK'
  <2>1. call' \in [Calls -> CallRecords \cup {NoCall}]
    BY <1>1, <1>4 DEF IInv, TypeOK, CallRecords
  <2>2. new \in [preview : Previews, cart : 0..MaxCarts, live : BOOLEAN]
    BY <1>2 DEF CallRecords
  <2> HIDE DEF new
  <2>3. orders' \in [Residents \X Requests -> [preview : Previews, cart : 0..MaxCarts, live : BOOLEAN]]
    BY <1>1, <2>2 DEF IInv, TypeOK
  <2> QED BY <1>1, <1>6, <2>1, <2>3 DEF IInv, TypeOK, Labels, CallRecords
<1>8. \A d \in Calls, p \in Products : Holds(d, p)' <=> Holds(d, p) /\ d # c
  BY <1>4 DEF Holds
<1>9. StockConserved'
  <2> SUFFICES ASSUME NEW p \in Products
               PROVE  supplied[p] = product[p].stock + SumFunction(Ordered(p)') + SumFunction(Taken(p)')
    BY <1>1 DEF StockConserved
  <2>1. supplied[p] = product[p].stock + SumFunction(Ordered(p)) + SumFunction(Taken(p))
    BY DEF IInv, StockConserved
  <2>2. CASE p \notin DOMAIN call[c].plan.items
    <3>1. Taken(p)' = Taken(p)
      BY <1>1, <1>4, <1>8, <2>2 DEF Taken, Quantity, Holds
    <3>2. Ordered(p)' = Ordered(p)
      BY <1>2, <1>5, <2>2 DEF Ordered, Quantity, NoOrder
    <3> QED BY <2>1, <3>1, <3>2
  <2>3. CASE p \in DOMAIN call[c].plan.items
    <3> DEFINE n == Quantity(call[c].plan, p)
    <3>1. n \in Nat
      BY <1>2, <2>3, PreviewsAre, BoundsAreNumbers DEF CallRecords
    <3>2. Holds(c, p)
      BY <1>1, <2>3 DEF Holds
    <3>3. Taken(p)' = [Taken(p) EXCEPT ![c] = 0] /\ Taken(p)[c] = n
      BY <1>4, <1>8, <3>2 DEF Taken, Quantity
    <3> DEFINE k == <<u, r>>
    <3>4. Ordered(p)' = [Ordered(p) EXCEPT ![k] = n] /\ Ordered(p)[k] = 0
      <4>1. /\ orders'[k].live /\ orders'[k].preview = call[c].plan /\ ~orders[k].live
            /\ k \in Residents \X Requests
        BY <1>2, <1>5 DEF NoOrder
      <4>2. \A l \in Residents \X Requests : l # k => orders'[l] = orders[l]
        BY <1>5
      <4> HIDE DEF k
      <4> QED BY <2>3, <4>1, <4>2 DEF Ordered, Quantity
    <3>7. k \in Residents \X Requests
      BY <1>2
    <3> HIDE DEF n, k
    <3>5. /\ SumFunction([Taken(p) EXCEPT ![c] = 0]) = SumFunction(Taken(p)) - Taken(p)[c] + 0
          /\ SumFunction([Ordered(p) EXCEPT ![k] = n]) = SumFunction(Ordered(p)) - Ordered(p)[k] + n
      <4>1. SumFunction([Taken(p) EXCEPT ![c] = 0]) = SumFunction(Taken(p)) - Taken(p)[c] + 0
        BY SumsAreOfNumbers, SumExcept
      <4>2. SumFunction([Ordered(p) EXCEPT ![k] = n]) = SumFunction(Ordered(p)) - Ordered(p)[k] + n
        BY <3>1, <3>7, SumsAreOfNumbers, SumExcept
      <4> QED BY <4>1, <4>2
    <3>6. /\ SumFunction(Taken(p)') = SumFunction(Taken(p)) - n
          /\ SumFunction(Ordered(p)') = SumFunction(Ordered(p)) + n
      BY <3>1, <3>3, <3>4, <3>5, SumsAreOfNumbers
    <3>8. product[p].stock \in Nat
      BY DEF IInv, TypeOK
    <3> QED BY <2>1, <3>1, <3>6, <3>8, SumsAreOfNumbers
  <2> QED BY <2>2, <2>3
<1>10. OneOrderPerCart'
  BY <1>2, <1>3, <1>5 DEF IInv, OneOrderPerCart
<1>11. ConfirmedIsOrdered' /\ AnswersHold'
  BY <1>2, <1>3, <1>4, <1>5 DEF IInv, ConfirmedIsOrdered, AnswersHold, Existing, CallsAreOfResidents
<1>12. CallsAreOfResidents' /\ LocksExclude'
  BY <1>2, <1>4 DEF IInv, CallsAreOfResidents, LocksExclude, Working
<1>13. RowsAreHeld'
  BY <1>1, <1>4, <1>8 DEF IInv, RowsAreHeld
<1>14. CartsAreSpent'
  BY <1>2, <1>3, <1>5, <1>6 DEF IInv, CartsAreSpent, IsOrdered
<1>15. ReadsHold'
  <2> SUFFICES ASSUME NEW d \in Calls, d # c, at[d] = "deduct"
               PROVE  /\ call[d].plan = call[d].preview
                      /\ orders'[<<call[d].user, call[d].request>>] = NoOrder
                      /\ call[d].preview.scheduled => HasCapacity'
                      /\ call[d].cart \in 1..cart'[call[d].user].id
                      /\ \A q \in Requests : orders'[<<call[d].user, q>>].cart # call[d].cart
    BY <1>4 DEF ReadsHold, Existing
  <2>1. /\ call[d].user \in Residents /\ call[d].request \in Requests /\ call[d].user # u
        /\ ~(call[d].preview.scheduled /\ call[c].preview.scheduled)
    BY <1>1 DEF IInv, CallsAreOfResidents, LocksExclude, Working
  <2>2. ~call[c].preview.scheduled => Booked' = Booked
    <3> DEFINE k == <<u, r>>
    <3>1. ~orders[k].live /\ orders'[k].preview = call[c].preview /\ k \in Residents \X Requests
      BY <1>2, <1>3, <1>5 DEF NoOrder
    <3>2. \A l \in Residents \X Requests : l # k => orders'[l] = orders[l]
      BY <1>5
    <3> HIDE DEF k
    <3> QED BY <3>1, <3>2 DEF Booked
  <2>3. call[d].preview.scheduled => HasCapacity'
    BY <1>1, <2>1, <2>2 DEF HasCapacity, IInv, ReadsHold
  <2>4. \A q \in Requests : orders'[<<call[d].user, q>>] = orders[<<call[d].user, q>>]
    BY <1>5, <2>1
  <2>5. cart'[call[d].user].id = cart[call[d].user].id
    BY <1>6, <2>1
  <2> QED BY <2>1, <2>3, <2>4, <2>5 DEF IInv, ReadsHold, Existing
<1> QED
  BY <1>7, <1>9, <1>10, <1>11, <1>12, <1>13, <1>14, <1>15 DEF IInv

\* The order's quantities go back on the shelf; it stays an order.
LEMMA EndOrderIInv ==
  ASSUME IInv, NEW k \in Residents \X Requests, EndOrder(k)
  PROVE  IInv'
<1> DEFINE items == orders[k].preview.items
<1>1. /\ orders[k].live /\ orders' = [orders EXCEPT ![k].live = FALSE]
      /\ UNCHANGED <<supplied, capacity, cart, edits, at, call>>
  BY DEF EndOrder, calls
<1>2. /\ orders'[k].preview = orders[k].preview /\ orders'[k].cart = orders[k].cart
      /\ ~orders'[k].live /\ orders[k] # NoOrder
      /\ \A l \in Residents \X Requests : l # k => orders'[l] = orders[l]
  BY <1>1 DEF IInv, TypeOK, NoOrder
<1>3. orders[k].preview \in Previews
  BY DEF IInv, TypeOK
<1>4. \A p \in Products : p \in DOMAIN items => Quantity(orders[k].preview, p) \in Nat
  BY <1>3, PreviewsAre, BoundsAreNumbers
<1>5. \A p \in Products :
        /\ product'[p].onSale = product[p].onSale
        /\ p \notin DOMAIN items => product'[p].stock = product[p].stock
        /\ p \in DOMAIN items =>
             product'[p].stock = product[p].stock + Quantity(orders[k].preview, p)
  BY DEF IInv, TypeOK, EndOrder
<1>6. TypeOK'
  <2>1. product' \in [Products -> [stock : Nat, price : Prices, onSale : BOOLEAN]]
    <3> DEFINE Back(p) == IF p \in DOMAIN items
                          THEN [product[p] EXCEPT !.stock = @ + Quantity(orders[k].preview, p)]
                          ELSE product[p]
    <3>1. ASSUME NEW p \in Products
          PROVE  Back(p) \in [stock : Nat, price : Prices, onSale : BOOLEAN]
      <4>1. product[p] \in [stock : Nat, price : Prices, onSale : BOOLEAN]
        BY DEF IInv, TypeOK
      <4>2. CASE p \in DOMAIN items
        <5>1. product[p].stock + Quantity(orders[k].preview, p) \in Nat
          BY <1>4, <4>1, <4>2
        <5> QED BY <4>1, <4>2, <5>1
      <4> QED BY <4>1, <4>2
    <3>2. product' = [p \in Products |-> Back(p)]
      BY DEF EndOrder
    <3> HIDE DEF Back
    <3> QED BY <3>1, <3>2
  <2>2. orders' \in [Residents \X Requests -> [preview : Previews, cart : 0..MaxCarts, live : BOOLEAN]]
    BY <1>1 DEF IInv, TypeOK
  <2> QED BY <1>1, <2>1, <2>2 DEF IInv, TypeOK
<1>7. \A u \in Residents, r \in Requests :
        /\ orders'[<<u, r>>].cart = orders[<<u, r>>].cart
        /\ orders'[<<u, r>>].preview = orders[<<u, r>>].preview
        /\ orders'[<<u, r>>] = NoOrder <=> orders[<<u, r>>] = NoOrder
  <2>1. orders'[k] # NoOrder
    <3>1. PICK u \in Residents, r \in Requests : k = <<u, r>>
      OBVIOUS
    <3>2. orders[k].cart \in 1..cart[u].id
      BY <1>2, <3>1 DEF IInv, CartsAreSpent, IsOrdered
    <3>3. orders'[k].cart # 0
      BY <1>2, <3>2
    <3> QED BY <3>3 DEF NoOrder
  <2> QED BY <1>2, <2>1
<1>8. StockConserved'
  <2> SUFFICES ASSUME NEW p \in Products
               PROVE  supplied[p] = product'[p].stock + SumFunction(Ordered(p)') + SumFunction(Taken(p)')
    BY <1>1 DEF StockConserved
  <2>1. supplied[p] = product[p].stock + SumFunction(Ordered(p)) + SumFunction(Taken(p))
    BY DEF IInv, StockConserved
  <2>2. Taken(p)' = Taken(p)
    BY <1>1 DEF Taken, Holds, Quantity
  <2>3. CASE p \notin DOMAIN items
    <3>1. Ordered(p)' = Ordered(p)
      BY <1>2, <2>3 DEF Ordered, Quantity
    <3> QED BY <1>5, <2>1, <2>2, <2>3, <3>1
  <2>4. CASE p \in DOMAIN items
    <3> DEFINE n == Quantity(orders[k].preview, p)
    <3>1. Ordered(p)' = [Ordered(p) EXCEPT ![k] = 0] /\ Ordered(p)[k] = n
      <4>1. orders[k].live /\ ~orders'[k].live
        BY <1>1, <1>2
      <4>2. \A l \in Residents \X Requests : l # k => orders'[l] = orders[l]
        BY <1>2
      <4> QED BY <2>4, <4>1, <4>2 DEF Ordered, Quantity
    <3>2. n \in Nat /\ product'[p].stock = product[p].stock + n
      BY <1>4, <1>5, <2>4
    <3> HIDE DEF n
    <3>3. SumFunction([Ordered(p) EXCEPT ![k] = 0]) = SumFunction(Ordered(p)) - Ordered(p)[k] + 0
      BY SumsAreOfNumbers, SumExcept
    <3>4. SumFunction(Ordered(p)') = SumFunction(Ordered(p)) - n
      BY <3>1, <3>2, <3>3, SumsAreOfNumbers
    <3>5. product[p].stock \in Nat
      BY DEF IInv, TypeOK
    <3> QED BY <2>1, <2>2, <3>2, <3>4, <3>5, SumsAreOfNumbers
  <2> QED BY <2>3, <2>4
<1>9. OneOrderPerCart' /\ CartsAreSpent'
  BY <1>1, <1>7 DEF IInv, OneOrderPerCart, CartsAreSpent, IsOrdered
<1>10. ConfirmedIsOrdered' /\ AnswersHold'
  BY <1>1, <1>7 DEF IInv, ConfirmedIsOrdered, AnswersHold, Existing, CallsAreOfResidents
<1>11. CallsAreOfResidents' /\ LocksExclude' /\ RowsAreHeld'
  BY <1>1, <1>5 DEF IInv, CallsAreOfResidents, LocksExclude, Working, RowsAreHeld, Holds
<1>12. HasCapacity => HasCapacity'
  <2>1. Booked' \in SUBSET Booked
    BY <1>1, <1>2 DEF Booked
  <2>2. IsFiniteSet(Booked)
    <3>1. IsFiniteSet(Residents \X Requests)
      BY SetsAreFinite, FS_Product
    <3> QED BY <3>1, FS_Subset DEF Booked
  <2>3. Cardinality(Booked') <= Cardinality(Booked) /\ Cardinality(Booked) \in Nat /\ Cardinality(Booked') \in Nat
    BY <2>1, <2>2, FS_Subset, FS_CardinalityType
  <2>4. capacity \in Nat
    BY BoundsAreNumbers DEF IInv, TypeOK
  <2> QED BY <1>1, <2>3, <2>4 DEF HasCapacity
<1>13. ReadsHold'
  BY <1>1, <1>7, <1>12 DEF IInv, ReadsHold, Existing, CallsAreOfResidents
<1> QED
  BY <1>6, <1>8, <1>9, <1>10, <1>11, <1>13 DEF IInv

\* updateProduct moves supplied with the stock, and finds the row unlocked.
LEMMA EditProductIInv ==
  ASSUME IInv, NEW p \in Products, NEW n \in 0..InitialStock, NEW price \in Prices,
         NEW onSale \in BOOLEAN, EditProduct(p, n, price, onSale)
  PROVE  IInv'
<1>1. /\ Free(p) /\ edits < MaxEdits /\ edits' = edits + 1
      /\ product' = [product EXCEPT ![p] = [stock |-> n, price |-> price, onSale |-> onSale]]
      /\ supplied' = [supplied EXCEPT ![p] = supplied[p] + n - product[p].stock]
      /\ UNCHANGED <<capacity, cart, orders, at, call>>
  BY DEF EditProduct, Edit, calls
<1>2. n \in Nat
  BY BoundsAreNumbers
<1>3. \A q \in Products : /\ Ordered(q)' = Ordered(q) /\ Taken(q)' = Taken(q)
                          /\ SumFunction(Ordered(q)) \in Nat /\ SumFunction(Taken(q)) \in Nat
  BY <1>1, SumsAreOfNumbers DEF Ordered, Taken, Holds, Quantity
<1>4. /\ supplied[p] \in Nat /\ product[p].stock \in Nat
      /\ supplied[p] = product[p].stock + SumFunction(Ordered(p)) + SumFunction(Taken(p))
  BY DEF IInv, TypeOK, StockConserved
<1>5. /\ product'[p].stock = n
      /\ supplied'[p] = supplied[p] + n - product[p].stock
      /\ \A q \in Products : q # p => product'[q] = product[q] /\ supplied'[q] = supplied[q]
  BY <1>1 DEF IInv, TypeOK
<1>6. supplied'[p] = n + SumFunction(Ordered(p)) + SumFunction(Taken(p)) /\ supplied'[p] \in Nat
  BY <1>2, <1>3, <1>4, <1>5
<1>7. TypeOK'
  <2>1. product' \in [Products -> [stock : Nat, price : Prices, onSale : BOOLEAN]]
    BY <1>1, <1>2 DEF IInv, TypeOK
  <2>2. supplied' \in [Products -> Nat]
    BY <1>1, <1>5, <1>6 DEF IInv, TypeOK
  <2>3. edits' \in 0..MaxEdits
    BY <1>1, BoundsAreNumbers DEF IInv, TypeOK
  <2> QED BY <1>1, <2>1, <2>2, <2>3 DEF IInv, TypeOK
<1>8. StockConserved'
  <2> SUFFICES ASSUME NEW q \in Products
               PROVE  supplied'[q] = product'[q].stock + SumFunction(Ordered(q)') + SumFunction(Taken(q)')
    BY DEF StockConserved
  <2>1. CASE q = p
    BY <1>3, <1>5, <1>6, <2>1
  <2>2. CASE q # p
    <3>1. supplied[q] = product[q].stock + SumFunction(Ordered(q)) + SumFunction(Taken(q))
      BY DEF IInv, StockConserved
    <3> QED BY <1>3, <1>5, <2>2, <3>1
  <2> QED BY <2>1, <2>2
<1>9. OneOrderPerCart' /\ CartsAreSpent' /\ ConfirmedIsOrdered' /\ AnswersHold'
  BY <1>1 DEF IInv, OneOrderPerCart, CartsAreSpent, IsOrdered, ConfirmedIsOrdered, AnswersHold, Existing
<1>10. CallsAreOfResidents' /\ LocksExclude'
  BY <1>1 DEF IInv, CallsAreOfResidents, LocksExclude, Working
<1>11. RowsAreHeld'
  BY <1>1, <1>5 DEF IInv, RowsAreHeld, Holds, Free
<1>12. ReadsHold'
  <2>1. HasCapacity' = HasCapacity
    BY <1>1 DEF HasCapacity, Booked
  <2> QED BY <1>1, <2>1 DEF IInv, ReadsHold, Existing
<1> QED
  BY <1>7, <1>8, <1>9, <1>10, <1>11, <1>12 DEF IInv

\* The slot's row is not locked by a scheduled call when it is edited.
LEMMA EditSlotIInv ==
  ASSUME IInv, NEW n \in 0..MaxCapacity, EditSlot(n)
  PROVE  IInv'
<1>1. /\ edits < MaxEdits /\ edits' = edits + 1 /\ capacity' = n
      /\ \A c \in Calls : Working(c) => ~call[c].preview.scheduled
      /\ UNCHANGED <<product, supplied, cart, orders, at, call>>
  BY DEF EditSlot, Edit, calls
<1>2. TypeOK'
  BY <1>1, BoundsAreNumbers DEF IInv, TypeOK
<1>3. StockConserved'
  BY <1>1 DEF IInv, StockConserved, Ordered, Taken, Holds, Quantity
<1>4. OneOrderPerCart' /\ CartsAreSpent' /\ ConfirmedIsOrdered' /\ AnswersHold'
  BY <1>1 DEF IInv, OneOrderPerCart, CartsAreSpent, IsOrdered, ConfirmedIsOrdered, AnswersHold, Existing
<1>5. CallsAreOfResidents' /\ LocksExclude' /\ RowsAreHeld'
  BY <1>1 DEF IInv, CallsAreOfResidents, LocksExclude, Working, RowsAreHeld, Holds
<1>6. ReadsHold'
  BY <1>1 DEF IInv, ReadsHold, Existing, Working
<1> QED
  BY <1>2, <1>3, <1>4, <1>5, <1>6 DEF IInv

-----------------------------------------------------------------------------
\* Every step keeps the inductive invariant.
LEMMA NextIInv == IInv /\ [Next]_vars => IInv'
<1> SUFFICES ASSUME IInv, [Next]_vars PROVE IInv'
  OBVIOUS
<1>1. CASE \E u \in Residents, p \in Products :
             \/ \E n \in 1..MaxQuantity : PutInCart(u, p, n)
             \/ RemoveFromCart(u, p)
  BY <1>1, PutInCartIInv, RemoveFromCartIInv
<1>2. CASE \E u \in Residents : ClearCart(u)
  BY <1>2, ClearCartIInv
<1>3. ASSUME NEW c \in Calls, Create(c) PROVE IInv'
  <2>1. CASE Lock(c) \/ Read(c) \/ Answer(c)
    BY <2>1, LockIInv, ReadIInv, AnswerIInv
  <2>2. CASE Commit(c)
    <3>1. CASE at' = [at EXCEPT ![c] = "refused"]
      <4>1. at[c] = "deduct"
        BY <2>2 DEF Commit
      <4>2. Fail(c)
        BY <2>2, <3>1, <4>1 DEF Commit, Goto, IInv, TypeOK
      <4> QED BY <4>1, <4>2, FailIInv
    <3>2. CASE at' # [at EXCEPT ![c] = "refused"]
      BY <2>2, <3>2, CommitIInv
    <3> QED BY <3>1, <3>2
  <2>3. ASSUME NEW p \in Products, Deduct(c, p) PROVE IInv'
    <3>1. CASE Deductible(c, p)
      BY <2>3, <3>1, DeductIInv
    <3>2. CASE ~Deductible(c, p)
      <4>1. at[c] = "deduct" /\ Fail(c)
        BY <2>3, <3>2 DEF Deduct
      <4> QED BY <4>1, FailIInv
    <3> QED BY <3>1, <3>2
  <2> QED BY <1>3, <2>1, <2>2, <2>3 DEF Create
<1>4. CASE \E c \in Calls : \/ Abort(c)
                            \/ \E u \in Residents, r \in Requests : Submit(c, u, r)
  BY <1>4, AbortIInv, SubmitIInv
<1>5. CASE \E k \in Residents \X Requests : EndOrder(k)
  BY <1>5, EndOrderIInv
<1>6. CASE \E p \in Products, n \in 0..InitialStock, price \in Prices, onSale \in BOOLEAN :
             EditProduct(p, n, price, onSale)
  BY <1>6, EditProductIInv
<1>7. CASE \E n \in 0..MaxCapacity : EditSlot(n)
  BY <1>7, EditSlotIInv
<1>8. CASE UNCHANGED vars
  <2> USE <1>8 DEF vars
  <2>1. TypeOK' /\ StockConserved'
    BY DEF IInv, TypeOK, StockConserved, Ordered, Taken, Holds, Quantity
  <2>2. OneOrderPerCart' /\ CartsAreSpent' /\ ConfirmedIsOrdered' /\ AnswersHold'
    BY DEF IInv, OneOrderPerCart, CartsAreSpent, IsOrdered, ConfirmedIsOrdered, AnswersHold, Existing
  <2>3. CallsAreOfResidents' /\ LocksExclude' /\ RowsAreHeld'
    BY DEF IInv, CallsAreOfResidents, LocksExclude, Working, RowsAreHeld, Holds
  <2>4. ReadsHold'
    BY DEF IInv, ReadsHold, Existing, HasCapacity, Booked
  <2> QED BY <2>1, <2>2, <2>3, <2>4 DEF IInv
<1> QED
  BY <1>1, <1>2, <1>3, <1>4, <1>5, <1>6, <1>7, <1>8 DEF Next

\* The inductive invariant: what a transaction read under its locks holds until it ends,
\* whatever carts, catalog and closing orders do in between.
THEOREM Invariance == Spec => []IInv
BY InitIInv, NextIInv, PTL DEF Spec

\* The rows and the calls keep their types: in particular no product's stock is ever
\* negative, because updateMany takes only what the current row has.
THEOREM TypeCorrect == Spec => []TypeOK
<1>1. IInv => TypeOK
  BY DEF IInv
<1> QED
  BY <1>1, Invariance, PTL

\* No unit of a product is lost or sold twice, however deductions, rollbacks, commits,
\* ended orders and edits of the stock interleave.
THEOREM StockIsConserved == Spec => []StockConserved
<1>1. IInv => StockConserved
  BY DEF IInv
<1> QED
  BY <1>1, Invariance, PTL

\* createAtomic makes one order at most of a cart, whatever request ids it comes under.
THEOREM CartsAreOrderedOnce == Spec => []OneOrderPerCart
<1>1. IInv => OneOrderPerCart
  BY DEF IInv
<1> QED
  BY <1>1, Invariance, PTL

\* A call that reports an order, created or replayed, reports what its resident confirmed.
THEOREM OrdersAreConfirmed == Spec => []ConfirmedIsOrdered
<1>1. IInv => ConfirmedIsOrdered
  BY DEF IInv
<1> QED
  BY <1>1, Invariance, PTL

-----------------------------------------------------------------------------
(* Action properties. *)

\* What each step may do to the orders and to where calls are.
LEMMA OnlyCommitOrders ==
  ASSUME IInv, [Next]_vars
  PROVE  \/ UNCHANGED orders
         \/ \E k \in Residents \X Requests : EndOrder(k)
         \/ \E c \in Calls : Commit(c) /\ at' # [at EXCEPT ![c] = "refused"]
<1>1. ASSUME NEW c \in Calls, Create(c)
      PROVE  UNCHANGED orders \/ (Commit(c) /\ at' # [at EXCEPT ![c] = "refused"])
  <2>1. CASE Commit(c)
    <3>1. Fail(c) => UNCHANGED orders
      BY DEF Fail
    <3>2. ~Fail(c) => at' = [at EXCEPT ![c] = "created"]
      BY <2>1 DEF Commit, Goto
    <3> QED BY <2>1, <3>1, <3>2 DEF IInv, TypeOK
  <2>2. CASE ~Commit(c)
    BY <1>1, <2>2 DEF Create, Lock, Read, Answer, Deduct, Fail
  <2> QED BY <2>1, <2>2
<1> QED
  BY <1>1 DEF Next, PutInCart, RemoveFromCart, ClearCart, Abort, Submit, EditProduct,
     EditSlot, vars, calls

\* What a new order is, and on which conditions it comes to be.
LEMMA NewOrder ==
  ASSUME IInv, NEW c \in Calls, Commit(c), at' # [at EXCEPT ![c] = "refused"]
  PROVE  LET k == <<call[c].user, call[c].request>> IN
         /\ k \in Residents \X Requests /\ orders[k] = NoOrder
         /\ orders'[k].preview = call[c].preview
         /\ \A l \in Residents \X Requests : l # k => orders'[l] = orders[l]
         /\ \A p \in Products : p \in DOMAIN call[c].preview.items => product[p].onSale
         /\ DOMAIN call[c].preview.items \in SUBSET Products
         /\ call[c].preview.scheduled => HasCapacity
         /\ UNCHANGED <<product, capacity>>
<1> DEFINE k == <<call[c].user, call[c].request>>
<1>1. /\ at[c] = "deduct" /\ call[c].taken = DOMAIN call[c].plan.items
      /\ Existing(c) = NoOrder
      /\ orders' = [orders EXCEPT ![k] = [preview |-> call[c].plan, cart |-> call[c].cart,
                                         live |-> TRUE]]
      /\ UNCHANGED <<product, capacity>>
  BY DEF Commit, Fail, Goto
<1>2. k \in Residents \X Requests /\ orders[k] = NoOrder
  BY <1>1 DEF IInv, CallsAreOfResidents, Existing
<1>3. call[c].plan = call[c].preview /\ (call[c].preview.scheduled => HasCapacity)
  BY <1>1 DEF IInv, ReadsHold
<1>4. /\ orders'[k].preview = call[c].preview
      /\ \A l \in Residents \X Requests : l # k => orders'[l] = orders[l]
  BY <1>1, <1>2, <1>3 DEF IInv, TypeOK
<1>5. DOMAIN call[c].preview.items \in SUBSET Products
  BY CallFields, PreviewsAre DEF IInv
<1>6. \A p \in Products : p \in DOMAIN call[c].preview.items => product[p].onSale
  BY <1>1, <1>3 DEF IInv, RowsAreHeld, Holds
<1> QED
  BY <1>1, <1>2, <1>3, <1>4, <1>5, <1>6

\* An order that has ended is still an order, and takes no room in the slot.
LEMMA EndedOrder ==
  ASSUME IInv, NEW k \in Residents \X Requests, EndOrder(k)
  PROVE  /\ orders[k] # NoOrder /\ Booked' \in SUBSET Booked
         /\ \A l \in Residents \X Requests : l # k => orders'[l] = orders[l]
<1>1. orders[k].live /\ orders' = [orders EXCEPT ![k].live = FALSE]
  BY DEF EndOrder
<1>2. /\ ~orders'[k].live
      /\ \A l \in Residents \X Requests : l # k => orders'[l] = orders[l]
  BY <1>1 DEF IInv, TypeOK
<1> QED
  BY <1>1, <1>2 DEF NoOrder, Booked

\* Of the steps of a working call, only Read can find an order, and then it compares.
LEMMA RetriesReplayStep ==
  ASSUME IInv, [Next]_vars, NEW c \in Calls, Working(c), at'[c] = "refused", Existing(c) # NoOrder
  PROVE  ~SameRequest(c)
<1>1. at[c] = "read"
  BY DEF Working, IInv, ReadsHold
<1>2. ASSUME NEW d \in Calls, d # c, Create(d) \/ Abort(d) PROVE FALSE
  <2>1. at'[c] = at[c]
    BY <1>2 DEF Create, Lock, Read, Deduct, Fail, Commit, Answer, Abort, Goto, IInv, TypeOK
  <2> QED BY <1>1, <2>1
<1>3. CASE Create(c)
  <2>1. Read(c)
    BY <1>1, <1>3 DEF Create, Lock, Deduct, Commit, Answer
  <2> QED BY <2>1 DEF Read, Goto, IInv, TypeOK
<1>4. CASE Abort(c)
  BY <1>4 DEF Abort, Goto, IInv, TypeOK
<1>5. ASSUME NEW d \in Calls, NEW u \in Residents, NEW r \in Requests, Submit(d, u, r) PROVE FALSE
  BY <1>1, <1>5 DEF Submit, Goto, IInv, TypeOK
<1>6. ~UNCHANGED at
  BY <1>1
<1> QED
  BY <1>2, <1>3, <1>4, <1>5, <1>6 DEF Next, PutInCart, RemoveFromCart, ClearCart, EndOrder,
     EditProduct, EditSlot, vars, calls

\* Who commits an order holds the rows of its products, and has found them on sale.
LEMMA SoldOnlyOnSaleStep ==
  ASSUME IInv, [Next]_vars, NEW k \in Residents \X Requests,
         orders[k] = NoOrder, orders'[k] # NoOrder
  PROVE  \A p \in DOMAIN orders'[k].preview.items : product'[p].onSale
<1>1. ~UNCHANGED orders
  OBVIOUS
<1>2. ASSUME NEW l \in Residents \X Requests, EndOrder(l) PROVE FALSE
  BY <1>2, EndedOrder
<1>3. ASSUME NEW c \in Calls, Commit(c), at' # [at EXCEPT ![c] = "refused"]
      PROVE  \A p \in DOMAIN orders'[k].preview.items : product'[p].onSale
  <2>1. k = <<call[c].user, call[c].request>>
    BY <1>3, NewOrder
  <2> QED BY <1>3, <2>1, NewOrder
<1> QED
  BY <1>1, <1>2, <1>3, OnlyCommitOrders

\* Who commits a scheduled order still has room in the slot it has locked.
LEMMA CapacityKeptStep ==
  ASSUME IInv, [Next]_vars, Cardinality(Booked') > Cardinality(Booked)
  PROVE  Cardinality(Booked') <= capacity'
<1>1. IsFiniteSet(Booked)
  <2>1. IsFiniteSet(Residents \X Requests)
    BY SetsAreFinite, FS_Product
  <2> QED BY <2>1, FS_Subset DEF Booked
<1>2. Cardinality(Booked) \in Nat
  BY <1>1, FS_CardinalityType
<1>3. ASSUME Booked' \in SUBSET Booked PROVE FALSE
  <2>1. IsFiniteSet(Booked') /\ Cardinality(Booked') <= Cardinality(Booked)
    BY <1>1, <1>3, FS_Subset
  <2>2. Cardinality(Booked') \in Nat
    BY <2>1, FS_CardinalityType
  <2> QED BY <1>2, <2>1, <2>2
<1>4. ~UNCHANGED orders
  <2>1. UNCHANGED orders => Booked' = Booked
    BY DEF Booked
  <2> QED BY <1>3, <2>1
<1>5. ASSUME NEW k \in Residents \X Requests, EndOrder(k) PROVE FALSE
  BY <1>3, <1>5, EndedOrder
<1>6. ASSUME NEW c \in Calls, Commit(c), at' # [at EXCEPT ![c] = "refused"]
      PROVE  Cardinality(Booked') <= capacity'
  <2> DEFINE k == <<call[c].user, call[c].request>>
  <2>1. /\ k \in Residents \X Requests /\ orders[k] = NoOrder
        /\ orders'[k].preview = call[c].preview
        /\ \A l \in Residents \X Requests : l # k => orders'[l] = orders[l]
        /\ call[c].preview.scheduled => HasCapacity
        /\ capacity' = capacity
    BY <1>6, NewOrder
  <2> HIDE DEF k
  <2>2. Booked' \in SUBSET (Booked \cup {k})
    BY <2>1 DEF Booked
  <2>3. ~call[c].preview.scheduled => Booked' \in SUBSET Booked
    BY <2>1 DEF Booked
  <2>4. Cardinality(Booked) < capacity
    BY <1>3, <2>1, <2>3 DEF HasCapacity
  <2>5. IsFiniteSet(Booked \cup {k}) /\ Cardinality(Booked \cup {k}) <= Cardinality(Booked) + 1
    <3>1. Cardinality(Booked \cup {k}) = IF k \in Booked THEN Cardinality(Booked) ELSE Cardinality(Booked) + 1
      BY <1>1, FS_AddElement
    <3> QED BY <1>1, <1>2, <3>1, FS_AddElement
  <2>6. /\ IsFiniteSet(Booked') /\ Cardinality(Booked') <= Cardinality(Booked \cup {k})
    BY <2>2, <2>5, FS_Subset
  <2>7. Cardinality(Booked') \in Nat /\ Cardinality(Booked \cup {k}) \in Nat /\ capacity \in Nat
    BY <2>5, <2>6, FS_CardinalityType, BoundsAreNumbers DEF IInv, TypeOK
  <2> QED BY <1>2, <2>1, <2>4, <2>5, <2>6, <2>7
<1> QED
  BY <1>4, <1>5, <1>6, OnlyCommitOrders

\* A request that was answered with an order is not refused when it is sent again with
\* the same contents: its order is found under its id before anything is validated.
THEOREM RetriesAreReplayed == Spec => RetriesReplay
<1>1. IInv /\ [Next]_vars =>
        [\A c \in Calls : Working(c) /\ at'[c] = "refused" /\ Existing(c) # NoOrder =>
           ~SameRequest(c)]_vars
  BY RetriesReplayStep
<1> QED
  BY <1>1, Invariance, PTL DEF Spec, RetriesReplay

\* An order holds products that are on sale when it commits: a switch off sale waits for
\* the rows of unfinished orders.
THEOREM NothingOffSaleIsSold == Spec => SoldOnlyOnSale
<1>1. IInv /\ [Next]_vars =>
        [\A k \in Residents \X Requests : orders[k] = NoOrder /\ orders'[k] # NoOrder =>
           \A p \in DOMAIN orders'[k].preview.items : product'[p].onSale]_vars
  BY SoldOnlyOnSaleStep
<1> QED
  BY <1>1, Invariance, PTL DEF Spec, SoldOnlyOnSale

\* No commit takes a delivery slot above its capacity, whichever calls and edits of the
\* slot run at the same time.
THEOREM SlotsAreNotOverbooked == Spec => CapacityKept
<1>1. IInv /\ [Next]_vars =>
        [Cardinality(Booked') > Cardinality(Booked) => Cardinality(Booked') <= capacity']_vars
  BY CapacityKeptStep
<1> QED
  BY <1>1, Invariance, PTL DEF Spec, CapacityKept
=============================================================================

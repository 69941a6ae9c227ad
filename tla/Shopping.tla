------------------------------ MODULE Shopping ------------------------------
(***************************************************************************)
(* What residents see of the shelf, and their carts.  Three places decide  *)
(* whether something can be bought: the pages that offer it, the cart that *)
(* takes it and shows whether it can be checked out, and the order itself. *)
(* Each has code of its own.                                               *)
(*                                                                         *)
(* A call on a cart is a look at the product and then a transaction whose  *)
(* reads are those of its snapshot and whose writes meet the rows as they  *)
(* are; nothing is locked between them.  Carts of different residents      *)
(* share no row, so one cart is modelled.  Its items are identified by     *)
(* their product; an amount of money is a number of items.                 *)
(*                                                                         *)
(*   Taps   the calls under way on the cart, of one resident               *)
(***************************************************************************)
EXTENDS Shelf, DeliverySlots

CONSTANTS Taps, Minimum

VARIABLES
  basket,  \* the resident's row of carts, its store, the quantities of its items
  tap      \* where each call is, its arguments, what it has read

shoppingVars == <<basket, tap>>

Quantities == 0..MaxStock
Baskets == [row : BOOLEAN, of : Shops \cup {NoShop}, items : [Goods -> Quantities]]
NoBasket == [row |-> FALSE, of |-> NoShop, items |-> [g \in Goods |-> 0]]

TapKinds == {"none", "add", "set", "remove"}
NoTap == [kind |-> "none", at |-> "idle", item |-> NoShop, replace |-> FALSE,
          quantity |-> 0, maximum |-> 0, read |-> NoBasket]

ShoppingTypeOK ==
  /\ basket \in Baskets
  /\ tap \in [Taps -> [kind : TapKinds, at : {"idle", "read", "write"},
                       item : Goods \cup {NoShop}, replace : BOOLEAN,
                       quantity : Quantities, maximum : Quantities, read : Baskets]]

ShoppingInit == basket = NoBasket /\ tap = [t \in Taps |-> NoTap]

In(b) == {g \in Goods : b.items[g] > 0}

(***************************************************************************)
(* The pages: resident-store and resident-product services                 *)
(***************************************************************************)
VisibleShops == {s \in Shops : ShopExists(s) /\ shop[s].status \in {"OPEN", "PAUSED"}}
DeliveredTo(s, c) == c \in shop[s].areas /\ Available(c)

\* serialize: canOrder, for a resident whose current community is c.
CanOrder(s, c) == DeliveredTo(s, c) /\ shop[s].status = "OPEN"

VisibleCategories == {k \in Categories : CategoryExists(k) /\ category[k].status = "ENABLED"}
VisibleGoods ==
  {g \in Goods : /\ GoodsExist(g) /\ goods[g].status \in {"ON_SALE", "SOLD_OUT"}
                 /\ goods[g].category \in VisibleCategories}

MutantDisplayStatus(g) == goods[g].status
DisplayStatus(g) ==
  IF goods[g].status = "SOLD_OUT" \/ goods[g].stock = 0 THEN "SOLD_OUT" ELSE "ON_SALE"

CanPurchase(g, c) ==
  /\ g \in VisibleGoods
  /\ goods[g].of \in VisibleShops
  /\ CanOrder(goods[g].of, c)
  /\ DisplayStatus(g) = "ON_SALE"

(***************************************************************************)
(* The cart: cart.service.ts                                               *)
(***************************************************************************)
OnOffer(g) ==
  /\ goods[g].status # "OFF_SHELF"
  /\ category[goods[g].category].status = "ENABLED"
  /\ ~category[goods[g].category].deleted

\* validateProduct, of a product that findProduct has found.
CanAdd(g, c) ==
  LET s == shop[goods[g].of] IN
  /\ GoodsExist(g)
  /\ ~s.deleted /\ s.status \notin {"DISABLED", "PAUSED"}
  /\ DeliveredTo(goods[g].of, c)
  /\ OnOffer(g)
  /\ goods[g].status # "SOLD_OUT" /\ goods[g].stock # 0

MaximumQuantity(g) ==
  LET r == goods[g] IN
  IF r.limit # NoLimit /\ r.limit < r.stock THEN r.limit ELSE r.stock

ItemAvailable(g, n) ==
  /\ ~goods[g].deleted /\ OnOffer(g)
  /\ goods[g].status # "SOLD_OUT" /\ n <= goods[g].stock
  /\ goods[g].limit # NoLimit => n <= goods[g].limit

Total(b) == LET sum[S \in SUBSET Goods] ==
                  IF S = {} THEN 0
                  ELSE LET g == CHOOSE g \in S : TRUE IN b.items[g] + sum[S \ {g}]
            IN  sum[Goods]

\* serialize: canCheckout.
CanCheckout(b, c) ==
  /\ b.row /\ In(b) # {}
  /\ ~shop[b.of].deleted /\ shop[b.of].status = "OPEN" /\ DeliveredTo(b.of, c)
  /\ \A g \in In(b) : ItemAvailable(g, b.items[g])
  /\ Total(b) >= Minimum

(***************************************************************************)
(* The order: calculateCheckout up to the choice of a delivery time, for   *)
(* an address in c                                                         *)
(***************************************************************************)
MutantOrderable(b, c) ==
  LET s == shop[b.of] IN
  /\ b.row /\ In(b) # {} /\ Available(c)
  /\ ~s.deleted /\ s.status # "DISABLED" /\ s.status # "PAUSED"
  /\ DeliveredTo(b.of, c)
  /\ \A g \in In(b) :
       /\ ~goods[g].deleted
       /\ OnOffer(g)
       /\ goods[g].status # "SOLD_OUT" /\ b.items[g] <= goods[g].stock
       /\ goods[g].limit # NoLimit => b.items[g] <= goods[g].limit
  /\ Total(b) >= Minimum

Orderable(b, c) ==
  LET s == shop[b.of] IN
  /\ b.row /\ In(b) # {}
  /\ Available(c)
  /\ ~s.deleted /\ s.status # "DISABLED" /\ s.status # "PAUSED"
  /\ DeliveredTo(b.of, c)
  /\ \A g \in In(b) :
       /\ goods[g].of = b.of /\ ~goods[g].deleted
       /\ OnOffer(g)
       /\ goods[g].status # "SOLD_OUT" /\ b.items[g] <= goods[g].stock
       /\ goods[g].limit # NoLimit => b.items[g] <= goods[g].limit
  /\ Total(b) >= Minimum

(***************************************************************************)
(* Calls on the cart                                                       *)
(***************************************************************************)
Step(t, r) == tap' = [tap EXCEPT ![t] = r]
EndTap(t) == Step(t, NoTap)
Tapped(t, kind, at) == tap[t].kind = kind /\ tap[t].at = at

\* add: the product as it is now is on offer, and gives the largest quantity.
AddItem(t) ==
  /\ tap[t].kind = "none"
  /\ \E c \in Communities, g \in Goods, n \in Quantities \ {0}, replace \in BOOLEAN :
       /\ CanAdd(g, c)
       /\ Step(t, [NoTap EXCEPT !.kind = "add", !.at = "read", !.item = g,
                                !.replace = replace, !.quantity = n,
                                !.maximum = MaximumQuantity(g)])
  /\ UNCHANGED basket

\* The first read of the transaction.  A cart of another store is replaced if the
\* resident has said so.
ReadCart(t) ==
  LET r == tap[t] IN
  /\ Tapped(t, "add", "read")
  /\ IF basket.row /\ basket.of # goods[r.item].of /\ ~r.replace
     THEN EndTap(t)
     ELSE Step(t, [r EXCEPT !.at = "write", !.read = basket])
  /\ UNCHANGED basket

\* The cart once the transaction of add has got hold of it: undone (NoBasket) if the
\* row has gone or, where none was read, has come.
Held(r) ==
  CASE r.read.row /\ ~basket.row -> NoBasket
    [] ~r.read.row /\ basket.row -> NoBasket
    [] r.read.row /\ r.read.of = goods[r.item].of -> basket
    [] OTHER -> [NoBasket EXCEPT !.row = TRUE, !.of = goods[r.item].of]

\* The item is looked for in the snapshot, less what the transaction has deleted
\* itself.  An item found is incremented if the sum is within the largest quantity; one
\* not found is inserted, unless it is there by now.
WriteCart(t) ==
  LET r == tap[t]
      b == Held(r)
      replaced == r.read.row /\ r.read.of # goods[r.item].of
      found == /\ r.read.items[r.item] > 0
               /\ ~(replaced /\ basket.items[r.item] > 0)
      kept == /\ b.row
              /\ IF found
                 THEN b.items[r.item] > 0 /\ b.items[r.item] + r.quantity <= r.maximum
                 ELSE b.items[r.item] = 0 /\ r.quantity <= r.maximum IN
  /\ Tapped(t, "add", "write")
  /\ basket' = IF kept THEN [b EXCEPT !.items[r.item] = @ + r.quantity] ELSE basket
  /\ EndTap(t)

\* update: the item is the resident's and the quantity is within the limits of now.
UpdateItem(t) ==
  /\ tap[t].kind = "none"
  /\ \E c \in Communities, g \in In(basket), n \in Quantities \ {0} :
       /\ CanAdd(g, c) /\ n <= MaximumQuantity(g)
       /\ Step(t, [NoTap EXCEPT !.kind = "set", !.at = "write", !.item = g,
                                !.quantity = n])
  /\ UNCHANGED basket

SetItemQuantity(t) ==
  LET r == tap[t] IN
  /\ Tapped(t, "set", "write")
  /\ basket' = IF r.item \in In(basket) THEN [basket EXCEPT !.items[r.item] = r.quantity]
                                        ELSE basket
  /\ EndTap(t)

ReadItem(t) ==
  /\ tap[t].kind = "none"
  /\ \E g \in In(basket) :
       Step(t, [NoTap EXCEPT !.kind = "remove", !.at = "write", !.item = g,
                             !.read = basket])
  /\ UNCHANGED basket

\* The remaining items are counted in the snapshot, and the cart goes with the last.
RemoveItem(t) ==
  LET r == tap[t] IN
  /\ Tapped(t, "remove", "write")
  /\ basket' = CASE r.item \notin In(basket)  -> basket
                 [] In(r.read) = {r.item}     -> NoBasket
                 [] OTHER -> [basket EXCEPT !.items[r.item] = 0]
  /\ EndTap(t)

\* clear, and the end of createAtomic, whose lock no call on the cart asks for.
ClearCart == basket.row /\ basket' = NoBasket /\ UNCHANGED tap

DropTap(t) == tap[t].kind # "none" /\ EndTap(t) /\ UNCHANGED basket

ShoppingNext ==
  \/ /\ \/ CommunitiesNext /\ UNCHANGED shelfVars
        \/ /\ \/ \E s \in Shops : UpdateShopStatus(s)
              \/ \E g \in Goods : TakeStock(g)
           /\ UNCHANGED community
     /\ UNCHANGED <<shoppingVars, slotVars>>
  \/ /\ \/ \E t \in Taps : \/ AddItem(t) \/ ReadCart(t) \/ WriteCart(t)
                           \/ UpdateItem(t) \/ SetItemQuantity(t)
                           \/ ReadItem(t) \/ RemoveItem(t) \/ DropTap(t)
        \/ ClearCart
     /\ UNCHANGED <<community, shelfVars, slotVars>>

\* The store as a whole: the back office edits its shelf and its delivery times while
\* residents shop.
StoreVars == <<community, shelfVars, slotVars, shoppingVars>>

StoreInit == CommunitiesInit /\ ShelfInit /\ SlotsInit /\ ShoppingInit

StoreNext == \/ ShelfNext /\ UNCHANGED <<slotVars, shoppingVars>>
             \/ SlotsNext /\ UNCHANGED <<community, shelfVars, shoppingVars>>
             \/ ShoppingNext

StoreSpec == StoreInit /\ [][StoreNext]_StoreVars

----------------------------------------------------------------------------
\* A cart of n items of one product, as it may be left when stock or limit have changed.
CartOf(g, n) == [row |-> TRUE, of |-> goods[g].of, items |-> [NoBasket.items EXCEPT ![g] = n]]
Carts == {basket} \cup {CartOf(g, n) : g \in {g \in Goods : goods[g].of # NoShop},
                                       n \in Quantities}

\* Pages, cart and order agree.  A product that a page says can be purchased is one that
\* the cart takes, and the other way round.  A cart that says it can be checked out is one
\* that the order takes for an address in the same community, unless racing calls have
\* left products of two stores in it (cart.repository.ts addItem): that is never ordered.
\* The days and slots the confirmation page offers are those the order accepts, up to
\* the cutoff of today's slots and the mode the store has enabled (order.service.ts
\* calculateCheckout, confirm.vue dateOptions).
CountersAgree ==
  /\ \A c \in Communities :
       /\ \A g \in Goods : CanPurchase(g, c) <=> CanAdd(g, c)
       /\ \A b \in Carts :
            Orderable(b, c) <=> /\ CanCheckout(b, c)
                                /\ \A g \in In(b) : goods[g].of = b.of
  /\ \A d \in 0..(LastDay + 8), s \in Slots :
       AcceptsTime(d, s) <=> /\ modes.scheduled
                             /\ d \in DateOptions /\ s \in SlotOptions
                             /\ ~CutOff(d, s)
----------------------------------------------------------------------------
\* What calls on the cart rest on: their product is of a store, and so is the cart.
CartsAreOfShops ==
  /\ basket.row => basket.of \in Shops /\ shop[basket.of].status # "none"
  /\ \A t \in Taps : /\ tap[t].kind # "none" => tap[t].item \in Goods
                     /\ tap[t].kind = "add" => goods[tap[t].item].of # NoShop

StoreIInv == ShelfIInv /\ SlotsTypeOK /\ ShoppingTypeOK /\ CartsAreOfShops
=============================================================================

------------------------------- MODULE MCShop -------------------------------
(***************************************************************************)
(* The parts of the server around the order, for TLC.  They share no row   *)
(* but communities, so one of them moves in each behaviour and the others  *)
(* rest as they began.                                                     *)
(***************************************************************************)
EXTENDS Residents, AddressBook, Shopping, AdminAlerts, AccessTokens,
        Dashboard, TLC

CONSTANTS s1, s2, k1, k2, g1, g2, g3, m1, m2, m3, m4, m5, c1, x1

VARIABLE scene  \* the part that moves

shopVars == <<community, residentVars, addressVars, shelfVars, slotVars, shoppingVars,
              alertVars, tokenVars, salesVars, scene>>

MatterKinds == [m \in Matters |-> CASE m = m1 -> "NEW_PAID_ORDER"
                                    [] m = m3 -> "REFUND_REQUEST"
                                    [] m = m4 -> "LOW_STOCK"
                                    [] OTHER  -> "UNACCEPTED_ORDER"]
SaleShops == [o \in Sales |-> IF o = x1 THEN s1 ELSE s2]
CallerProviders == [c \in Callers |-> IF c = c1 THEN "phone" ELSE "message"]

\* What the back office has put on offer when residents come shopping.
OnShelf ==
  /\ community = [c \in Communities |-> [status |-> "ENABLED", deleted |-> FALSE]]
  /\ shop = [s \in Shops |-> [status |-> "OPEN", deleted |-> FALSE, areas |-> Communities]]
  /\ category = [k \in Categories |-> [of |-> IF k = k1 THEN s1 ELSE s2,
                                       status |-> "ENABLED", deleted |-> FALSE]]
  /\ goods = [g \in Goods |-> [of |-> IF g = g2 THEN s2 ELSE s1,
                               category |-> IF g = g2 THEN k2 ELSE k1,
                               status |-> "ON_SALE", deleted |-> FALSE,
                               stock |-> MaxStock, limit |-> NoLimit]]
  /\ edit = [e \in Editors |-> NoEdit]
  /\ overlapped = FALSE

Scenes == {"residents", "addresses", "shelf", "slots", "shopping",
           "orders overdue", "orders and refunds", "low stock", "tokens", "dashboard"}

ShopInit ==
  /\ scene \in Scenes
  /\ IF scene \in {"shopping", "slots"} THEN OnShelf ELSE CommunitiesInit /\ ShelfInit
  /\ scene \notin {"residents", "addresses"} =>
       \A c \in Communities : community[c].status = "ENABLED"
  /\ ResidentsInit /\ AddressInit /\ SlotsInit /\ ShoppingInit /\ AlertsInit /\ TokensInit
  /\ SalesInit

\* Of the shelf, one store with two categories and a product; of the shop, one store that
\* opens and closes and one product that sells.
OneShop == shop'[s2] = shop[s2] /\ \A e \in Editors : edit'[e].row \notin {g2, g3}
OneCounter == /\ shop'[s2] = shop[s2] /\ community' = community
              /\ \A g \in {g2, g3} : goods'[g] = goods[g]

Raised(S) == \A m \in Matters \ S : matter'[m] = matter[m]

ShopNext ==
  /\ UNCHANGED scene
  /\ \/ /\ scene = "residents" /\ ResidentsNext
        /\ UNCHANGED <<addressVars, shelfVars, slotVars, shoppingVars, alertVars, tokenVars,
                       salesVars>>
     \/ /\ scene = "addresses" /\ AddressNext
        /\ UNCHANGED <<residentVars, shelfVars, slotVars, shoppingVars, alertVars, tokenVars,
                       salesVars>>
     \/ /\ scene = "shelf" /\ ShelfNext /\ OneShop
        /\ UNCHANGED <<residentVars, addressVars, slotVars, shoppingVars, alertVars, tokenVars,
                       salesVars>>
     \/ /\ scene = "slots" /\ SlotsNext
        /\ UNCHANGED <<community, residentVars, addressVars, shelfVars, shoppingVars,
                       alertVars, tokenVars, salesVars>>
     \/ /\ scene = "shopping" /\ ShoppingNext /\ OneCounter
        /\ UNCHANGED <<residentVars, addressVars, alertVars, tokenVars, salesVars>>
     \/ /\ \/ scene = "orders overdue" /\ AlertsNext /\ Raised({m2, m5})
           \/ scene = "orders and refunds" /\ AlertsNext /\ Raised({m1, m3})
           \/ scene = "low stock" /\ AlertsNext /\ Raised({m4})
        /\ UNCHANGED <<community, residentVars, addressVars, shelfVars, slotVars,
                       shoppingVars, tokenVars, salesVars>>
     \/ /\ scene = "tokens" /\ TokensNext
        /\ UNCHANGED <<community, residentVars, addressVars, shelfVars, slotVars,
                       shoppingVars, alertVars, salesVars>>
     \/ /\ scene = "dashboard" /\ SalesNext
        /\ UNCHANGED <<community, residentVars, addressVars, shelfVars, slotVars,
                       shoppingVars, alertVars, tokenVars>>

ShopSpec == ShopInit /\ [][ShopNext]_shopVars

\* The parts share their model values, so that a swap of two calls serves them all.
Symmetry == Permutations(Devices)

----------------------------------------------------------------------------
\* Rows and calls have their types (the part that moves could leave them).
ShopTypeOK ==
  /\ scene = "residents" => ResidentsTypeOK
  /\ scene = "addresses" => AddressTypeOK
  /\ scene = "shelf" => ShelfTypeOK
  /\ scene = "slots" => SlotsTypeOK
  /\ scene = "shopping" => ShelfTypeOK /\ ShoppingTypeOK
  /\ scene \in {"orders overdue", "orders and refunds", "low stock"} => AlertsTypeOK
  /\ scene = "tokens" => TokensTypeOK
  /\ scene = "dashboard" => SalesTypeOK
=============================================================================

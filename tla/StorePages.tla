----------------------------- MODULE StorePages -----------------------------
(***************************************************************************)
(* Looking around in the mini program: the stores near the resident on the *)
(* home page, above it one store's page with its catalog, and above that   *)
(* one product's.  Two stores (store.ts, product.ts) hold what the pages   *)
(* show, also when another page has been opened since; four numbers tell   *)
(* whether an answer has been overtaken.  An order confirmed above them    *)
(* (OrderScreen) loads its store, for the delivery slots, to where the     *)
(* store's page has its own.                                               *)
(*                                                                         *)
(*   Nearby   communities     Offers    the stores, and their products     *)
(*   Loads    calls under way           Shelving  categories of a catalog  *)
(*   Nothing, Failed   shown in place of rows                              *)
(*                                                                         *)
(* A store's page keeps the community it was opened under, as a product's  *)
(* page does.  What is shown is named by what was asked for; an answer may *)
(* be long on its way, and any call may fail.                              *)
(***************************************************************************)
EXTENDS Integers

CONSTANTS Nearby, Offers, Shelving, Loads, Nowhere, NoOffer, AllShelves, Nothing, Failed

ASSUME PagesHaveNames ==
  /\ Nowhere \notin Nearby /\ NoOffer \notin Offers /\ AllShelves \notin Shelving
  /\ Nothing # Failed

VARIABLES
  here,    \* the current community
  route,   \* the store's and the product's page, and the community of both
  selectedCategory,  \* selectedCategoryId
  shown,   \* what each part of the pages shows
  load,    \* the calls under way, and whether theirs is still the latest number
  lent     \* has a confirmation loaded its store since the store's page did? (not a state
           \* of the code; see ShownIsAsked)

storeVars == <<here, route, selectedCategory, shown, load, lent>>

Parts == {"stores", "store", "catalog", "product"}
Keys == [at : Nearby \cup {Nowhere}, of : Offers \cup {NoOffer},
         category : Shelving \cup {AllShelves}]
ASSUME TheseAreNoKeys == Nothing \notin Keys /\ Failed \notin Keys

Calls == Parts \cup {"preview", "none"}
NoLoad == [kind |-> "none", key |-> [at |-> Nowhere, of |-> NoOffer, category |-> AllShelves],
           latest |-> FALSE]

StorePagesTypeOK ==
  /\ here \in Nearby \cup {Nowhere}
  /\ route \in [store : Offers \cup {NoOffer}, product : Offers \cup {NoOffer},
                at : Nearby \cup {Nowhere}, confirm : BOOLEAN]
  /\ selectedCategory \in Shelving \cup {AllShelves}
  /\ shown \in [Parts -> Keys \cup {Nothing, Failed}]
  /\ load \in [Loads -> [kind : Calls, key : Keys, latest : BOOLEAN]]
  /\ lent \in BOOLEAN

Key(at, of, category) == [at |-> at, of |-> of, category |-> category]
Loading(kind) == \E q \in Loads : load[q].kind = kind /\ load[q].latest

\* A call is numbered when it starts; those of its kind before it lose their claim.
Start(calls, q, kind, key) ==
  [p \in Loads |->
     IF p = q THEN [kind |-> kind, key |-> key, latest |-> TRUE]
     ELSE [calls[p] EXCEPT !.latest = @ /\ calls[p].kind # kind]]

AskFor(kind, key) ==
  \E q \in Loads : load[q].kind = "none" /\ load' = Start(load, q, kind, key)

Home == [store |-> NoOffer, product |-> NoOffer, at |-> Nowhere, confirm |-> FALSE]

StorePagesInit ==
  /\ here \in Nearby \cup {Nowhere}
  /\ route = Home /\ lent = FALSE
  /\ selectedCategory = AllShelves
  /\ shown = [k \in Parts |-> Nothing]
  /\ \E q \in Loads :
       load = [p \in Loads |-> IF p = q THEN [kind |-> "stores", latest |-> TRUE,
                                              key |-> Key(here, NoOffer, AllShelves)]
                               ELSE NoLoad]

(***************************************************************************)
(* The home page                                                           *)
(***************************************************************************)
AtHome == route.store = NoOffer
StoresAreShown == AtHome /\ ~Loading("stores") /\ shown["stores"] \in Keys

\* The page watches the current community (of which Visit tells), also from below.
CommunityChanges ==
  /\ here' \in (Nearby \cup {Nowhere}) \ {here}
  /\ AskFor("stores", Key(here', NoOffer, AllShelves))
  /\ UNCHANGED <<route, selectedCategory, shown, lent>>

\* A search, and pulling the list down.
SearchStores ==
  /\ AtHome
  /\ AskFor("stores", Key(here, NoOffer, AllShelves))
  /\ UNCHANGED <<here, route, selectedCategory, shown, lent>>

\* Tapping a store that is shown.  Its page asks for the store and for its catalog; the
\* store shown before is put away at once.
OpenStorePage ==
  /\ StoresAreShown
  /\ \E s \in Offers, q, r \in Loads :
       LET key == Key(here, s, AllShelves) IN
       /\ q # r /\ load[q].kind = "none" /\ load[r].kind = "none"
       /\ load' = Start(Start(load, q, "store", key), r, "catalog", key)
       /\ route' = [route EXCEPT !.store = s, !.at = here]
  /\ selectedCategory' = AllShelves /\ lent' = FALSE
  /\ shown' = [shown EXCEPT !["store"] = Nothing]
  /\ UNCHANGED here

(***************************************************************************)
(* A store's page                                                          *)
(***************************************************************************)
OnStorePage == route.store # NoOffer /\ route.product = NoOffer /\ ~route.confirm

RetryStore ==
  /\ OnStorePage /\ ~Loading("store") /\ shown["store"] = Failed
  /\ AskFor("store", Key(route.at, route.store, AllShelves))
  /\ shown' = [shown EXCEPT !["store"] = Nothing] /\ lent' = FALSE
  /\ UNCHANGED <<here, route, selectedCategory>>

CatalogIsShown ==
  OnStorePage /\ ~Loading("store") /\ shown["store"] \in Keys /\ ~Loading("catalog")

RetryCatalog ==
  /\ CatalogIsShown /\ shown["catalog"] = Failed
  /\ AskFor("catalog", Key(route.at, route.store, selectedCategory))
  /\ UNCHANGED <<here, route, selectedCategory, shown, lent>>

\* The category is marked as selected before its products have come.
SelectCategory ==
  /\ CatalogIsShown /\ shown["catalog"] \in Keys
  /\ selectedCategory' \in (Shelving \cup {AllShelves}) \ {selectedCategory}
  /\ AskFor("catalog", Key(route.at, route.store, selectedCategory'))
  /\ UNCHANGED <<here, route, shown, lent>>

(***************************************************************************)
(* A product's page                                                        *)
(***************************************************************************)
LoadProduct(g) ==
  /\ AskFor("product", Key(route.at, g, AllShelves))
  /\ shown' = [shown EXCEPT !["product"] = Nothing]
  /\ UNCHANGED <<here, selectedCategory, lent>>

OpenProductPage ==
  /\ CatalogIsShown /\ shown["catalog"] \in Keys
  /\ \E g \in Offers : LoadProduct(g) /\ route' = [route EXCEPT !.product = g]

RetryProduct ==
  /\ route.product # NoOffer /\ ~route.confirm
  /\ ~Loading("product") /\ shown["product"] = Failed
  /\ LoadProduct(route.product) /\ UNCHANGED route

(***************************************************************************)
(* Confirming an order, by way of the cart and the addresses               *)
(***************************************************************************)
OpenConfirm ==
  /\ ~AtHome /\ ~route.confirm
  /\ AskFor("preview", Key(Nowhere, NoOffer, AllShelves))
  /\ route' = [route EXCEPT !.confirm = TRUE]
  /\ UNCHANGED <<here, selectedCategory, shown, lent>>

\* The preview says of which store the cart is; also when the page was left meanwhile.
Previewed(q) ==
  /\ load[q].kind = "preview"
  /\ \/ /\ \E at \in Nearby, s \in Offers :
            load' = Start(load, q, "store", Key(at, s, AllShelves))
        /\ shown' = [shown EXCEPT !["store"] = Nothing]
        /\ lent' = TRUE
     \/ load' = [load EXCEPT ![q] = NoLoad] /\ UNCHANGED <<shown, lent>>
  /\ UNCHANGED <<here, route, selectedCategory>>

\* goHome, after ordering: another home page takes the place of all.
GoHome ==
  /\ route.confirm
  /\ AskFor("stores", Key(here, NoOffer, AllShelves))
  /\ route' = Home
  /\ UNCHANGED <<here, selectedCategory, shown, lent>>

\* What was asked for the page goes on; no page below asks again.
Back ==
  /\ ~AtHome
  /\ route' = IF route.confirm THEN [route EXCEPT !.confirm = FALSE]
              ELSE IF route.product # NoOffer THEN [route EXCEPT !.product = NoOffer]
              ELSE Home
  /\ UNCHANGED <<here, selectedCategory, shown, load, lent>>

(***************************************************************************)
(* Answers                                                                 *)
(***************************************************************************)
MutantIsLatest(q) == TRUE

\* version === listRequestVersion, detailRequestVersion.
IsLatest(q) == load[q].latest

Loaded(q) ==
  /\ load[q].kind \in Parts
  /\ IF IsLatest(q)
     THEN \E what \in {load[q].key, Failed} :
            shown' = [shown EXCEPT ![load[q].kind] = what]
     ELSE UNCHANGED shown
  /\ load' = [load EXCEPT ![q] = NoLoad]
  /\ UNCHANGED <<here, route, selectedCategory, lent>>

StorePagesNext ==
  \/ CommunityChanges \/ SearchStores \/ OpenStorePage \/ RetryStore \/ RetryCatalog
  \/ SelectCategory \/ OpenProductPage \/ RetryProduct \/ OpenConfirm \/ GoHome \/ Back
  \/ \E q \in Loads : Previewed(q) \/ Loaded(q)

StorePagesSpec == StorePagesInit /\ [][StorePagesNext]_storeVars

----------------------------------------------------------------------------
\* Whatever order the answers come in, and whichever pages were left meanwhile, each page
\* shows what it stands for (store.ts, product.ts and the pages; docs/RELIABILITY.md:28,
\* 29): once nothing is loading, the home page the stores of the current community, a
\* store's page the products of the selected category of that store; and a store's or a
\* product's page never shows another store or product.  A confirmation since excepted:
\* the store it loaded (confirm.vue:122) is what the page below shows from then on.
ShownIsAsked ==
  LET At(of) == Key(route.at, of, AllShelves) IN
  /\ ~Loading("stores") => shown["stores"] \in {Key(here, NoOffer, AllShelves), Failed}
  /\ route.store # NoOffer =>
       /\ lent \/ shown["store"] \in {At(route.store), Nothing, Failed}
       /\ Loading("store") \/ shown["store"] # Nothing
       /\ ~Loading("catalog") =>
            shown["catalog"] \in {Key(route.at, route.store, selectedCategory), Failed}
  /\ route.product # NoOffer =>
       /\ shown["product"] \in {At(route.product), Nothing, Failed}
       /\ Loading("product") \/ shown["product"] # Nothing
-----------------------------------------------------------------------------
\* What makes it inductive: the latest call of a page asks for what the page stands for.
Meant(kind) == CASE kind = "stores"  -> Key(here, NoOffer, AllShelves)
                 [] kind = "store"   -> Key(route.at, route.store, AllShelves)
                 [] kind = "catalog" -> Key(route.at, route.store, selectedCategory)
                 [] OTHER            -> Key(route.at, route.product, AllShelves)

IsOpen(kind) == CASE kind = "stores"  -> TRUE
                  [] kind = "store"   -> route.store # NoOffer /\ ~lent
                  [] kind = "catalog" -> route.store # NoOffer
                  [] OTHER            -> route.product # NoOffer

LatestIsMeant ==
  \A q \in Loads : load[q].kind \in Parts /\ load[q].latest /\ IsOpen(load[q].kind) =>
                     load[q].key = Meant(load[q].kind)

StorePagesIInv ==
  /\ StorePagesTypeOK /\ LatestIsMeant /\ ShownIsAsked
  /\ route.store = NoOffer => route.product = NoOffer
=============================================================================

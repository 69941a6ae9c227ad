------------------------------- MODULE Shelf -------------------------------
(***************************************************************************)
(* What the back office puts on offer: stores and where they deliver,      *)
(* categories, products.  An edit is a look at the rows it depends on (the *)
(* service's lookup and the reads of the transaction, whose outcome a step *)
(* between them cannot change) and, later, a write that asks for the row's *)
(* id only.  Orders take and give back stock meanwhile.                    *)
(*                                                                         *)
(*   Editors   the edits under way                                         *)
(*                                                                         *)
(* Edits of a store depend on rows no other edit of the shelf writes, and  *)
(* are one step.  Names, texts, pictures and sort order are left out, and  *)
(* prices are those of Checkout.tla.                                       *)
(***************************************************************************)
EXTENDS Communities, Naturals

CONSTANTS Shops, Categories, Goods, Editors, NoShop, NoCategory, MaxStock

ASSUME MaxStockIsPositive == MaxStock \in Nat \ {0}
ASSUME NoneIsNothing == NoShop \notin Shops /\ NoCategory \notin Categories

VARIABLES
  shop,        \* rows of stores, with the communities of their store_communities
  category,    \* rows of product_categories
  goods,       \* rows of products
  edit,        \* where each edit is, what it writes and to which row
  overlapped   \* have two edits ever been under way at once?

shelfVars == <<shop, category, goods, edit, overlapped>>

ShopStatus == {"OPEN", "PAUSED", "DISABLED"}
GoodsStatus == {"ON_SALE", "SOLD_OUT", "OFF_SHELF"}
NoLimit == 0
Limits == {NoLimit, 1}

ShopRows == [status : ShopStatus \cup {"none"}, deleted : BOOLEAN,
             areas : SUBSET Communities]
CategoryRows == [of : Shops \cup {NoShop}, status : {"ENABLED", "DISABLED"},
                 deleted : BOOLEAN]
GoodsRows == [of : Shops \cup {NoShop}, category : Categories \cup {NoCategory},
              status : GoodsStatus, deleted : BOOLEAN, stock : 0..MaxStock,
              limit : Limits]

NoShopRow == [status |-> "none", deleted |-> FALSE, areas |-> {}]
NoCategoryRow == [of |-> NoShop, status |-> "DISABLED", deleted |-> FALSE]
NoGoodsRow == [of |-> NoShop, category |-> NoCategory, status |-> "OFF_SHELF",
               deleted |-> FALSE, stock |-> 0, limit |-> NoLimit]

NoEdit == [kind |-> "none", row |-> NoShop, of |-> NoShop, category |-> NoCategory,
           status |-> "OFF_SHELF", stock |-> 0]

ShelfTypeOK ==
  /\ shop \in [Shops -> ShopRows]
  /\ category \in [Categories -> CategoryRows]
  /\ goods \in [Goods -> GoodsRows]
  /\ edit \in [Editors ->
       [kind : {"none", "createCategory", "updateCategory", "deleteCategory",
                "createProduct", "updateProduct", "deleteProduct"},
        row : Categories \cup Goods \cup {NoShop}, of : Shops \cup {NoShop},
        category : Categories \cup {NoCategory},
        status : GoodsStatus \cup {"ENABLED", "DISABLED"}, stock : 0..MaxStock]]
  /\ overlapped \in BOOLEAN

ShelfInit ==
  /\ shop = [s \in Shops |-> NoShopRow]
  /\ category = [k \in Categories |-> NoCategoryRow]
  /\ goods = [g \in Goods |-> NoGoodsRow]
  /\ edit = [e \in Editors |-> NoEdit]
  /\ overlapped = FALSE

ShopExists(s) == shop[s].status # "none" /\ ~shop[s].deleted
CategoryExists(k) == category[k].of # NoShop /\ ~category[k].deleted
GoodsExist(g) == goods[g].of # NoShop /\ ~goods[g].deleted
ProductsIn(k) == {g \in Goods : GoodsExist(g) /\ goods[g].category = k}

(***************************************************************************)
(* Stores                                                                  *)
(***************************************************************************)
ValidAreas == {A \in SUBSET {c \in Communities : Available(c)} : A # {}}

CreateShop(s) ==
  /\ shop[s].status = "none"
  /\ \E st \in ShopStatus, A \in ValidAreas :
       shop' = [shop EXCEPT ![s] = [status |-> st, deleted |-> FALSE, areas |-> A]]
  /\ UNCHANGED <<category, goods, edit, overlapped>>

UpdateShop(s) ==
  /\ ShopExists(s)
  /\ \E st \in ShopStatus, A \in ValidAreas :
       shop' = [shop EXCEPT ![s].status = st, ![s].areas = A]
  /\ UNCHANGED <<category, goods, edit, overlapped>>

UpdateShopStatus(s) ==
  /\ ShopExists(s)
  /\ \E st \in ShopStatus : shop' = [shop EXCEPT ![s].status = st]
  /\ UNCHANGED <<category, goods, edit, overlapped>>

SoftDeleteShop(s) ==
  /\ ShopExists(s)
  /\ shop' = [shop EXCEPT ![s].status = "DISABLED", ![s].deleted = TRUE]
  /\ UNCHANGED <<category, goods, edit, overlapped>>

(***************************************************************************)
(* Edits of categories and products: the lookup                            *)
(***************************************************************************)
Open(e, r) ==
  /\ edit[e].kind = "none"
  /\ edit' = [edit EXCEPT ![e] = r]
  /\ overlapped' = (overlapped \/ \E f \in Editors : edit[f].kind # "none")
  /\ UNCHANGED <<shop, category, goods>>

Fresh(row) == \A e \in Editors : edit[e].row # row

BeginCreateCategory(e) ==
  \E k \in Categories, s \in Shops, st \in {"ENABLED", "DISABLED"} :
    /\ category[k].of = NoShop /\ Fresh(k)
    /\ ShopExists(s)
    /\ Open(e, [NoEdit EXCEPT !.kind = "createCategory", !.row = k, !.of = s,
                              !.status = st])

BeginUpdateCategory(e) ==
  \E k \in Categories, st \in {"ENABLED", "DISABLED"} :
    /\ CategoryExists(k) /\ ShopExists(category[k].of)
    /\ Open(e, [NoEdit EXCEPT !.kind = "updateCategory", !.row = k, !.status = st])

BeginDeleteCategory(e) ==
  \E k \in Categories :
    /\ CategoryExists(k)
    /\ ProductsIn(k) = {}
    /\ Open(e, [NoEdit EXCEPT !.kind = "deleteCategory", !.row = k])

\* validateProductContext.
ValidProductContext(s, k, st, n) ==
  /\ ShopExists(s)
  /\ CategoryExists(k) /\ category[k].of = s
  /\ st = "ON_SALE" => /\ n > 0
                       /\ category[k].status = "ENABLED"
                       /\ shop[s].status # "DISABLED"

BeginCreateProduct(e) ==
  \E g \in Goods, s \in Shops, k \in Categories, st \in GoodsStatus, n \in 0..MaxStock :
    /\ goods[g].of = NoShop /\ Fresh(g)
    /\ ValidProductContext(s, k, st, n)
    /\ Open(e, [kind |-> "createProduct", row |-> g, of |-> s, category |-> k,
                status |-> st, stock |-> n])

BeginUpdateProduct(e) ==
  \E g \in Goods, k \in Categories, st \in GoodsStatus, n \in 0..MaxStock :
    /\ GoodsExist(g)
    /\ ValidProductContext(goods[g].of, k, st, n)
    /\ Open(e, [kind |-> "updateProduct", row |-> g, of |-> goods[g].of, category |-> k,
                status |-> st, stock |-> n])

BeginDeleteProduct(e) ==
  \E g \in Goods :
    /\ GoodsExist(g)
    /\ Open(e, [NoEdit EXCEPT !.kind = "deleteProduct", !.row = g])

(***************************************************************************)
(* Edits of categories and products: the write                             *)
(***************************************************************************)
Saving(e, kind) ==
  /\ edit[e].kind = kind
  /\ edit' = [edit EXCEPT ![e] = NoEdit]
  /\ UNCHANGED <<shop, overlapped>>

CreateCategory(e) ==
  LET r == edit[e] IN
  /\ Saving(e, "createCategory")
  /\ category' = [category EXCEPT ![r.row] =
                    [of |-> r.of, status |-> r.status, deleted |-> FALSE]]
  /\ UNCHANGED goods

MutantUpdateCategory(e) ==
  LET r == edit[e] IN
  /\ Saving(e, "updateCategory")
  /\ category' = [category EXCEPT ![r.row].status = r.status]
  /\ UNCHANGED goods

\* updateMany takes the products of a category switched off from the shelf, as they are.
UpdateCategory(e) ==
  LET r == edit[e]
      off == {g \in ProductsIn(r.row) : goods[g].status = "ON_SALE"} IN
  /\ Saving(e, "updateCategory")
  /\ category' = [category EXCEPT ![r.row].status = r.status]
  /\ goods' = IF r.status = "DISABLED"
              THEN [g \in Goods |-> IF g \in off THEN [goods[g] EXCEPT !.status = "OFF_SHELF"]
                                                 ELSE goods[g]]
              ELSE goods

SoftDeleteCategory(e) ==
  /\ Saving(e, "deleteCategory")
  /\ category' = [category EXCEPT ![edit[e].row].status = "DISABLED",
                                  ![edit[e].row].deleted = TRUE]
  /\ UNCHANGED goods

\* productData: every field of the form, the stock among them.
CreateProduct(e) ==
  LET r == edit[e] IN
  /\ Saving(e, "createProduct")
  /\ \E l \in Limits :
       goods' = [goods EXCEPT ![r.row] =
                   [of |-> r.of, category |-> r.category, status |-> r.status,
                    deleted |-> FALSE, stock |-> r.stock, limit |-> l]]
  /\ UNCHANGED category

UpdateProduct(e) ==
  LET r == edit[e] IN
  /\ Saving(e, "updateProduct")
  /\ \E l \in Limits :
       goods' = [goods EXCEPT ![r.row].category = r.category, ![r.row].status = r.status,
                              ![r.row].stock = r.stock, ![r.row].limit = l]
  /\ UNCHANGED category

SoftDeleteProduct(e) ==
  /\ Saving(e, "deleteProduct")
  /\ goods' = [goods EXCEPT ![edit[e].row].status = "OFF_SHELF",
                            ![edit[e].row].deleted = TRUE]
  /\ UNCHANGED category

\* A refused or interrupted edit is undone.
DropEdit(e) ==
  /\ edit[e].kind # "none"
  /\ edit' = [edit EXCEPT ![e] = NoEdit]
  /\ UNCHANGED <<shop, category, goods, overlapped>>

(***************************************************************************)
(* Orders (Checkout.tla): stock is taken under the condition of the        *)
(* statement and given back to the row whatever it has become.             *)
(***************************************************************************)
MutantTakeStock(g) ==
  /\ GoodsExist(g) /\ goods[g].status = "ON_SALE"
  /\ goods' = [goods EXCEPT ![g].stock = @ - 1]
  /\ UNCHANGED <<shop, category, edit, overlapped>>

TakeStock(g) ==
  /\ GoodsExist(g) /\ goods[g].status = "ON_SALE" /\ goods[g].stock > 0
  /\ goods' = [goods EXCEPT ![g].stock = @ - 1]
  /\ UNCHANGED <<shop, category, edit, overlapped>>

ReturnStock(g) ==
  /\ goods[g].of # NoShop /\ goods[g].stock < MaxStock
  /\ goods' = [goods EXCEPT ![g].stock = @ + 1]
  /\ UNCHANGED <<shop, category, edit, overlapped>>

ShelfNext ==
  /\ \/ \E s \in Shops : \/ CreateShop(s) \/ UpdateShop(s)
                         \/ UpdateShopStatus(s) \/ SoftDeleteShop(s)
     \/ \E g \in Goods : TakeStock(g) \/ ReturnStock(g)
     \/ \E e \in Editors :
          \/ BeginCreateCategory(e) \/ CreateCategory(e)
          \/ BeginUpdateCategory(e) \/ UpdateCategory(e)
          \/ BeginDeleteCategory(e) \/ SoftDeleteCategory(e)
          \/ BeginCreateProduct(e) \/ CreateProduct(e)
          \/ BeginUpdateProduct(e) \/ UpdateProduct(e)
          \/ BeginDeleteProduct(e) \/ SoftDeleteProduct(e)
          \/ DropEdit(e)
  /\ UNCHANGED community

----------------------------------------------------------------------------
\* admin-operations.md: switching a category off takes its products off the shelf, and
\* in a category that is off no product goes on sale.  That is said of every edit, but
\* two that overlap break it, because neither locks what it has read (residents still
\* see nothing of the category, Shopping.tla).
DisabledIsOffShelf ==
  \A g \in Goods :
    GoodsExist(g) /\ goods[g].status = "ON_SALE"
      => CategoryExists(goods[g].category)
         /\ category[goods[g].category].status = "ENABLED"

\* As long as no two edits overlap, it holds, whatever sequence of edits and of orders
\* came before (catalog.repository.ts validateProductContext, updateCategory and
\* softDeleteCategory).
ShelvesInOrder == ~overlapped => DisabledIsOffShelf
----------------------------------------------------------------------------
\* Every product is in a category of its own store, and so is every edit that would put
\* one there; a row that an edit is about to create is nothing yet.
ShelfIsWhole ==
  /\ \A k \in Categories : category[k].of # NoShop => shop[category[k].of].status # "none"
  /\ \A g \in Goods : goods[g].of # NoShop =>
       goods[g].category \in Categories /\ category[goods[g].category].of = goods[g].of

EditsAreWhole ==
  \A e \in Editors :
    /\ edit[e].kind = "createCategory" =>
         /\ edit[e].row \in Categories /\ category[edit[e].row].of = NoShop
         /\ edit[e].of \in Shops /\ shop[edit[e].of].status # "none"
         /\ edit[e].status \in {"ENABLED", "DISABLED"}
    /\ edit[e].kind \in {"updateCategory", "deleteCategory"} =>
         edit[e].row \in Categories
    /\ edit[e].kind = "updateCategory" => edit[e].status \in {"ENABLED", "DISABLED"}
    /\ edit[e].kind \in {"createProduct", "updateProduct"} =>
         /\ edit[e].row \in Goods /\ edit[e].of \in Shops
         /\ edit[e].category \in Categories /\ category[edit[e].category].of = edit[e].of
         /\ edit[e].status \in GoodsStatus
    /\ edit[e].kind = "createProduct" => goods[edit[e].row].of = NoShop
    /\ edit[e].kind = "updateProduct" => goods[edit[e].row].of = edit[e].of
    /\ edit[e].kind = "deleteProduct" =>
         edit[e].row \in Goods /\ goods[edit[e].row].of # NoShop

CreatesAreApart ==
  \A e, f \in Editors :
    /\ edit[e].kind = edit[f].kind /\ edit[e].row = edit[f].row
    /\ edit[e].kind \in {"createCategory", "createProduct"}
    => e = f

\* As long as edits do not overlap, what an edit has looked up is still so.
LookupsHold ==
  ~overlapped =>
    /\ \A e, f \in Editors : edit[e].kind # "none" /\ edit[f].kind # "none" => e = f
    /\ \A e \in Editors :
         /\ edit[e].kind \in {"createProduct", "updateProduct"} /\ edit[e].status = "ON_SALE"
              => /\ CategoryExists(edit[e].category)
                 /\ category[edit[e].category].status = "ENABLED"
         /\ edit[e].kind = "deleteCategory" => ProductsIn(edit[e].row) = {}

ShelfIInv == /\ ShelfTypeOK /\ ShelfIsWhole /\ EditsAreWhole /\ CreatesAreApart
             /\ LookupsHold /\ ShelvesInOrder
=============================================================================
